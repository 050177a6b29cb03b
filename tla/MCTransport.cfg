SPECIFICATION FairSpec
CONSTANTS
  Load = {a, b}
  MaxPending = 2
  MaxFrames = 4
INVARIANTS TypeOK InStep NeverDropped PendingTrue Armed
PROPERTY IsChannel
