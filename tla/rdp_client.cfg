CONSTANTS
  Updates = 2
  Backlog = 1
  FrameBuf = 1
  Points = {p, q}
  Moves = 2
  Presses = 1
SPECIFICATION FairSpec
INVARIANT TypeOK NothingLost DeadIsFailed
PROPERTY FramesEnd PointerArrives
CHECK_DEADLOCK FALSE
