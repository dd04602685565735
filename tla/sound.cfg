CONSTANTS
  Sessions = {1, 2}
  Blocks = {1, 2}
  Queue = 1
SPECIFICATION FairSpec
PROPERTY BlocksConfirmed SoundFreed
CHECK_DEADLOCK FALSE
