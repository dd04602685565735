CONSTANTS
  Nodes = {1, 2, 3}
  Is <- MCIs
  Buffer = 1
  Unread = 1
SPECIFICATION FairSpec
INVARIANT NoKeyStuck
PROPERTY PluggedIsRead CloseEnds
CHECK_DEADLOCK FALSE
