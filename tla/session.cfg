CONSTANTS
  Conns = {1, 2}
  Servers = {"s"}
  Redials = 1
  EndKeys = 1
SPECIFICATION FairSpec
INVARIANT TypeOK ConnectingAttended SessionShown CountdownHasServer OneConnection LiveUndisturbed
PROPERTY ConnectingEnds
