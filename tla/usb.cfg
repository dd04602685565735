CONSTANTS
  Ports = {1}
  Devices = {"printer", "keyboard"}
  Sessions = {1, 2}
SPECIFICATION FairSpec
INVARIANT GivenBack ReaderFree
PROPERTY KeyboardStays
