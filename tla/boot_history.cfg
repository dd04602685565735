\* Every fault and every menu entry; the disk may move between two machines.
CONSTANTS
  Releases = {1, 2}
  Scripts = {"s1", "s2"}
  Script <- MCScript
  GPUs = {"g", "h"}
  Adapters = {"g", "h"}
  Machines <- Common
  SafeRetryEvery = 2
  MarkTries = 1
  Menu = {"lts", "safe", "retry", "previous"}
  Faults = {"cut", "crash"}
  MaxEvents = 2
SPECIFICATION HSpec
PROPERTY TryFallsBack
PROPERTY KernelAlternates
PROPERTY DriverTakesTheBlame
PROPERTY ProvenSticks
PROPERTY SafeAfterTwo
