\* The machine left to itself but for the plug, updates and restarts.
CONSTANTS
  Releases = {1, 2}
  Scripts = {"s1", "s2"}
  Script <- MCScript
  GPUs = {"g"}
  Adapters = {"g"}
  Machines <- Common
  SafeRetryEvery = 2
  MarkTries = 2
  Menu = {}
  Faults = {"cut", "crash"}
  MaxEvents = 3
SPECIFICATION FairSpec
PROPERTY ComesUp
