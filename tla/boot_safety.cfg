\* Every fault and every menu entry, three interferences.
CONSTANTS
  Releases = {1, 2}
  Scripts = {"s1", "s2"}
  Script <- MCScript
  GPUs = {"g"}
  Adapters = {"g", ""}
  Machines <- Every
  SafeRetryEvery = 2
  MarkTries = 2
  Menu = {"lts", "safe", "retry", "previous"}
  Faults = {"cut", "crash", "io"}
  MaxEvents = 3
SPECIFICATION Spec
INVARIANT TypeOK
INVARIANT ProvenSlotWhole
INVARIANT NeverStuck
PROPERTY Refinement
