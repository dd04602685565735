CONSTANTS
  Disks = {1}
  Parts = {1}
  Kinds = {"plain", "own", "iso", "bad", "whole"}
  Attempts = 3
  MaxMedia = 2
SPECIFICATION FairSpec
INVARIANT HeldUntouched
PROPERTY StaleGoes GoodMounted
