CONSTANTS
  Names = {"a", "b"}
  Keys = {"good", "bad"}
  Right = {"good"}
  Jobs = {1, 2, 3}
  Faults = {"write", "disk", "apply"}
  MaxActs = 2
SPECIFICATION FairSpec
INVARIANT Settles
PROPERTY JoinedIsKept JoiningEnds
