CONSTANTS
  Conns = {1, 2}
  Servers = {"s", "t"}
  Redials = 1
  EndKeys = 1
SPECIFICATION Spec
INVARIANT LiveOnScreen
