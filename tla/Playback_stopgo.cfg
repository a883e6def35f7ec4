CONSTANTS
  Pipes = {p1}
  None = None
  Cues = {2}
  Keep = {}
  Cross = {}
  Hold = {}
  Loop = {}
  Trim = {}
  Count <- MCCount
  Layered = TRUE
  Faults = FALSE
  Requests = {r1, r2}
  Calls = {"fire", "stop"}
  MaxCalls = 2
SYMMETRY Symm
SPECIFICATION Spec
INVARIANTS HaltSticks
CHECK_DEADLOCK FALSE
