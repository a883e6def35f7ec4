CONSTANTS
  Pipes = {p1, p2}
  None = None
  Cues = {1}
  Keep = {}
  Cross = {}
  Hold = {1}
  Loop = {}
  Trim = {1}
  Count <- MCCount
  Layered = TRUE
  Faults = FALSE
  Requests = {r1}
  Calls = {"fire", "play"}
  MaxCalls = 2
SYMMETRY Symm
SPECIFICATION Spec
INVARIANTS OutPointKept
CHECK_DEADLOCK FALSE
