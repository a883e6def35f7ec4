CONSTANTS
  Pipes = {p1, p2, p3}
  None = None
  Cues = {1, 2, 3, 4, 5, 6, 7, 8}
  Keep = {2, 4, 8}
  Cross = {1, 7}
  Hold = {4, 7}
  Loop = {3, 6}
  Trim = {6}
  Count <- MCCount
  Layered = TRUE
  Faults = TRUE
  Requests = {r1, r2}
  Second = r2
  Calls = {"fire", "play", "pause", "toggle", "stop", "panic", "fade", "stopCue", "warm"}
  MaxCalls = 3
SYMMETRY Symm
SPECIFICATION Benches
INVARIANTS TypeOK Exclusive FocusIsNewest StackHasFocus WarmReady   EndsWatched EndsNamed
PROPERTIES GenMovesWithFocus LoopsEndByCount
CHECK_DEADLOCK FALSE
