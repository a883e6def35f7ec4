CONSTANTS
  Last = 2
  AutoContinue = {1, 2}
  Hold = {}
  Still = {1}
  Fade = {2}
  Ops = {"go", "esc", "stop", "panic", "play"}
  MaxOps = 3
  Workers = {w1, w2}
  Faults = TRUE
  Firings = {f1, f2}
SYMMETRY Symm
SPECIFICATION Benches
INVARIANTS TypeOK CountdownClears
PROPERTIES ArmedYields QueueYields ChainGoesOn ClockKept
CHECK_DEADLOCK FALSE
