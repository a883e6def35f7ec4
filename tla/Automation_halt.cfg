CONSTANTS
  Last = 2
  AutoContinue = {1}
  Hold = {}
  Still = {}
  Fade = {}
  Ops = {"go", "stop", "panic"}
  MaxOps = 2
  Workers = {w1, w2}
  Faults = FALSE
SYMMETRY Symm
SPECIFICATION Spec
PROPERTIES HaltDisarms
CHECK_DEADLOCK FALSE
