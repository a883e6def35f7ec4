CONSTANTS
  Cues = {c1, c2}
  Start = 2
  MaxGroups = 1
  MaxNesting = 8
  Step = 32
  One = 2
  MaxIndex = 128
  MaxEdits = 2
  Edits = {"group", "dragg", "drag", "bulk"}
  Shows = {}
SYMMETRY Symm
SPECIFICATION Spec
INVARIANT RestartKeepsOrder
CHECK_DEADLOCK FALSE
