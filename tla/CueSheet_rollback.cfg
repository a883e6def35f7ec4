CONSTANTS
  Cues = {c1, c2, c3, c4}
  Start = 2
  MaxGroups = 4
  MaxNesting = 8
  Step = 32
  One = 2
  MaxIndex = 512
  MaxEdits = 2
  Edits = {"add", "remove"}
  Shows <- MCShows
SYMMETRY Symm
SPECIFICATION ImportSpec
INVARIANT RollbackOnlyImport
CHECK_DEADLOCK FALSE
