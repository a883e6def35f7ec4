CONSTANTS
  Cues = {c1, c2, c3, c4}
  Start = 2
  MaxGroups = 4
  MaxNesting = 8
  Step = 32
  One = 2
  MaxIndex = 512
  MaxEdits = 2
  Edits = {"add", "insert", "addto", "remove", "delete", "media", "clear", "drag", "join",
           "dragg", "bulk", "group", "nest", "fold", "restart", "select", "import"}
  Shows <- MCShows
SYMMETRY Symm
SPECIFICATION Benches
INVARIANTS ReferencesSound MovesLand RemovalsSound ShiftUndoes ImportsSound
PROPERTIES PoolSound LiveSound
CHECK_DEADLOCK FALSE
