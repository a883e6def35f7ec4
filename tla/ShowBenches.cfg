CONSTANTS
  Pipes = {p1, p2, p3}
  Files = {f}
  Handlers = {t1, t2}
  Ops = {"panic", "set", "file", "go"}
  MaxOps = 3
  Faults = TRUE
SPECIFICATION Benches
INVARIANTS Owned StampIsPicture
PROPERTIES PanicLands  SlidesYield PagesComeBack AwardsInOrder
CHECK_DEADLOCK FALSE
