\* Three fibers are nested three deep, or two and one beside them; three leaves
\* let a function await again after each way an await can end.
CONSTANTS
  Fiber = {g1, g2, g3}
  Leaf = {c1, c2, c3}
  Null = Null
SPECIFICATION Spec
INVARIANTS
  WrongFiberHasEnded
  NoAwaitedLeftBehind
  StacksFollowFibers
PROPERTIES
  FibersImplementCommand
  EventuallyAnswers
