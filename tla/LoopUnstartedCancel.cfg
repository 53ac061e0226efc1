CONSTANTS
  Cmd = {c1, c2}
  MaxSize = 2
  Null = Null
SPECIFICATION Spec
INVARIANT OnlyStartedCancelled
