\* Three commands: the one of the task, a successor, and one that f returns.
CONSTANTS
  Cmd = {c1, c2, c3}
  Null = Null
SPECIFICATION Spec
INVARIANTS
  CalledExactlyOnce
  NoCommandLeftBehind
PROPERTIES
  ImplementsCommand
  EventuallyAnswers
