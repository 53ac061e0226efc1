\* Three bytes, written together or apart; four commands: one replaced by
\* a successor, one by the next turn, while the loop is started, resumed or
\* cancelled.
CONSTANTS
  Cmd = {c1, c2, c3, c4}
  MaxSize = 3
  Null = Null
SPECIFICATION Spec
INVARIANTS
  OneCommandAtATime
  EachByteOnce
PROPERTIES
  ImplementsCommand
  EventuallyAnswers
