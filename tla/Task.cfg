\* Two tasks and two results, for every assignment between them and to
\* themselves; two commands, one for each side of a move.
CONSTANTS
  Task = {t, u}
  Result = {r, q}
  Temp = Temp
  Cmd = {c, d}
SPECIFICATION Spec
INVARIANTS
  IndexNamesObject
  EveryObjectIsHeld
  OneOwnerPerCommand
