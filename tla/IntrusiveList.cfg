\* Two lists, as in win32_run.cpp, and three nodes moving between them: a
\* list can be empty, have one node, and have a node that is neither end.
CONSTANTS
  Node = {n1, n2, n3}
  Head = {sleepers, woken}
  Woken = woken
  Null = Null
SPECIFICATION Spec
INVARIANTS
  TypeOK
  DoublyLinked
  RingVisitsMembers
  WalkMissesNothing
PROPERTIES
  WalkEnds
