\* Two sleepers, so that one is woken while the other is being cancelled; three
\* waiters for an array of two, so that it fills up and its last entry is swapped.
CONSTANTS
  Sleeper = {r1, r2}
  Waiter = {h1, h2, h3}
  Connect = {h1}
  Limit = 2
  MaxAgain = 1
  Null = Null
SPECIFICATION Spec
INVARIANTS
  NodesFollowTheirLeaves
  HandlesArePending
  NothingDueWhenBlocking
  OperationEndsBeforeCommand
PROPERTIES
  LeavesImplementCommandUnlessEnumFails
  TryRunReturns
