\* Three leaves: two share a descriptor, so EPOLL_CTL_ADD must fail (it may for
\* any) and remove_fd can remove the other's registration; one address each,
\* reused after a delete. The third is a timer, armed or not.
CONSTANTS
  l1 = l1
  l2 = l2
  l3 = l3
  f1 = f1
  f2 = f2
  Leaf = {l1, l2, l3}
  PollOp = {l1, l2}
  Timer = {l3}
  Fd = {f1, f2}
  FdOf <- MCFdOf
  Addr = {a1, a2, a3}
  Null = Null
  MaxAgain = 2
SPECIFICATION Spec
INVARIANTS
  TypeOK
  NoDanglingRegistration
  OneItemPerPendingLeaf
  LostOnlyIfRefusedOrClosed
  RemoveFdFindsItem
PROPERTIES
  RestartOnlyWhenComplete
  LeavesImplementCommand
  TryRunReturns
