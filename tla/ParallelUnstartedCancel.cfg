\* The smallest number of children that shows it, and one to spare.
CONSTANTS
  Child = {c1, c2, c3}
SPECIFICATION Spec
INVARIANT
  OnlyStartedCancelled
