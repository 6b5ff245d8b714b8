\* Three navigations, calls nested four deep.
CONSTANTS
  MaxNavigations = 3
  MaxDepth = 4
SPECIFICATION Spec
INVARIANT ExactlyOneFinish
CHECK_DEADLOCK FALSE
