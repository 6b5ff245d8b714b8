\* What was painted may be moved in place while the damage is full already.
CONSTANTS
  Width = 2
  Values = {0, 1}
  None = None
  MovesUnseen = TRUE
  MaxChanges = 3
SPECIFICATION PaintingSpec
INVARIANTS HostIsCurrent
CHECK_DEADLOCK FALSE
