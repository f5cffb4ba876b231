SPECIFICATION Spec
CONSTANTS
  Columns <- McColumns
  Indexed <- McIndexed
  Broken = {3}
  MaxStarts = 1
INVARIANT ChangeIsReported
CHECK_DEADLOCK FALSE
