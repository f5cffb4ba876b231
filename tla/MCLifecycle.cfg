SPECIFICATION Spec
CONSTANTS
  Columns <- McColumns
  Indexed <- McIndexed
  Broken = {3}
  MaxStarts = 1
INVARIANTS TablesAgree DevRunsLatest
PROPERTIES StartsOrStops
CHECK_DEADLOCK FALSE
