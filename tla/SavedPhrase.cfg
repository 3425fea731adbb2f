SPECIFICATION Spec
CONSTANTS
  FreshKeys = {k1}
  ForeignKeys = {old}
  k1 = k1
  old = old
  MaxFailures = 0
INVARIANT SavedBeforeMining
CHECK_DEADLOCK FALSE
