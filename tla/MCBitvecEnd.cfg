CONSTANTS
  WordBytes = 8
  NBits = 1024
  Idx = {0, 1, 8, 960, 961, 1023}
SPECIFICATION Spec
INVARIANTS
  WithinAllocation
