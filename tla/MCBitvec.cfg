CONSTANTS
  WordBytes = 8
  NBits = 1024
  Idx = {0, 1, 5, 7, 8, 958, 959, 960}
SPECIFICATION Spec
INVARIANTS
  GetsWhatWasSet
  WithinAllocation
