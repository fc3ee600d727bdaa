SPECIFICATION Spec
CONSTANTS
  Unit = 2
  Base = 4
  NULL = NULL
  Dangling = Dangling
  MaxNetobj = 2
  Cases <- AllCases
  LongsOnFile = TRUE
  MaxBuf = 20
  MaxMem = 5
INVARIANT RoundTrip
CHECK_DEADLOCK FALSE
