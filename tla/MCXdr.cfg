SPECIFICATION Spec
CONSTANTS
  Unit = 2
  Base = 4
  NULL = NULL
  Dangling = Dangling
  MaxNetobj = 2
  Cases <- AllCases
  LongsOnFile = FALSE
  MaxBuf = 20
  MaxMem = 5
INVARIANTS
  XdrTypeOK
  RoundTrip
  SizeofExact
  DecodedIsLegal
  FreeReleasesAll
CHECK_DEADLOCK FALSE
