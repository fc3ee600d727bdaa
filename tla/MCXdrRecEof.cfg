SPECIFICATION Spec
CONSTANTS
  Unit = 2
  Base = 8
  sendsize = 7
  recvsize = 1
  MinBuf = 5
  DefaultBuf = 6
  MaxRecords = 2
  MaxUnits = 2
  MaxRecord = 4
  MaxTimeouts = 1
  TimesOutIn = {"skip", "get", "eof"}
PROPERTY RecordsIntact
CHECK_DEADLOCK FALSE
