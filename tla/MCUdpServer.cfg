SPECIFICATION ServiceSpec
CONSTANTS
  WordBytes = 8
  NBits = 3
  Xprt = {x1, x2, x3}
  Sock = {s1}
  BAD = BAD
  NoFd = NoFd
  Main = main
  Creators = {}
  ProgressBits = {"GETARGS", "RETURN"}
  Workers = {w1, w2}
  Calls = {r1, r2}
  Malformed = {bad}
  Unknown = {unknown}
  BadAuth = {badauth}
  Modes = {0, 1, 2}
  WaitMethods = {"MUTEX", "USLEEP"}
  MaxQueue = 1
SYMMETRY ServiceSym
VIEW ServiceView
INVARIANTS
  ServiceTypeOK
  RequestIsPrivate
  OneWorkerPerXprt
  SetupIsSerial
CHECK_DEADLOCK FALSE
