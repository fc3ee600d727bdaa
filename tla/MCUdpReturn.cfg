SPECIFICATION ServiceSpec
CONSTANTS
  WordBytes = 8
  NBits = 3
  Xprt = {x1, x2, x3, x4}
  Sock = {s1}
  BAD = BAD
  NoFd = NoFd
  Main = main
  Creators = {}
  ProgressBits = {"GETARGS", "RETURN"}
  Workers = {w1, w2}
  Calls = {r1}
  Malformed = {}
  Unknown = {}
  BadAuth = {}
  Modes = {1}
  WaitMethods = {"MUTEX"}
  MaxQueue = 1
INVARIANTS
  SafeToDestroy
CHECK_DEADLOCK FALSE
