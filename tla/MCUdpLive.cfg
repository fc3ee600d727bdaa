VIEW ServiceView
SPECIFICATION FairServiceSpec
CONSTANTS
  WordBytes = 8
  NBits = 3
  Xprt = {x1, x2, x3}
  Sock = {s1}
  BAD = BAD
  NoFd = NoFd
  Main = main
  Creators = {}
  ProgressBits = {"GETARGS", "RETURN"}
  Workers = {w1, w2}
  Calls = {r1}
  Malformed = {}
  Unknown = {}
  BadAuth = {}
  Modes = {0, 1}
  WaitMethods = {"MUTEX", "USLEEP"}
  MaxQueue = 1
PROPERTIES
  MainKeepsPolling
  RetiredIsDestroyed
CHECK_DEADLOCK FALSE
