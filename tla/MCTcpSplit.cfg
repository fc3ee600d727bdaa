SPECIFICATION TcpSpec
CONSTANTS
  WordBytes = 8
  NBits = 3
  Xprt = {x1, x2, x3}
  Sock = {0, 1, 2}
  BAD = BAD
  NoFd = NoFd
  Main = main
  Creators = {}
  ProgressBits = {"RETURN"}
  Workers = {w1}
  p1 = p1
  p2 = p2
  r1 = r1
  r2 = r2
  bad = bad
  unknown = unknown
  badauth = badauth
  Peers = {p1, p2}
  Calls = {r1, r2}
  Malformed = {bad}
  Unknown = {unknown}
  BadAuth = {badauth}
  Split = {r2}
  lo = 2
  hi = 2
  Orders <- SomeOrders
  Says <- SomeSays
  MaxSent <- SomeSent
VIEW TcpView
PROPERTIES
  KeepsPolling
CHECK_DEADLOCK FALSE
