CONSTANTS
  WordBytes = 4
  NBits = 64
  Xprt = {x1, x2, x3, x4, x5, x6}
  Sock = {s1}
  BAD = BAD
  NoFd = NoFd
  Main = Main
  Creators = {}
  ProgressBits = {"RETURN"}
SYMMETRY Sym
SPECIFICATION Spec
INVARIANT CollectsOnlyRetired
CHECK_DEADLOCK FALSE
