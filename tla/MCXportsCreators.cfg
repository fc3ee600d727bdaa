CONSTANTS
  WordBytes = 8
  NBits = 3
  Xprt = {x1, x2, x3, x4}
  Sock = {s1, s2}
  BAD = BAD
  NoFd = NoFd
  Main = Main
  Creators = {c1}
  ProgressBits = {"RETURN"}
SYMMETRY Sym
SPECIFICATION Spec
INVARIANT LiveXprtFound
CHECK_DEADLOCK FALSE
