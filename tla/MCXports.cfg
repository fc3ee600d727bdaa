CONSTANTS
  WordBytes = 8
  NBits = 3
  Xprt = {x1, x2, x3, x4}
  Sock = {s1, s2}
  BAD = BAD
  NoFd = NoFd
  Main = Main
  Creators = {}
  ProgressBits = {"RETURN"}
SYMMETRY Sym
SPECIFICATION Spec
INVARIANTS
  TypeOK
  LiveXprtFound
  FsckClean
  SocketsWatched
  MarksCounted
  CollectsOnlyRetired
  DiesOnlyWhenFull
  RegistryInv
CHECK_DEADLOCK FALSE
