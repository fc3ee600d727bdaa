SPECIFICATION Spec
CONSTANTS
  Progs = {1, 2}
  Vers = {0, 1, 3}
  MaxVers = 3
  Functions = {f1, f2}
  Protocols = {udp}
  Block = {b1, b2, b3}
  None = None
  L1_INIT_SIZE = 2
  MaxAlloc = 3
SYMMETRY CalloutSym
INVARIANTS
  CalloutTypeOK
  AnswersRight
  BindingsRight
  CalloutsFreed
CHECK_DEADLOCK FALSE
