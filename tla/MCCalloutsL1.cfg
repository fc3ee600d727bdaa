SPECIFICATION Spec
CONSTANTS
  Progs = {1, 2}
  Vers = {0, 1, 3}
  MaxVers = 3
  Functions = {f1, f2}
  Protocols = {udp}
  Block = {b1, b2, b3, b4}
  None = None
  L1_INIT_SIZE = 2
  MaxAlloc = 4
SYMMETRY CalloutSym
INVARIANTS
  L1Within
CHECK_DEADLOCK FALSE
