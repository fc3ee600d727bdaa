SPECIFICATION Spec
CONSTANTS
  c1 = c1
  c2 = c2
  Calls <- SharedXids
  Size = 3
  Nodes = {n1, n2, n3, n4}
  Buffers = {b1, b2, b3, b4, b5}
  NULL = NULL
SYMMETRY CacheSym
INVARIANTS
  ResentIsRetransmission
