SPECIFICATION Spec
CONSTANTS
  p1 = p1
  p2 = p2
  p3 = p3
  b1 = b1
  b2 = b2
  b3 = b3
  NoBlock = NoBlock
  Proc = {p1, p2, p3}
  Block = {b1, b2, b3}
  Value = {0, 1}
  Zero = 0
  MAXOPBLOCKS = 2
  LOGSIZE = 4
  nlog = 4
SYMMETRY Symmetry
INVARIANTS  BeginNotMissed
PROPERTIES AtomicOps
