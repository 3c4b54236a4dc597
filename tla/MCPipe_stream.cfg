SPECIFICATION Spec
CONSTANTS
  p1 = p1
  p2 = p2
  p3 = p3
  x = x
  y = y
  Process = {p1, p2, p3}
  Thread = {p1, p2, p3}
  ProcOf <- OneThread
  Byte = {x, y}
  PIPESIZE = 2
  UINT = 4
  ReadCounts = {1, 2}
  WriteCounts = {1, 3}
SYMMETRY Symmetry
INVARIANTS InOrder SleepsForAReason PageLifetime
PROPERTIES EndOfFile
CHECK_DEADLOCK FALSE
