CONSTANTS
  Cpu = {c1, c2}
  NoCpu = NoCpu
  Kthread = {t1, t2}
  NLOCK = 2
  BSIZE = 2
  NDIRECT = 2
  FSSIZE = 12
  NMETA = 1
  BPB = 1
  FUINT = 16
  MAXOPBLOCKS = 10
  NINODES = 6
  Used = {1, 2, 3}
  Fd = {3, 4}
  Images <- MCImages
  Payload <- MCPayload
  ReadCount = {3, 15}
  MaxCalls = 3
  HEADER = 4
  MINCORE = 4
  HeapStart = 2
  HeapLimit = 14
  Request = {1, 9, 16}
  Gap = {1}
  MAXARGS = 3
  MaxFailures = 1
  Script <- MCScript
SPECIFICATION Spec
SYMMETRY Symmetry
INVARIANTS
  SpinExclusion CpuStateExact
  ReadsBack  WithinLimits
  HeapSound
  ParserExact LineRuns
CHECK_DEADLOCK FALSE
