CONSTANTS
  Process = {1, 2}
  Thread = {1, 2, 3}
  ProcOf <- MCProcOf
  BlockUser = {1, 2}
  NBUF = 2
  Block = {1, 2, 3}
  Value = {a, b}
  Reader = {2, 3}
  INPUT_BUF = 2
  CUINT = 4
  Letter = {"x"}
  Wanted = {1, 2}
  Row = 2
  Column = 2
  Sleeper = {2, 3}
  TUINT = 4
  Delay <- MCDelay
  NFRAME = 12
  PGSIZE = 2
  NPTENTRIES = 2
  KERNBASE = 8
  KERNPAGES = 2
  MUINT = 16
  Sbrk <- MCSbrk
  ProgramSize = {1}
  InitProc = 1
SPECIFICATION Spec
INVARIANTS
  BuffersOwned ContentsKept SleepersServed InputKept  
PROPERTIES OneLine SleepsExactly
CHECK_DEADLOCK FALSE
