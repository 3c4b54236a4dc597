SPECIFICATION Spec
CONSTANTS
  c1 = c1
  c2 = c2
  CPU = {c1, c2}
  NPROC = 2
  NTHREAD = 2
  InitCalls = {"fork"}
  MainCalls = {"create"}
  WorkerCalls = {}
  Calls <- MCCalls
  KillPids = {}
  MemoryFails = FALSE
  MaxPid = 2
  MaxTid = 3
SYMMETRY Symmetry
INVARIANTS UserFrameReady
