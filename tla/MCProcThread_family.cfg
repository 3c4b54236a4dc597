SPECIFICATION Spec
CONSTANTS
  c1 = c1
  c2 = c2
  CPU = {c1, c2}
  NPROC = 4
  NTHREAD = 1
  InitCalls = {"fork", "wait"}
  MainCalls = {"fork", "wait", "exit", "kill"}
  WorkerCalls = {}
  Calls <- MCCalls
  KillPids = {3}
  MemoryFails = FALSE
  MaxPid = 4
  MaxTid = 5
SYMMETRY Symmetry
INVARIANTS OneCpu  WaitNotMissed
