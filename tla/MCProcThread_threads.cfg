SPECIFICATION Spec
CONSTANTS
  c1 = c1
  c2 = c2
  CPU = {c1, c2}
  NPROC = 2
  NTHREAD = 3
  InitCalls = {"fork", "wait"}
  MainCalls = {"create", "join", "kexit", "exit", "exec"}
  WorkerCalls = {"join", "kexit"}
  Calls <- MCCalls
  KillPids = {}
  MemoryFails = TRUE
  MaxPid = 3
  MaxTid = 4
SYMMETRY Symmetry
INVARIANTS TableSound JoinNotMissed StacksAccounted
CHECK_DEADLOCK FALSE
