SPECIFICATION FairInitSpec
CONSTANTS
  c1 = c1
  CPU = {c1}
  NPROC = 2
  NTHREAD = 2
  InitCalls = {"fork", "wait", "kill"}
  MainCalls = {"create", "join", "exit"}
  WorkerCalls = {"kexit", "fault"}
  Calls <- MCCalls
  KillPids = {2}
  MemoryFails = FALSE
  MaxPid = 2
  MaxTid = 3
PROPERTIES ZombieReaped 
