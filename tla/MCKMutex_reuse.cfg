SPECIFICATION Spec
CONSTANTS
  t1 = t1
  t2 = t2
  t3 = t3
  NoTid = NoTid
  Thread = {t1, t2, t3}
  MAX_MUTEXES = 2
  MutexId = {0, 1, 2}
  PastEndId = 7
  Calls = {"alloc", "dealloc", "lock", "unlock"}
  Discipline = {"balanced", "quiescent"}
SYMMETRY Symmetry
INVARIANTS WaitingExact NoLostWakeup
PROPERTIES NoOvertaking
CHECK_DEADLOCK FALSE
