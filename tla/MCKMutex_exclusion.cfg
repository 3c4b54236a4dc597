SPECIFICATION Spec
CONSTANTS
  t1 = t1
  t2 = t2
  NoTid = NoTid
  Thread = {t1, t2}
  MAX_MUTEXES = 1
  MutexId = {0}
  PastEndId = 7
  Calls = {"alloc", "lock", "unlock"}
  Discipline = {"balanced"}
SYMMETRY Symmetry
INVARIANTS MutualExclusion
