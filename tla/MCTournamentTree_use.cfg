SPECIFICATION TreeSpec
CONSTANTS
  t1 = t1
  t2 = t2
  t3 = t3
  t4 = t4
  NoTid = NoTid
  Thread = {t1, t2, t3, t4}
  MAX_MUTEXES = 3
  MutexId = {}
  PastEndId = 7
  Calls = {"alloc", "dealloc", "lock", "unlock"}
  Discipline = {}
  Depths = {1, 2}
SYMMETRY Symmetry
INVARIANTS MutualExclusion TreeCorrect
