CONSTANTS
  Process = {p, q}
  NINODES = 3
  Name = {"a", "b"}
  Path <- MCPath
  LinkPaths <- MCLinkPaths
  Layout <- MCLayout
  NFILE = 1
  NOFILE = 2
  MaxCalls = 2
  MaxCrashes = 1
SYMMETRY Symmetry
SPECIFICATION FileSystemSpec
INVARIANTS RefsExact HeldCurrent LinksCounted DeadlockOnlyInIput
CHECK_DEADLOCK FALSE
