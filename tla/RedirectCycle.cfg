SPECIFICATION Spec
CONSTANTS
  Alias <- MCAlias
  Space <- MCSpace
  Types = {"movie", "anime"}
  Requests <- MCRequests
  MaxWorks = 2
  Tx = {t1, t2}
  Users = {u}
  MaxTime = 1
INVARIANTS OldRoutesResolve
CHECK_DEADLOCK FALSE
