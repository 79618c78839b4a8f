SPECIFICATION Spec
CONSTANTS
  Owner = {o1}
  Session = {s1}
  Key = {k1, k2}
  Digest = {d1}
  File = {f1, f2}
  Output = {p1, p2}
  EngineKey = {e1}
  None = None
  MaxActive = 1
  MaxGeneration = 3
SYMMETRY Symmetry
INVARIANTS PlayableHasSource
PROPERTIES WritesBumpVersion OneOutputPerGeneration
CHECK_DEADLOCK FALSE
