SPECIFICATION Spec
CONSTANTS
  Owner = {o1, o2, o3}
  Session = {s1, s2, s3}
  Key = {k1, k2}
  Digest = {d1}
  File = {}
  Output = {}
  EngineKey = {e1}
  None = None
  MaxActive = 2
  MaxGeneration = 0
SYMMETRY Symmetry
INVARIANTS TypeOK OneActivePerOwner CapacityRespected RetryFindsSession EngineBoundOnce
PROPERTIES SlotsSpec
CHECK_DEADLOCK FALSE
