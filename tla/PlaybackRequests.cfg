SPECIFICATION Spec
CONSTANTS
  Owner = {o1}
  Session = {s1}
  Key = {1, 2, 3}
  Digest = {d1}
  File = {f1, f2}
  Output = {p1, p2}
  Encoded = {}
  EngineKey = {e1}
  None = None
  MaxActive = 1
  MaxGeneration = 3
  MaxWorkers = 2
  Faults = TRUE
  Actors = {"hls", "select"}
  MaxRestarts = 0
SYMMETRY Symmetry
PROPERTIES OnlyOwnGeneration StopsSpareNewer
CHECK_DEADLOCK FALSE
