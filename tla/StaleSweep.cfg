SPECIFICATION Spec
CONSTANTS
  Owner = {o1}
  Session = {s1}
  Key = {1, 2, 3}
  Digest = {d1}
  File = {f1}
  Output = {p1, p2}
  Encoded = {}
  EngineKey = {e1}
  None = None
  MaxActive = 1
  MaxGeneration = 2
  MaxWorkers = 2
  Faults = FALSE
  Actors = {"sweep"}
  MaxRestarts = 0
SYMMETRY Symmetry
PROPERTIES SweepSparesCurrent
CHECK_DEADLOCK FALSE
