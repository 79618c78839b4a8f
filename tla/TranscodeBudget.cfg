SPECIFICATION Spec
CONSTANTS
  Session = {s1, s2}
  Caller = {c1, c2}
  None = None
  MaxGeneration = 2
  MaxWorkers = 2
SYMMETRY Symmetry
INVARIANTS OneTranscodingProcess
CHECK_DEADLOCK FALSE
