SPECIFICATION Spec
CONSTANTS
  Session = {s1, s2, s3}
  Caller = {c1, c2}
  None = None
  MaxGeneration = 1
  MaxWorkers = 2
SYMMETRY Symmetry
INVARIANTS WorkersBounded OneVideoTranscode
CHECK_DEADLOCK FALSE
