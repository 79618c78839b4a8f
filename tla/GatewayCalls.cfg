SPECIFICATION FairSpec
CONSTANTS
  Session = {s1}
  Caller = {c1, c2, c3}
  None = None
  MaxGeneration = 2
  MaxWorkers = 2
INVARIANTS TypeOK NoLostProcess NoOverlap ArtifactsKept StopIsEffective
PROPERTIES ReservationsReleased
CHECK_DEADLOCK FALSE
