SPECIFICATION FairSpec
CONSTANTS
  Owner = {o1}
  Session = {s1}
  Key = {1, 2, 3}
  Digest = {d1}
  File = {f1}
  Output = {p1}
  Encoded = {}
  EngineKey = {e1}
  None = None
  MaxActive = 1
  MaxGeneration = 1
  MaxWorkers = 2
  Faults = FALSE
  Actors = {"sweep", "stop", "logout"}
  MaxRestarts = 0
PROPERTIES EndedIsSilenced CleanupCompletes PlaybackResolves
CHECK_DEADLOCK FALSE
