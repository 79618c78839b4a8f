SPECIFICATION StreamingSpec
CONSTANTS
  Films <- MCFilms
  Startup = 1
  Window = 5
  LookBehind = 1
  Target = 8
  Limit = 20
  MaxSegments = 8
  Brake = 2
  Slack = 3
  Burst = 1
  MaxReports = 1
INVARIANTS
  StreamingTypeOK
  PlayerServed
PROPERTIES
  OrphansDropped
  StrandedResolves
  ViewingSettles
CHECK_DEADLOCK FALSE
