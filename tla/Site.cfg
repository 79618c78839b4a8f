SPECIFICATION Spec
CONSTANTS
  NoRevision = NoRevision
  Sync1 = Sync1
  Sync2 = Sync2
  Load1 = Load1
  Load2 = Load2
INVARIANTS
  TypeOK
  PublishedComplete
  FilesKept
  SavedSurvives
  ReadersMissNothing
  AccessEnds
  LastChangeWins
  PartsAgree
PROPERTIES
  NoLostEdit
  LateAnswersHarmless
CHECK_DEADLOCK FALSE
