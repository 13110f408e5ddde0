SPECIFICATION Spec
CONSTANTS
  recent = recent
  aged = aged
  nextHour = nextHour
  slash = slash
  deeper = deeper
  dotted = dotted
  notGz = notGz
  spaced = spaced
  Objects <- MCObjects
  Key <- MCKey
  SentKey <- MCSentKey
  Rank <- MCRank
  LastModified <- MCLastModified
  EventTime <- MCEventTime
  Content <- MCContent
  Configs <- MCConfigs
  TimeTolerance = 40
  PageSize = 2
INVARIANTS
  TypeOK
  NoLineTwice
  OwnComplete
  BackfillComplete
  InTimeOrder
PROPERTY
  AlwaysReturns
