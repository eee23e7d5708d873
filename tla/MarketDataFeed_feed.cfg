SPECIFICATION FairFeed
CONSTANTS
  c1 = c1
  c2 = c2
  m1 = m1
  m2 = m2
  Connections <- TwoConnections
  Messages <- TwoMessages
  Expired = Expired
  NoConnection = NoConnection
  MaxUpdates = 2
  MaxIll = 1
INVARIANTS
  TypeOK
  UpdatesUntilClose
  StaleOnlyByLate
  NothingLost
PROPERTIES
  LoopsEnd
  EveryUpdateIsDisplayed
\* Both programs end.
CHECK_DEADLOCK FALSE
