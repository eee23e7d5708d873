SPECIFICATION Spec
CONSTANTS
  c1 = c1
  c2 = c2
  m1 = m1
  m2 = m2
  Connections <- MCConnections
  Messages <- TwoMessages
  Expired = Expired
  NoConnection = NoConnection
INVARIANTS
  DisconnectIsSurvived
\* The process ends when an exception leaves a thread or the map crashes.
CHECK_DEADLOCK FALSE
