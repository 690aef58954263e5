SPECIFICATION FairSpec
CONSTANTS
  k1 = k1
  c1 = c1
  c2 = c2
  name = name
  query = query
  n1 = n1
  q1 = q1
  Clients = {k1}
  Commands = {c1, c2}
  Patterns = {name, query}
  Messages = {n1, q1}
  Owner <- MCOwner
  PatternOf <- MCPatternOf
  ResponsePattern <- MCResponsePattern
  Leading <- MCLeading
  Surplus <- MCSurplus
  Error = Error
  NoMessage = NoMessage
  NoCommand = NoCommand
  MaxConnects = 2
  MaxBroadcasts = 2
  MaxDrops = 1
INVARIANTS
  TypeOK
  ExchangeMatchesContext
  NoLostWakeup
  AtMostOneCall
  UndisturbedAnswersOwnRequest
  IdleViewFollowsServer
PROPERTIES
  ServiceSpec
  ServedCommandsConclude
CHECK_DEADLOCK FALSE
