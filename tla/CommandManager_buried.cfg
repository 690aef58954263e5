SPECIFICATION FairSpec
CONSTANTS
  k1 = k1
  c1 = c1
  c2 = c2
  name = name
  query = query
  n1 = n1
  q1 = q1
  Clients = {k1}
  Commands = {c2}
  Patterns = {name, query}
  Messages = {n1, q1}
  Owner <- MCOwner
  PatternOf <- MCPatternOf
  ResponsePattern <- MCResponsePattern
  Leading <- MCLeading
  Surplus <- MCSurplus
  Error = Error
  NoMessage = NoMessage
  NoCommand = NoCommand
  MaxConnects = 1
  MaxBroadcasts = 1
  MaxDrops = 0
PROPERTY ResponsesAreNotBuried
CHECK_DEADLOCK FALSE
