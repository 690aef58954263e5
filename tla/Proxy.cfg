SPECIFICATION FairSpec
CONSTANTS
  Connections = {x1, x2}
  Items = {i1, i2}
  Values = {v1, v2}
  Null = Null
  MaxAsks = 2
  MaxDisturbances = 1
INVARIANTS
  NoRequestForgotten
  CacheFollowsServer
  ClientsFollowServer
  SequentialClientsAreAnswered
PROPERTIES
  RequestsAreAnswered
CHECK_DEADLOCK FALSE
