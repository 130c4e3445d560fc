\* Two sessions loaded on a successor, and their updates meanwhile.
CONSTANTS
  Sessions = {s1, s2}
  Origins = {o1}
  Versions = {1}
  LEADER_PROTOCOL_VERSION = 1
  MaxGen = 2
  MaxPhone = 1
  MaxReq = 6
  MaxForward = 2
  MaxReverse = 0
  MaxUpdates = 1
SPECIFICATION HandoverSpec
INVARIANT SubscribedUpdatesArrive
PROPERTY HandedOverNotEvicted
CHECK_DEADLOCK FALSE
