\* A session first watched while the successor loads the others.
CONSTANTS
  Sessions = {s1, s2}
  Origins = {o1}
  Versions = {1}
  LEADER_PROTOCOL_VERSION = 1
  MaxGen = 2
  MaxPhone = 1
  MaxReq = 6
  MaxForward = 2
  MaxReverse = 0
  MaxUpdates = 0
SPECIFICATION HandoverSpec
PROPERTY WatchedNotEvicted
CHECK_DEADLOCK FALSE
