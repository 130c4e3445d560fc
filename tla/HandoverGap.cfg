\* The successor's load result overtakes an update on the old link.
CONSTANTS
  Sessions = {s1}
  Origins = {o1}
  Versions = {1}
  LEADER_PROTOCOL_VERSION = 1
  MaxGen = 2
  MaxPhone = 1
  MaxReq = 6
  MaxForward = 1
  MaxReverse = 0
  MaxUpdates = 2
SPECIFICATION HandoverSpec
INVARIANT EveryUpdateArrives
CHECK_DEADLOCK FALSE
