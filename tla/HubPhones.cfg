\* Two phones on one session: watching, driving, forwarding, reverse requests.
CONSTANTS
  Sessions = {s1}
  Origins = {o1}
  Versions = {1}
  LEADER_PROTOCOL_VERSION = 1
  MaxGen = 1
  MaxPhone = 2
  MaxReq = 5
  MaxForward = 1
  MaxReverse = 3
SPECIFICATION Spec
INVARIANTS TypeOK SessionTables OneReply OneAnswer ReverseBacked
PROPERTIES DriverStable
CHECK_DEADLOCK FALSE
