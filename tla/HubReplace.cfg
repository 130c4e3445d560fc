\* Three home links: refusals, deadlines, hand-overs, a candidate replaced by a newer one.
CONSTANTS
  Sessions = {s1}
  Origins = {o1}
  Versions = {1, 2}
  LEADER_PROTOCOL_VERSION = 1
  MaxGen = 3
  MaxPhone = 1
  MaxReq = 7
  MaxForward = 1
  MaxReverse = 0
SPECIFICATION Spec
INVARIANTS AwayNoticeCurrent NewestComesUp NoAcpBeforeReady RefusalForgotten
PROPERTIES IncumbentStable ImplementsService
CHECK_DEADLOCK FALSE
