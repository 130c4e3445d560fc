\* Two sessions to load on each of two home links, and a forwarded request;
\* a leader that answers what it is asked.
CONSTANTS
  Sessions = {s1, s2}
  Origins = {o1}
  Versions = {1}
  LEADER_PROTOCOL_VERSION = 1
  MaxGen = 2
  MaxPhone = 1
  MaxReq = 7
  MaxForward = 1
  MaxReverse = 0
SPECIFICATION LiveSpec
INVARIANTS RequestIdsUnique MuxHandshakeDone
PROPERTIES CandidateSettles RequestsSettle
CHECK_DEADLOCK FALSE
