CONSTANTS
  URL = {u1, u2}
  Worker = {w1, w2}
  Left = {g1}
  NoURL = NoURL
  MaxMsgs = 3
  MaxFaults = 0
SPECIFICATION FairSpec
PROPERTIES DueRetriesTakenUp
CHECK_DEADLOCK FALSE
