CONSTANTS
  URL = {u1, u2}
  Worker = {w1, w2}
  Left = {g1}
  NoURL = NoURL
  MaxMsgs = 3
  MaxFaults = 1
SPECIFICATION FairSpec
INVARIANTS TypeOK NoLostWakeup
PROPERTIES QueueServed
CHECK_DEADLOCK FALSE
