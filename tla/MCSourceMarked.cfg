CONSTANTS
  a = a
  b = b
  w1 = w1
  w2 = w2
  e1 = e1
  e2 = e2
  e3 = e3
  URL = {a, b}
  Worker = {w1, w2}
  NoWorker = NoWorker
  NoParent = NoParent
  NilParent = NilParent
  NoURL = NoURL
  Exec = {e1, e2}
  WorkerOf <- OneEach
  Seeds = {a}
  Norm <- Upper
  Final <- Upper
  Links <- UpperLinks
  TryLim = 1
  MaxFaults = 0
  Faults = {"expire", "fail", "lost", "crash", "slow"}
SPECIFICATION FairSpec
PROPERTIES SourceMarked
