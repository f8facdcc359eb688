CONSTANTS
  a = a
  b = b
  w1 = w1
  e1 = e1
  URL = {a, b}
  Worker = {w1}
  NoWorker = NoWorker
  NoParent = NoParent
  NilParent = NilParent
  NoURL = NoURL
  Exec = {e1}
  WorkerOf <- One
  Seeds = {a}
  Norm <- Same
  Final <- Same
  Links <- OneLink
  TryLim = 0
  r1 = r1
  r2 = r2
  Req = {r1, r2}
  MaxEvents = 2
SPECIFICATION FairSpec
INVARIANTS ResetTypeOK NewCrawlLosesNoURL ParentStored
PROPERTIES CompleteURLsEnd
