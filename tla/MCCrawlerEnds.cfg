CONSTANTS
  a = a
  b = b
  w1 = w1
  w2 = w2
  e1 = e1
  e2 = e2
  e3 = e3
  URL = {a, b}
  Worker = {w1, w2}
  NoWorker = NoWorker
  NoParent = NoParent
  NilParent = NilParent
  NoURL = NoURL
  Exec = {e1, e2, e3}
  WorkerOf <- Outlived
  Seeds = {b}
  Norm <- Same
  Final <- Back
  Links <- BackLinks
  TryLim = 1
  MaxFaults = 1
  Faults = {"expire", "fail", "lost", "crash", "slow"}
SPECIFICATION FairSpec
INVARIANTS DoneStored ParentStored OnePlaceWhileExact RetryBudgetWhileExact
PROPERTIES CrawlEnds LifeWhileExact
