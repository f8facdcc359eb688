CONSTANTS
  URL = {u1, u2}
  Worker = {w1, w2}
  NoWorker = NoWorker
  NoParent = NoParent
  NilParent = NilParent
  MaxQueue = 2
  MaxTry = 1
  MaxHeld = 2
SYMMETRY Symmetry
SPECIFICATION MCSpec
INVARIANTS FrontierTypeOK NoURLLost IndexOwned RecordsComplete
PROPERTIES HistoryKept
