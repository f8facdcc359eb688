CONSTANTS
  MaxTexts = 5
  MaxSize = 4
  Inputs <- MCInputs
  maxBatchSize = 3
SPECIFICATION Spec
INVARIANTS TypeOK VectorsMatch ChunksFit
CHECK_DEADLOCK FALSE
