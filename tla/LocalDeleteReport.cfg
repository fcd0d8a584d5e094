SPECIFICATION FairSpec
CONSTANTS
  d1 = d1
  d2 = d2
  Batch <- OneBatch
  Size <- Sizes
PROPERTY EveryBatchReported
