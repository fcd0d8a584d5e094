SPECIFICATION Spec
CONSTANTS
  u = u
  d = d
  Item <- TwoItems
  Upload <- OneUpload
  Parts <- SingleChunks
  MaxParts = 1
  PartSize = 1
  Limits <- Tightened
  ConnectBurst = 1
  Pooling = TRUE
  NewFileFirst = TRUE
  PumpAtomic = TRUE
  MaxFaults = 2
  MaxOps = 1
INVARIANT JobsMatchQueue
PROPERTIES ChannelBudget RetryRationed
