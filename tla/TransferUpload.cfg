SPECIFICATION Spec
CONSTANTS
  u = u
  d = d
  Item <- OneUpload
  Upload <- OneUpload
  Parts <- TwoChunks
  MaxParts = 2
  PartSize = 1
  Limits <- OneTry
  ConnectBurst = 1
  Pooling = FALSE
  NewFileFirst = FALSE
  PumpAtomic = TRUE
  MaxFaults = 2
  MaxOps = 2
INVARIANTS TypeOK ClaimsSound SuccessIsComplete NoOrphanWorker
PROPERTIES TruncatesNothing ImplementsCopy
