SPECIFICATION Spec
CONSTANTS
  u = u
  d = d
  Item <- OneUpload
  Upload <- OneUpload
  Parts <- TwoChunks
  MaxParts = 2
  PartSize = 1
  Limits <- OneStream
  ConnectBurst = 1
  Pooling = FALSE
  NewFileFirst = FALSE
  PumpAtomic = TRUE
  MaxFaults = 0
  MaxOps = 3
INVARIANT ClaimsSound
