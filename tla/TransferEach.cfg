SPECIFICATION EachSpec
CONSTANTS
  u = u
  d = d
  Item <- TwoItems
  Upload <- OneUpload
  Parts <- TwoChunks
  MaxParts = 2
  PartSize = 1
  Limits <- OneTry
  ConnectBurst = 1
  Pooling = FALSE
  NewFileFirst = FALSE
  PumpAtomic = FALSE
  MaxFaults = 2
  MaxOps = 1
PROPERTIES ImplementsCopy Settles
