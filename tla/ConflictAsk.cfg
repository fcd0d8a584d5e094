SPECIFICATION ConflictSpec
CONSTANTS
  a = a
  b = b
  a1 = a1
  Name <- Names
  Numbered <- Numbers
  Marked <- Selected
  Found <- Walked
  Existing <- Taken
  Policies = {"newer", "ask"}
  MaxBatches = 2
  MaxFolders = 1
  MaxEpochs = 2
INVARIANT UploadAgreed
CHECK_DEADLOCK FALSE
