SPECIFICATION PartsSpec
CONSTANTS
  d1 = d1
  d2 = d2
  Batch <- TwoBatches
  Size <- Sizes
  MaxItems = 3
  MaxHashJobs = 1
  a = a
  b = b
  a1 = a1
  Name <- Names
  Numbered <- Numbers
  Marked <- Selected
  Found <- Walked
  Existing <- Taken
  Policies = {"newer", "ask"}
  MaxBatches = 2
  MaxFolders = 1
  MaxEpochs = 2
  MaxSlots = 5
  App = {a, b}
  MaxJobs = 1
INVARIANTS TypeOK ReportIsFinal FailuresToldOnce
  HashTypeOK HonestVerdict OneWorkerEach
  ConflictTypeOK DownloadAgreed NoStaleCommit
  TileTypeOK AppsKept FocusFollowsPanes
PROPERTY EveryHashDecided
CHECK_DEADLOCK FALSE
