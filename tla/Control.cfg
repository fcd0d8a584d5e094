SPECIFICATION Spec
CONSTANTS
  root = root
  home = home
  nodir = nodir
  Dir <- Two
  Root = root
  Home = home
  NoDir = nodir
  Keys = 1
  MaxTries = 2
  MaxWork = 2
  MaxPrompts = 1
  StalePrompts = FALSE
INVARIANTS TypeOK WireMatchesPhase OneReplyOwed CwdIsPath ItemsOfPath WalkOwned NoListingWhileAsking NothingCollectedLate

