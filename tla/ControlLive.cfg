SPECIFICATION FairSpec
CONSTANTS
  root = root
  home = home
  nodir = nodir
  Dir <- One
  Root = root
  Home = root
  NoDir = nodir
  Keys = 0
  MaxTries = 2
  MaxWork = 1
  MaxPrompts = 1
  StalePrompts = TRUE
PROPERTIES NeverWedged StuckWalkReleased
