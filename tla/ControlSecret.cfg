SPECIFICATION Spec
CONSTANTS
  root = root
  home = home
  nodir = nodir
  Dir <- Two
  Root = root
  Home = home
  NoDir = nodir
  Keys = 0
  MaxTries = 2
  MaxWork = 1
  MaxPrompts = 1
  StalePrompts = TRUE
PROPERTY SecretReachesPrompt
