CONSTANTS
  Daemons = {d1, d2}
  Rules = {"recon", "dd"}
  BaseSeverity <- MCBaseSeverity
  Channels <- MCChannels
  Cooldown = 2
  MaxStoreFaults = 1
  Events = {e1, e2}
  MaxEvents = 5
  HasDatabase = TRUE
  Clients = {c1}
  Threads = {w1, w2}
  MaxAttempts = 2
  WindowTicks = 2
  MaxAge = 1
  Fields = {f, g}
  Values = {1}
  MaxTokens = 1
  MaxPause = 1
  HaltedCooldown = 2
  HealingStability = 1
  RecoveryCooldown = 2
  Magazine = 2
  ShotCooldown = 1
  Level <- MCLevel
  NoPrice = 0
SPECIFICATION MCSpec
INVARIANTS BreaksAreExplained ExcessNeedsOverlap ConfigIsPersisted FullSizeIsEarned NormalIsCooled
PROPERTIES AlertMemorySurvives BreachesArePaged CalmHeals
CHECK_DEADLOCK FALSE
