CONSTANTS
  btc = btc
  eth = eth
  here = here
  there = there
  Engine <- MCEngines
  File <- MCFiles
  FileOf <- MCSeparate
  MinDwell = 2
  SaveMayFail = {}
  Unreadable <- MCEth
SPECIFICATION Spec
PROPERTIES ImplementsLadder RestartKeepsTier DefenceSurvivesRestart
