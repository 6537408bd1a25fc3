CONSTANTS
  btc = btc
  eth = eth
  here = here
  there = there
  Engine <- MCEngines
  File <- MCOneFile
  FileOf <- MCShared
  MinDwell = 1
  SaveMayFail <- MCEth
  Unreadable = {}
SPECIFICATION FairSpec
PROPERTIES CalmReachesNormal
