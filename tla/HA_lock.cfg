CONSTANTS
  n1 = n1
  n2 = n2
  n3 = n3
  Node <- MCThreeNodes
  TTL = 2
  CommandsMayFail = TRUE
  MaxFence = 1
SPECIFICATION FairSpec
INVARIANTS SecondLeaseSlipped
PROPERTIES OnlyOwnerReleases TakesOver
