SPECIFICATION FairSpec
CONSTANTS
  CPUs = {c1, c2}
  Limit = 1
  StaleRet = {1}
PROPERTY
  SleeperWoken
