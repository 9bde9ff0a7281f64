CONSTANTS
  NB_BUFFER = 3
  Faults = {"configure", "buffers", "stream"}
  Races = {"early"}

SPECIFICATION FairSpec

PROPERTY EveryCallReturns

CHECK_DEADLOCK FALSE
