CONSTANTS
  NB_BUFFER = 3
  Faults = {"configure", "buffers", "stream"}
  Races = {}

SPECIFICATION FairSpec

INVARIANTS
  TypeOK
  DeviceExclusive
  StoppedIsQuiet
  BuffersConserved
  CountersMatch
  NoMissingFrame
  
  ReleasedIsQuiet

PROPERTIES
  ImplementsOwnership
  EveryCallReturns
  PreviewTakenUp

CHECK_DEADLOCK FALSE
