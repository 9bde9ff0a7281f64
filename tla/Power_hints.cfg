CONSTANTS
  touch = touch
  boost = boost
  Threads = {touch, boost}
  Fds = {1, 2, 3}
  Governors = {"ondemand", "interactive", "powersave"}
  None = None
  MaxOther = 1
  MaxChanges = 3

SPECIFICATION FairSpec

INVARIANTS
  OneBoostDescriptor
  BoostTuned

PROPERTIES
  OtherFilesKept
  BoostRecovers
