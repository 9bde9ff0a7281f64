SPECIFICATION FairSpec
CONSTANTS
  Faults = {"setup", "fatal", "preempted", "unpopulated", "other"}
  MaxFaults = 1
  MaxEncodes = 3
INVARIANTS
  TypeOK
  SizeIsDelivered
 
CHECK_DEADLOCK FALSE
