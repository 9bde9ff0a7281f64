SPECIFICATION FairSpec
CONSTANTS
  Cameras = {0, 1}
  DriverDefaults <- MCDriverDefaults
  Requests <- MCRequests
  Refusable = {"sceneMode"}
  Shots <- MCShots
  FIRST_AF_SEARCH_COUNT = 1
INVARIANTS
  TypeOK
  ReportedIsApplied
  TagsOfTheShot
PROPERTY ReleaseReturns
CHECK_DEADLOCK FALSE
