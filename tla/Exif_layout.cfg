SPECIFICATION Spec
CONSTANTS
  Thumbnails = {7680, 65535}
  Infos <- MCInfos
INVARIANTS
  NoOverlap
  DirectoriesFull
  PointersResolve
  
CHECK_DEADLOCK FALSE
