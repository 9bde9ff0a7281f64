CONSTANTS
  player = player
  recorder = recorder
  control = control
  o1 = o1
  o2 = o2
  i1 = i1
  i2 = i2
  e1 = e1
  e2 = e2
  None = None
  Threads = {player, control}
  OutStreams = {o1, o2}
  InStreams = {i1}
  EchoRefs = {e1}
  OutDevices = {"SPEAKER", "EARPIECE"}
  InDevices = {"BUILTIN_MIC"}
  Modes = {"NORMAL", "IN_CALL", "IN_COMMUNICATION"}
  Faults = {"pcmOut", "mixer", "io"}
  SerialClose = TRUE
  FmToggles = TRUE
  MaxCnt = 3
  Calls <- PlaybackCalls

SPECIFICATION Spec

INVARIANTS
  RouteFollowsPolicy

PROPERTIES
  CallSwitchExclusive
