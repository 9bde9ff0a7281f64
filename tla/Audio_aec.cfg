CONSTANTS
  player = player
  recorder = recorder
  control = control
  o1 = o1
  o2 = o2
  i1 = i1
  i2 = i2
  e1 = e1
  e2 = e2
  None = None
  Threads = {player, recorder, control}
  OutStreams = {o1}
  InStreams = {i1}
  EchoRefs = {e1, e2}
  OutDevices = {"SPEAKER"}
  InDevices = {"BUILTIN_MIC", "WIRED_HEADSET"}
  Modes = {"NORMAL"}
  Faults = {"pcmOut", "io"}
  SerialClose = TRUE
  FmToggles = TRUE
  MaxCnt = 3
  Calls <- AecCalls

SPECIFICATION FairSpec


  

PROPERTIES
  EveryCallReturns
