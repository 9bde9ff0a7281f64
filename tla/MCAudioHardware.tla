-------------------------- MODULE MCAudioHardware --------------------------
(* Instances of AudioHardware for TLC: who calls what in each run.          *)
EXTENDS AudioHardware, TLC

CONSTANTS player,    \* the playback thread
          recorder,  \* the capture thread
          control,   \* the binder threads of the audio server
          o1, o2, i1, i2, e1, e2

(* Playback, capture and control, with streams that come and go.            *)
CoreCalls ==
  player :> {"openOut", "closeOut", "write", "outStandby"}
  @@ recorder :> {"openIn", "closeIn", "read", "inStandby", "inSource"}
  @@ control :> {"setMode", "setMicMute"}

(* Playback against mode changes and routing, without capture.              *)
PlaybackCalls ==
  player :> {"openOut", "closeOut", "write", "outStandby", "outRouting"}
  @@ control :> {"setMode", "setMicMute"}

(* Echo cancelling and capture routing, without calls.                      *)
AecCalls ==
  player :> {"openOut", "write", "outStandby"}
  @@ recorder :> {"openIn", "closeIn", "read", "inStandby"}
  @@ control :> {"setMicMute", "addAec", "removeAec", "inRouting"}

(* FM radio beside playback, capture and calls; the clients leave standby   *)
(* but do not ask for it.                                                   *)
FmCalls ==
  player :> {"openOut", "write"}
  @@ recorder :> {"openIn", "read"}
  @@ control :> {"setMode", "setMicMute", "fmOn", "fmOff"}

(* Echo cancelling when a call starts.                                      *)
AecCallCalls ==
  player :> {"openOut", "write"}
  @@ recorder :> {"openIn", "read", "addAec"}
  @@ control :> {"setMode"}

=============================================================================
