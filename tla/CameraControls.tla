--------------------------- MODULE CameraControls ---------------------------
(* The controls of the camera: what V4L2Camera's setters (src/libcamera/    *)
(* V4L2Camera.cpp) do to the value they keep and to the driver's, and what  *)
(* CameraHardware::setParameters asks of them. A state of the controls is a *)
(* record                                                                   *)
(*   isStreaming   videoIn->isStreaming                                     *)
(*   cache         mZoomLevel, mWhiteBalance, ..., m_exif_orientation       *)
(*   driver        the values the driver has                                *)
(* and a request the record of what setParameters looks at:                 *)
(*   formats       whether preview and picture have the formats supported   *)
(*   whiteBalance, scene, focus    names                                    *)
(*   exposure, zoom, rotation      numbers                                  *)
(*   fps           the preview's range of frame rates                       *)
EXTENDS CreateExif, FiniteSets

Controls == {"zoom", "whiteBalance", "sceneMode", "focusMode", "iso", "metering",
             "contrast", "sharpness", "saturation", "brightness"}

-----------------------------------------------------------------------------
(* enum v4l2_zoom_level, v4l2_wb_mode, v4l2_iso_mode, v4l2_contrast_mode,   *)
(* v4l2_sharpness_mode, v4l2_ev_mode, v4l2_saturation_mode,                 *)
(* v4l2_scene_mode, v4l2_focusmode and v4l2_metering_mode: the values that  *)
(* are names of something.                                                  *)
Values == [zoom |-> 0 .. 12, whiteBalance |-> 1 .. 5, iso |-> 0 .. 9,
           contrast |-> 0 .. 4, sharpness |-> 0 .. 4, brightness |-> 1 .. 9,
           saturation |-> 0 .. 4, sceneMode |-> 1 .. 14, focusMode |-> 1 .. 2,
           metering |-> 1 .. 3]

EV_DEFAULT == 5

-----------------------------------------------------------------------------
(* The setters.                                                             *)

(* V4L2Camera's constructor.                                                *)
Constructed ==
  [zoom |-> 1, whiteBalance |-> 1, focusMode |-> 1, sceneMode |-> 1, orientation |-> -1,
   iso |-> 1, metering |-> 1, contrast |-> 4, sharpness |-> 4, saturation |-> 4,
   brightness |-> 5]

(* Mutant. setZoom looks at the value no more than setFocusMode does.       *)
ValidUnlimited(c, value) ==
  IF c \in {"focusMode", "zoom"} THEN value <= 30 ELSE value \in Values[c]

(* A setter refuses a value that is none; setFocusMode only one too large.  *)
Valid(c, value) == IF c = "focusMode" THEN value <= 2 ELSE value \in Values[c]

(* Whether a setter talks to the driver, and changes what it keeps.         *)
Sends(v, c, value) == Valid(c, value) /\ v.isStreaming /\ v.cache[c] # value

(* Mutant. A value is kept whether or not the camera streams.               *)
SetControlsKeepsAlways(v, asked, refused) ==
  LET sent == {c \in DOMAIN asked : Sends(v, c, asked[c])} IN
  [v EXCEPT !.cache = [c \in DOMAIN @ |-> IF c \in DOMAIN asked /\ Valid(c, asked[c])
                                          THEN asked[c] ELSE @[c]],
            !.driver = [c \in Controls |->
                          IF c \in sent \ refused THEN asked[c] ELSE @[c]]]

(* Mutant. The driver is told whether or not the camera streams.            *)
SetControlsSendsAlways(v, asked, refused) ==
  LET sent == {c \in DOMAIN asked : Valid(c, asked[c]) /\ v.cache[c] # asked[c]} IN
  [v EXCEPT !.cache = [c \in DOMAIN @ |-> IF c \in sent THEN asked[c] ELSE @[c]],
            !.driver = [c \in Controls |->
                          IF c \in sent \ refused THEN asked[c] ELSE @[c]]]

(* The values asked for are set, each by its setter; the driver refuses     *)
(* those in refused, which is noticed after the value was kept.             *)
SetControls(v, asked, refused) ==
  LET sent == {c \in DOMAIN asked : Sends(v, c, asked[c])} IN
  [v EXCEPT !.cache = [c \in DOMAIN @ |-> IF c \in sent THEN asked[c] ELSE @[c]],
            !.driver = [c \in Controls |->
                          IF c \in sent \ refused THEN asked[c] ELSE @[c]]]

(* Whether a setter returns 0.                                              *)
SetterWorks(v, c, value, refused) ==
  Valid(c, value) /\ (Sends(v, c, value) => c \notin refused)

(* setExifOrientationInfo                                                   *)
SetOrientation(v, rotation) ==
  IF rotation < 0 THEN v ELSE [v EXCEPT !.cache.orientation = rotation]

-----------------------------------------------------------------------------
(* What the names of the parameters stand for; -1 for a name it does not    *)
(* know.                                                                    *)

WhiteBalance(name) == CASE name = "auto" -> 1
                        [] name = "daylight" -> 2
                        [] name = "cloudy-daylight" -> 3
                        [] name = "fluorescent" -> 5
                        [] name = "incandescent" -> 4
                        [] OTHER -> -1

SceneMode(name) == CASE name = "auto" -> 1
                     [] name = "portrait" -> 2
                     [] name = "landscape" -> 5
                     [] name = "sports" -> 6
                     [] name = "party" -> 7
                     [] name \in {"beach", "snow"} -> 8
                     [] name = "sunset" -> 9
                     [] name = "night" -> 3
                     [] name = "fireworks" -> 12
                     [] name = "candlelight" -> 14
                     [] OTHER -> -1

(* Every scene but the automatic one brings its own focus mode.             *)
FocusName(p) == IF p.scene = "auto" THEN p.focus ELSE "fixed"

FocusMode(name) == CASE name = "fixed" -> 1
                     [] name = "facedetection" -> 2
                     [] OTHER -> -1

MIN_EXPOSURE == -4
MAX_EXPOSURE == 4
MAX_ZOOM == 30

(* Frame rates: setParameters writes the range of the scene over what was   *)
(* asked for.                                                               *)
SceneFps(scene) == IF scene = "night" THEN <<4000, 30000>> ELSE <<7000, 30000>>

-----------------------------------------------------------------------------
(* setParameters.                                                           *)

(* The setters a camera has: those of the back camera only, and of both.    *)
SettersOf(cam) ==
  {"whiteBalance", "brightness"}
    \cup IF cam = CAMERA_BF THEN {"sceneMode", "focusMode", "zoom"} ELSE {}

(* What a request means for each control, and whether it means anything.    *)
Wanted(p) ==
  [whiteBalance |-> WhiteBalance(p.whiteBalance), brightness |-> p.exposure + EV_DEFAULT,
   sceneMode |-> SceneMode(p.scene), focusMode |-> FocusMode(FocusName(p)), zoom |-> p.zoom]

Known(p, c) ==
  CASE c = "brightness" -> p.exposure \in MIN_EXPOSURE .. MAX_EXPOSURE
    [] c = "zoom" -> p.zoom \in 0 .. MAX_ZOOM
    [] OTHER -> Wanted(p)[c] >= 0

(* The setters that are called, with their values.                          *)
Asked(cam, p) == [c \in {c \in SettersOf(cam) : Known(p, c)} |-> Wanted(p)[c]]

(* A request for another format is refused as a whole. Everything else is   *)
(* accepted, with what the setters make of it.                              *)
ControlsAfter(v, cam, p, refused) ==
  IF ~p.formats THEN v
  ELSE SetOrientation(SetControls(v, Asked(cam, p), refused), p.rotation)

(* mParameters, which getParameters returns: the request, but for the range *)
(* of frame rates and the focus mode of a scene, if it was set.             *)
ParametersAfter(v, cam, p, params, refused) ==
  IF ~p.formats THEN params
  ELSE IF cam # CAMERA_BF THEN p
  ELSE LET focus == FocusMode(FocusName(p)) IN
       [p EXCEPT !.fps = SceneFps(p.scene),
                 !.focus = IF focus >= 0 /\ SetterWorks(v, "focusMode", focus, refused)
                           THEN FocusName(p) ELSE @]

-----------------------------------------------------------------------------
(* initDefaultParameters: the preview does not stream yet, so the controls  *)
(* it sets first, ISO_AUTO, METERING_CENTER and the rest, stay as they are. *)
DefaultParameters(cam) ==
  [formats |-> TRUE, whiteBalance |-> "none", exposure |-> 0, scene |-> "auto",
   focus |-> "fixed", zoom |-> IF cam = CAMERA_FF THEN -1 ELSE 0, rotation |-> 0,
   fps |-> IF cam = CAMERA_FF THEN <<7500, 30000>> ELSE <<7000, 30000>>]

ExtraControls ==
  [iso |-> 0, metering |-> 2, contrast |-> 2, sharpness |-> 2, saturation |-> 2]

(* What the object has after its construction, given the driver's values.   *)
InitialControls(cam, driver) ==
  LET v == SetControls([isStreaming |-> FALSE, cache |-> Constructed, driver |-> driver],
                       ExtraControls, {})
  IN ControlsAfter(v, cam, DefaultParameters(cam), {})

InitialParameters(cam, driver) ==
  ParametersAfter([isStreaming |-> FALSE, cache |-> Constructed, driver |-> driver],
                  cam, DefaultParameters(cam), DefaultParameters(cam), {})
=============================================================================
