---------------------------- MODULE CameraDevice ----------------------------
(* A camera from the side of its service: the device that src/libcamera/    *)
(* CameraHal_Module.cpp opens and closes, the parameters and controls, the  *)
(* autofocus thread of CameraHardware.cpp, and the picture thread as far as *)
(* it reads the controls for the tags of its picture. The service makes one *)
(* call at a time, has one camera open at a time, releases a camera before  *)
(* it closes it, and starts no preview until it has its picture.            *)
EXTENDS CameraControls

CONSTANTS
  Cameras,        \* the numbers of the cameras the service opens
  DriverDefaults, \* the controls of the driver when it is opened
  Requests,       \* what a client may ask of setParameters
  Refusable,      \* the controls the driver may refuse to set
  Shots,          \* the circumstances of a picture: see CreateExif
  FIRST_AF_SEARCH_COUNT

(* What a client may write in its parameters.                               *)
RequestType ==
  [formats : BOOLEAN, whiteBalance : STRING, scene : STRING, focus : STRING,
   exposure : Int, zoom : Int, rotation : Int, fps : Int \X Int]

ASSUME DeviceAssumption ==
  /\ Cameras \subseteq {CAMERA_BF, CAMERA_FF}
  /\ DriverDefaults \in [Controls -> Int]
  /\ Requests \subseteq RequestType
  /\ Refusable \subseteq Controls
  /\ FIRST_AF_SEARCH_COUNT \in Nat \ {0}

VARIABLES
  service,  \* the camera V4L2CameraHardware is, and the call in progress
  ctl,      \* the controls: see CameraControls
  params,   \* mParameters
  unsent,   \* the controls whose last request did not reach the driver
  af,       \* the autofocus thread, mExitAutoFocusThread, mAutofocusRunning, and the lens
  pic       \* the picture thread, the controls of its frame, and the picture's tags

vars == <<service, ctl, params, unsent, af, pic>>

NoCamera == -1
NoPhoto == [none |-> TRUE]

FocusPcs == {"top", "wait", "woken", "start", "started", "poll", "answer", "done"}
PicturePcs == {"idle", "grab", "tags", "deliver"}

(* The types; a request is one of Requests but for what setParameters       *)
(* writes over it.                                                          *)
TypeOK ==
  /\ service.camera \in Cameras \cup {NoCamera}
  /\ service.call \in {"none", "focus", "picture", "released"}
  /\ ctl.isStreaming \in BOOLEAN
  /\ \A c \in Controls : ctl.cache[c] \in Values[c] \cup {Constructed[c]}
  /\ \A c \in Controls : ctl.driver[c] \in Values[c] \cup {DriverDefaults[c]}
  /\ unsent \subseteq Controls
  /\ af.pc \in FocusPcs /\ {af.exit, af.running} \subseteq BOOLEAN
  /\ af.count \in 0 .. FIRST_AF_SEARCH_COUNT
  /\ af.lens \in {"default", "moved"}
  /\ pic.pc \in PicturePcs

FocusThread == [pc |-> "top", exit |-> FALSE, running |-> FALSE, count |-> 0,
                lens |-> "default"]

NoControls == [isStreaming |-> FALSE, cache |-> Constructed, driver |-> DriverDefaults]
NoPicture == [pc |-> "idle", shot |-> NoPhoto, photo |-> NoPhoto]

Init ==
  /\ service = [camera |-> NoCamera, call |-> "none"]
  /\ ctl = NoControls
  /\ params = DefaultParameters(CAMERA_BF)
  /\ unsent = {}
  /\ af = [FocusThread EXCEPT !.pc = "done"]
  /\ pic = NoPicture

-----------------------------------------------------------------------------
(* The calls of the service.                                                *)

Ready == service.camera # NoCamera /\ service.call = "none"

(* What a request leaves unsent: what the driver refused, a value the       *)
(* setter refused, and one it did not send because nothing streams. Only a  *)
(* value that is sent makes up for it.                                      *)
Unsent(v, camera, p, before, refused) ==
  LET asked == Asked(camera, p)
      sent == {c \in DOMAIN asked : Sends(v, c, asked[c]) /\ c \notin refused}
      kept == {c \in DOMAIN asked : v.cache[c] = asked[c]}
  IN IF ~p.formats THEN before ELSE (before \ sent) \cup (DOMAIN asked \ (sent \cup kept))

(* camera_device_open makes the camera, whose autofocus thread starts.      *)
Open(camera) ==
  /\ service.camera = NoCamera
  /\ service' = [camera |-> camera, call |-> "none"]
  /\ ctl' = InitialControls(camera, DriverDefaults)
  /\ params' = InitialParameters(camera, DriverDefaults)
  /\ unsent' = Unsent(ctl', camera, DefaultParameters(camera), {}, {})
  /\ af' = FocusThread
  /\ pic' = NoPicture

(* startPreview and stopPreview, as far as the controls see them.           *)
SetStreaming(streaming) ==
  /\ Ready /\ ctl.isStreaming # streaming /\ pic.pc = "idle"
  /\ ctl' = [ctl EXCEPT !.isStreaming = streaming]
  /\ UNCHANGED <<service, params, unsent, af, pic>>

(* setParameters, also what camera_put_parameters does. It returns NO_ERROR *)
(* whatever the setters return.                                             *)
SetParameters(p) ==
  /\ Ready
  /\ \E refused \in SUBSET Refusable :
       /\ ctl' = ControlsAfter(ctl, service.camera, p, refused)
       /\ params' = ParametersAfter(ctl, service.camera, p, params, refused)
       /\ unsent' = Unsent(ctl, service.camera, p, unsent, refused)
  /\ UNCHANGED <<service, af, pic>>

(* autoFocus signals, which only a thread that waits notices.               *)
AutoFocus ==
  /\ Ready
  /\ af.pc = "wait" /\ af' = [af EXCEPT !.pc = "woken"]
  /\ UNCHANGED <<service, ctl, params, unsent, pic>>

(* cancelAutoFocus, which is V4L2Camera's cancelAutofocus: AF_STOP brings   *)
(* the lens back to where it was.                                           *)
CancelAutoFocus ==
  /\ Ready
  /\ ~af.running /\ ctl.isStreaming
  /\ af' = [af EXCEPT !.lens = "default"]
  /\ UNCHANGED <<service, ctl, params, unsent, pic>>

(* takePicture stops the preview first.                                     *)
TakePicture ==
  /\ Ready /\ pic.pc = "idle"
  /\ ctl' = [ctl EXCEPT !.isStreaming = FALSE]
  /\ pic' = [pc |-> "grab", shot |-> NoPhoto, photo |-> NoPhoto]
  /\ UNCHANGED <<service, params, unsent, af>>

(* release() tells the autofocus thread to exit, with mFocusLock held, ...  *)
Release ==
  /\ Ready
  /\ service' = [service EXCEPT !.call = "focus"]
  /\ ctl' = [ctl EXCEPT !.isStreaming = FALSE]
  /\ af' = [af EXCEPT !.exit = TRUE, !.pc = IF @ = "wait" THEN "woken" ELSE @]
  /\ UNCHANGED <<params, unsent, pic>>

(* ... waits for it ...                                                     *)
JoinFocus ==
  /\ service.call = "focus" /\ af.pc = "done"
  /\ service' = [service EXCEPT !.call = "picture"]
  /\ UNCHANGED <<ctl, params, unsent, af, pic>>

(* ... and for the picture thread.                                          *)
JoinPicture ==
  /\ service.call = "picture" /\ pic.pc = "idle"
  /\ service' = [service EXCEPT !.call = "released"]
  /\ UNCHANGED <<ctl, params, unsent, af, pic>>

(* camera_device_close deletes the camera: what it kept is gone.            *)
Close ==
  /\ service.call = "released"
  /\ service' = [camera |-> NoCamera, call |-> "none"]
  /\ ctl' = NoControls /\ params' = DefaultParameters(CAMERA_BF) /\ unsent' = {}
  /\ af' = [FocusThread EXCEPT !.pc = "done"] /\ pic' = NoPicture

-----------------------------------------------------------------------------
(* The autofocus thread. threadLoop calls autoFocusThread again and again,  *)
(* until it is asked to exit.                                               *)

Again == IF af.exit THEN "done" ELSE "top"

(* Mutant. The thread waits without a look at the flag.                     *)
FocusWaitAtOnce ==
  /\ af.pc = "top"
  /\ af' = [af EXCEPT !.pc = "wait"]
  /\ UNCHANGED <<service, ctl, params, unsent, pic>>

(* With mFocusLock it looks whether it shall exit, and waits.               *)
FocusWait ==
  /\ af.pc = "top"
  /\ af' = [af EXCEPT !.pc = IF af.exit THEN "done" ELSE "wait"]
  /\ UNCHANGED <<service, ctl, params, unsent, pic>>

FocusWoken ==
  /\ af.pc = "woken"
  /\ af' = [af EXCEPT !.pc = IF af.exit THEN "done" ELSE "start"]
  /\ UNCHANGED <<service, ctl, params, unsent, pic>>

(* setAutofocus: AF_START if the preview streams. If the driver refuses it  *)
(* nobody is told.                                                          *)
FocusStart ==
  /\ af.pc = "start"
  /\ \/ ctl.isStreaming /\ af' = [af EXCEPT !.pc = "started", !.lens = "moved"]
     \/ ~ctl.isStreaming /\ af' = [af EXCEPT !.pc = "started"]
     \/ ctl.isStreaming /\ af' = [af EXCEPT !.pc = Again]
  /\ UNCHANGED <<service, ctl, params, unsent, pic>>

FocusStarted ==
  /\ af.pc = "started"
  /\ af' = [af EXCEPT !.pc = "poll", !.running = TRUE, !.count = 0]
  /\ UNCHANGED <<service, ctl, params, unsent, pic>>

(* getAutoFocusResult: another look later, ...                              *)
FocusProgress ==
  /\ af.pc = "poll" /\ af.count < FIRST_AF_SEARCH_COUNT
  /\ af' = [af EXCEPT !.count = @ + 1]
  /\ UNCHANGED <<service, ctl, params, unsent, pic>>

(* ... or a result, if only that it took too long.                          *)
FocusResult ==
  /\ af.pc = "poll"
  /\ af' = [af EXCEPT !.pc = "answer", !.running = FALSE, !.count = 0]
  /\ UNCHANGED <<service, ctl, params, unsent, pic>>

(* The client is told.                                                      *)
FocusAnswer ==
  /\ af.pc = "answer"
  /\ af' = [af EXCEPT !.pc = Again]
  /\ UNCHANGED <<service, ctl, params, unsent, pic>>

-----------------------------------------------------------------------------
(* The picture thread.                                                      *)

(* GrabJpegFrame: a frame, taken with the controls the driver has; or none, *)
(* which ends the thread before it gets to CreateExif.                      *)
PictureGrab ==
  /\ pic.pc = "grab"
  /\ \/ pic' = [pic EXCEPT !.pc = "tags", !.shot = ctl]
     \/ pic' = [pic EXCEPT !.pc = "idle"]
  /\ UNCHANGED <<service, ctl, params, unsent, af>>

(* CreateExif, from what the wrapper keeps.                                 *)
PictureTags ==
  /\ pic.pc = "tags"
  /\ \E s \in Shots :
       pic' = [pic EXCEPT !.pc = "deliver",
                          !.photo = ExifInfo(service.camera, ctl.cache, s)]
  /\ UNCHANGED <<service, ctl, params, unsent, af>>

(* The client gets the picture and its tags, and the thread ends.           *)
PictureDeliver ==
  /\ pic.pc = "deliver"
  /\ pic' = NoPicture
  /\ UNCHANGED <<service, ctl, params, unsent, af>>

-----------------------------------------------------------------------------
Call ==
  \/ \E camera \in Cameras : Open(camera)
  \/ \E streaming \in BOOLEAN : SetStreaming(streaming)
  \/ \E p \in Requests : SetParameters(p)
  \/ AutoFocus \/ CancelAutoFocus \/ TakePicture \/ Release \/ Close

Join == JoinFocus \/ JoinPicture

FocusStep ==
  \/ FocusWait \/ FocusWoken \/ FocusStart \/ FocusStarted \/ FocusProgress
  \/ FocusResult \/ FocusAnswer

PictureStep == PictureGrab \/ PictureTags \/ PictureDeliver

Next == Call \/ Join \/ FocusStep \/ PictureStep

Spec == Init /\ [][Next]_vars

(* The threads go on, and release goes on when it can. Nobody is bound to   *)
(* call anything.                                                           *)
FairSpec ==
  Spec /\ WF_vars(Join) /\ WF_vars(FocusStep) /\ WF_vars(PictureStep)

-----------------------------------------------------------------------------
(* Properties.                                                              *)

(* What getParameters says of a control is what the driver has, unless its  *)
(* last change did not reach the driver: the setters skip a value they have *)
(* already, so what they keep must follow the driver through previews,      *)
(* pictures and refusals of other controls.                                 *)
ReportedIsApplied ==
  service.camera # NoCamera =>
    LET asked == Asked(service.camera, params) IN
    \A c \in DOMAIN asked \ unsent : ctl.driver[c] = asked[c]

(* The controls the driver has, and what only the wrapper keeps.            *)
Applied(v) == [c \in DOMAIN v.cache |-> IF c \in Controls THEN v.driver[c] ELSE v.cache[c]]

(* The tags of a picture tell with which controls its frame was taken,      *)
(* though they are read from the wrapper after the frame, while calls go    *)
(* on; if the driver had what the wrapper kept. setExifOrientationInfo is   *)
(* the exception: the rotation may be one set since.                        *)
TagsOfTheShot ==
  pic.photo # NoPhoto /\ (\A c \in Controls : pic.shot.driver[c] = pic.shot.cache[c])
    => \E s \in Shots :
         LET tags == ExifInfo(service.camera, Applied(pic.shot), s)
         IN [pic.photo EXCEPT !.orientation = 0] = [tags EXCEPT !.orientation = 0]

(* "We only use AF_STOP only when Autofocus is currently running."          *)
StopOnlyWhenRunning ==
  [][service' = service /\ af'.lens = "default" => af.running]_(af.lens)

(* release() returns, wherever the autofocus and the picture thread are:    *)
(* their flag and their signal do not get lost.                             *)
ReleaseReturns == service.call \in {"focus", "picture"} ~> service.call = "released"

=============================================================================
