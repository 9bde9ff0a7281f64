---------------------------- MODULE CameraHardware ----------------------------
(* The threads of the camera HAL (src/libcamera/CameraHardware.cpp) and     *)
(* what they do to the driver: the preview thread, which sleeps on a        *)
(* condition until it is told to run, the picture thread, and the camera    *)
(* service, which makes one call at a time.                                 *)
EXTENDS V4L2Camera

CONSTANTS
  Faults,   \* the driver's operations that may fail
  Races     \* what the client does at moments the code does not guard

(* What Races may allow: calls before the preview thread has gone to sleep  *)
(* for the first time; preview started while a picture is taken; the window *)
(* changed while frames are shown; frames given back while the preview      *)
(* thread works on others; VIDEO_FRAME disabled some time before recording  *)
(* stops; frames given back after it stopped; preview stopped while         *)
(* recording.                                                               *)
RaceKinds == {"early", "picture", "window", "frames", "message", "late", "hold"}

ASSUME CameraAssumption ==
  /\ Faults \subseteq {"configure", "buffers", "mapping", "stream"}
  /\ Races \subseteq RaceKinds

VARIABLES
  cam,   \* mCamera: see V4L2Camera
  hw,    \* the flags of CameraHardware
  rec,   \* recording: its flag and mRecordBufferState; what the client has
  cl,    \* the call of the camera service
  pt,    \* the preview thread
  qt     \* the picture thread

vars == <<cam, hw, rec, cl, pt, qt>>

ClientPcs == {"idle", "lock", "configure", "map", "stream", "stopwait", "stopwake",
              "picture", "recording", "joinPreview", "joinPicture", "close",
              "index", "queue", "clear", "released"}
ClientCalls == {"none", "startPreview", "setPreviewWindow", "stopPreview",
                "takePicture", "cancelPicture", "startRecording", "stopRecording",
                "releaseRecordingFrame", "release"}
PreviewPcs == {"top", "stopping", "wait", "grab", "requeue", "show", "record",
               "grabRecord", "deliver", "exit", "done", "crashed"}
PicturePcs == {"idle", "configure", "map", "stream", "grab", "close", "crashed"}

HwState == [mPreviewRunning : BOOLEAN, mPreviewStartDeferred : BOOLEAN,
            mExitPreviewThread : BOOLEAN, mNativeWindow : BOOLEAN]
RecState == [mRecordingEnabled : BOOLEAN, videoMsg : BOOLEAN,
             mRecordBufferState : SUBSET Bufs, held : SUBSET Bufs]
ClState == [pc : ClientPcs, call : ClientCalls, frame : Bufs]
PtState == [pc : PreviewPcs, index : Bufs, slept : BOOLEAN]

TypeOK ==
  /\ cam \in CamState /\ hw \in HwState /\ rec \in RecState
  /\ cl \in ClState /\ pt \in PtState /\ qt \in PicturePcs

Init ==
  /\ cam = Opened
  /\ hw = [mPreviewRunning |-> FALSE, mPreviewStartDeferred |-> FALSE,
           mExitPreviewThread |-> FALSE, mNativeWindow |-> FALSE]
  /\ rec = [mRecordingEnabled |-> FALSE, videoMsg |-> FALSE,
            mRecordBufferState |-> {}, held |-> {}]
  /\ cl = [pc |-> "idle", call |-> "none", frame |-> 0]
  /\ pt = [pc |-> "top", index |-> 0, slept |-> FALSE]
  /\ qt = "idle"

-----------------------------------------------------------------------------
(* Mutexes and conditions.                                                  *)

(* mPreviewLock is held by the preview thread while it stops, and by a      *)
(* client while it starts the preview, though not in setPreviewWindow.      *)
ClientHoldsPreviewLock ==
  cl.call = "startPreview" /\ cl.pc \in {"configure", "map", "stream"}
PreviewLockFree == pt.pc # "stopping" /\ ~ClientHoldsPreviewLock

(* mRecordingLock is held by the preview thread while it records a frame.   *)
RecordingLockFree == pt.pc \notin {"grabRecord", "deliver"}

(* A signal of mPreviewCondition wakes the preview thread only if it waits. *)
WakePreview == IF pt.pc = "wait" THEN [pt EXCEPT !.pc = "top"] ELSE pt

(* So does one of mPreviewStoppedCondition the client.                      *)
WakeClient == IF cl.pc = "stopwait" THEN [cl EXCEPT !.pc = "stopwake"] ELSE cl

PictureRuns == qt # "idle"

(* The preview thread between the DQBUF and the QBUF of a frame, or with a  *)
(* frame it records.                                                        *)
FrameInHand == pt.pc \in {"requeue", "deliver"}

(* The client in releaseRecordingFrame.                                     *)
FrameComesBack == cl.pc \in {"index", "queue", "clear"}

May(race) == race \in Races

Fails(op) == op \in Faults

-----------------------------------------------------------------------------
(* The preview thread: previewThreadWrapper and previewThread.              *)

(* Mutant. The flag is not looked at again when the thread wakes up.        *)
PreviewTopIgnoresFlag ==
  /\ pt.pc = "top" /\ PreviewLockFree
  /\ pt' = [pt EXCEPT !.pc = IF ~pt.slept THEN "stopping"
                             ELSE IF hw.mExitPreviewThread THEN "exit" ELSE "grab"]
  /\ UNCHANGED <<cam, hw, rec, cl, qt>>

(* It takes mPreviewLock and looks whether it shall run.                    *)
PreviewTop ==
  /\ pt.pc = "top" /\ PreviewLockFree
  /\ pt' = [pt EXCEPT !.pc = IF ~hw.mPreviewRunning THEN "stopping"
                             ELSE IF hw.mExitPreviewThread THEN "exit" ELSE "grab"]
  /\ UNCHANGED <<cam, hw, rec, cl, qt>>

(* Mutant. The thread signals that it stops before it stopped the camera.   *)
PreviewStopSignalsOnly ==
  /\ pt.pc = "stopping"
  /\ pt' = [pt EXCEPT !.pc = "wait", !.slept = TRUE]
  /\ cl' = WakeClient
  /\ UNCHANGED <<cam, hw, rec, qt>>

(* Mutant. Streaming is stopped without dequeueing, which would reset the   *)
(* counters.                                                                *)
PreviewStopKeepsCounters ==
  /\ pt.pc = "stopping"
  /\ cam' = StopStreaming(cam, 0)
  /\ pt' = [pt EXCEPT !.pc = "wait", !.slept = TRUE]
  /\ cl' = WakeClient
  /\ UNCHANGED <<hw, rec, qt>>

(* It stops the camera, says so and waits, which frees the mutex.           *)
PreviewStop ==
  /\ pt.pc = "stopping" /\ UninitReturns(cam)
  /\ \E c \in Uninits(cam) : cam' = StopStreaming(c, 0)
  /\ pt' = [pt EXCEPT !.pc = "wait", !.slept = TRUE]
  /\ cl' = WakeClient
  /\ UNCHANGED <<hw, rec, qt>>

(* Told to exit it stops the camera again, without the mutex.               *)
PreviewExit ==
  /\ pt.pc = "exit" /\ UninitReturns(cam)
  /\ \E c \in Uninits(cam) : cam' = StopStreaming(c, 0)
  /\ pt' = [pt EXCEPT !.pc = "done"]
  /\ UNCHANGED <<hw, rec, cl, qt>>

(* What follows the grab of a frame, or of none: a skipped frame ends here, *)
(* and showing no frame in a window is an access through NULL.              *)
Grabbed(frame) ==
  \/ pt' = [pt EXCEPT !.pc = "top"]
  \/ pt' = [pt EXCEPT !.pc = IF ~hw.mNativeWindow THEN "record"
                             ELSE IF frame THEN "show" ELSE "crashed"]

(* GrabPreviewFrame: DQBUF ...                                              *)
PreviewGrab ==
  /\ pt.pc = "grab"
  /\ FrameComesBack => May("frames")
  /\ \/ DqFails(cam) /\ Grabbed(FALSE) /\ cam' = cam
     \/ /\ ~DqFails(cam)
        /\ \E i \in cam.queued : cam' = Dequeued(cam, i)
        /\ pt' = [pt EXCEPT !.pc = "requeue"]
  /\ UNCHANGED <<hw, rec, cl, qt>>

(* ... and QBUF of whatever the shared descriptor says by then.             *)
PreviewRequeue ==
  /\ pt.pc = "requeue"
  /\ cam' = EnqueueCounted(cam)
  /\ Grabbed(QbufWorks(cam, cam.index))
  /\ UNCHANGED <<hw, rec, cl, qt>>

(* The frame is copied into the window it has found before.                 *)
PreviewShow ==
  /\ pt.pc = "show"
  /\ pt' = [pt EXCEPT !.pc = IF hw.mNativeWindow THEN "record" ELSE "crashed"]
  /\ UNCHANGED <<cam, hw, rec, cl, qt>>

(* With mRecordingLock, which a client holds only within a step.            *)
PreviewRecord ==
  /\ pt.pc = "record"
  /\ pt' = [pt EXCEPT !.pc = IF rec.mRecordingEnabled THEN "grabRecord" ELSE "top"]
  /\ UNCHANGED <<cam, hw, rec, cl, qt>>

(* GrabRecordFrame, whose index is kept; without a frame the copy that      *)
(* follows is an access through NULL.                                       *)
PreviewGrabRecord ==
  /\ pt.pc = "grabRecord"
  /\ FrameComesBack => May("frames")
  /\ \/ DqFails(cam) /\ cam' = cam /\ pt' = [pt EXCEPT !.pc = "crashed"]
     \/ /\ ~DqFails(cam)
        /\ \E i \in cam.queued :
             /\ cam' = Dequeued(cam, i)
             /\ pt' = [pt EXCEPT !.pc = "deliver", !.index = i]
  /\ UNCHANGED <<hw, rec, cl, qt>>

(* Mutant. The frame is not marked as being out of the driver.              *)
PreviewDeliverUnmarked ==
  /\ pt.pc = "deliver" /\ rec.videoMsg
  /\ rec' = [rec EXCEPT !.held = @ \cup {pt.index}]
  /\ pt' = [pt EXCEPT !.pc = "top"]
  /\ UNCHANGED <<cam, hw, cl, qt>>

(* The frame is marked, and goes to the client or, unwanted, to the driver. *)
PreviewDeliver ==
  /\ pt.pc = "deliver"
  /\ IF rec.videoMsg
       THEN /\ rec' = [rec EXCEPT !.mRecordBufferState = @ \cup {pt.index},
                                  !.held = @ \cup {pt.index}]
            /\ cam' = cam
       ELSE /\ rec' = [rec EXCEPT !.mRecordBufferState = @ \cup {pt.index}]
            /\ cam' = EnqueueCounted([cam EXCEPT !.index = pt.index])
  /\ pt' = [pt EXCEPT !.pc = "top"]
  /\ UNCHANGED <<hw, cl, qt>>

-----------------------------------------------------------------------------
(* The picture thread.                                                      *)

PictureConfigure ==
  /\ qt = "configure"
  /\ \/ FormatAllowed(cam) /\ qt' = "map"
     \/ (~FormatAllowed(cam) \/ Fails("configure")) /\ qt' = "idle"
  /\ UNCHANGED <<cam, hw, rec, cl, pt>>

PictureMap ==
  /\ qt = "map"
  /\ \/ BuffersAllowed(cam) /\ qt' = "stream" /\ cam' = BufferMap(cam, 1, 1)
     \/ (~BuffersAllowed(cam) \/ Fails("buffers")) /\ qt' = "idle" /\ cam' = cam
     \/ /\ BuffersAllowed(cam) /\ Fails("mapping")
        /\ cam' = BufferMapFails(cam, 1, 0) /\ qt' = "idle"
  /\ UNCHANGED <<hw, rec, cl, pt>>

(* If streaming does not start, the camera is closed.                       *)
PictureStream ==
  /\ qt = "stream"
  /\ \/ StreamAllowed(cam) /\ qt' = "grab" /\ cam' = StartStreaming(cam, 1)
     \/ /\ ~StreamAllowed(cam) \/ (~cam.isStreaming /\ Fails("stream"))
        /\ UninitReturns(cam) /\ \E c \in Uninits(cam) : cam' = Close(c)
        /\ qt' = "idle"
  /\ UNCHANGED <<hw, rec, cl, pt>>

(* GrabJpegFrame gives its buffer back; then the client gets the picture.   *)
(* Without a frame there is no picture to copy from.                        *)
PictureGrab ==
  /\ qt = "grab"
  /\ \/ DqFails(cam) /\ qt' = "crashed"
     \/ ~DqFails(cam) /\ cam.queued # {} /\ qt' = "close"
  /\ UNCHANGED <<cam, hw, rec, cl, pt>>

PictureClose ==
  /\ qt = "close" /\ UninitReturns(cam)
  /\ \E c \in Uninits(cam) : cam' = StopStreaming(c, 1)
  /\ qt' = "idle"
  /\ UNCHANGED <<hw, rec, cl, pt>>

-----------------------------------------------------------------------------
(* The client. A call begins when no other is in progress.                  *)

Ready == cl.pc = "idle" /\ (pt.slept \/ May("early"))

Begins(call, pc) == Ready /\ cl' = [cl EXCEPT !.pc = pc, !.call = call]

Return == [cl EXCEPT !.pc = "idle", !.call = "none"]

(* Whether no frames are being recorded, or the client does not care.       *)
NotRecording == ~rec.mRecordingEnabled \/ May("hold")

(* setPreviewWindow, with mLock only. A new window starts a preview that    *)
(* waits for one.                                                           *)
SetPreviewWindow(w) ==
  /\ Ready
  /\ ~hw.mPreviewRunning \/ hw.mPreviewStartDeferred \/ May("window")
  /\ ~PictureRuns \/ May("picture")
  /\ hw' = [hw EXCEPT !.mNativeWindow = w]
  /\ cl' = IF w /\ hw.mPreviewRunning /\ hw.mPreviewStartDeferred
             THEN [cl EXCEPT !.pc = "configure", !.call = "setPreviewWindow"]
             ELSE cl
  /\ UNCHANGED <<cam, rec, pt, qt>>

StartPreview ==
  /\ ~PictureRuns \/ May("picture")
  /\ Begins("startPreview", "lock")
  /\ UNCHANGED <<cam, hw, rec, pt, qt>>

StartPreviewLocked ==
  /\ cl.pc = "lock" /\ cl.call = "startPreview" /\ PreviewLockFree
  /\ IF hw.mPreviewRunning THEN cl' = Return /\ hw' = hw
     ELSE /\ hw' = [hw EXCEPT !.mPreviewRunning = TRUE,
                              !.mPreviewStartDeferred = ~hw.mNativeWindow]
          /\ cl' = IF hw.mNativeWindow THEN [cl EXCEPT !.pc = "configure"] ELSE Return
  /\ UNCHANGED <<cam, rec, pt, qt>>

(* startPreviewInternal, for startPreview and setPreviewWindow alike.       *)
StartConfigure ==
  /\ cl.pc = "configure"
  /\ cl' \in (IF FormatAllowed(cam) THEN {[cl EXCEPT !.pc = "map"]} ELSE {})
             \cup (IF ~FormatAllowed(cam) \/ Fails("configure") THEN {Return} ELSE {})
  /\ UNCHANGED <<cam, hw, rec, pt, qt>>

StartMap ==
  /\ cl.pc = "map"
  /\ \/ /\ BuffersAllowed(cam)
        /\ cam' = BufferMap(cam, 0, NB_BUFFER) /\ cl' = [cl EXCEPT !.pc = "stream"]
     \/ /\ ~BuffersAllowed(cam) \/ Fails("buffers")
        /\ cam' = cam /\ cl' = Return
     \/ /\ BuffersAllowed(cam) /\ Fails("mapping")
        /\ \E i \in Bufs : cam' = BufferMapFails(cam, 0, i)
        /\ cl' = Return
  /\ UNCHANGED <<hw, rec, pt, qt>>

(* Mutant. The preview is started without a signal.                         *)
StartStreamNoSignal ==
  /\ cl.pc = "stream"
  /\ cam.open /\ cam' = StartStreaming(cam, 0)
  /\ hw' = [hw EXCEPT !.mPreviewStartDeferred = FALSE]
  /\ cl' = Return
  /\ UNCHANGED <<rec, pt, qt>>

(* A started preview wakes its thread. If streaming does not start the      *)
(* camera is closed, and mPreviewRunning stays.                             *)
StartStream ==
  /\ cl.pc = "stream"
  /\ \/ /\ StreamAllowed(cam)
        /\ cam' = StartStreaming(cam, 0)
        /\ hw' = [hw EXCEPT !.mPreviewStartDeferred = FALSE]
        /\ pt' = WakePreview
     \/ /\ ~StreamAllowed(cam) \/ (~cam.isStreaming /\ Fails("stream"))
        /\ UninitReturns(cam) /\ \E c \in Uninits(cam) : cam' = Close(c)
        /\ UNCHANGED <<hw, pt>>
  /\ cl' = Return
  /\ UNCHANGED <<rec, qt>>

(* stopPreview, and takePicture, which begins with it.                      *)
StopPreview(call) ==
  /\ NotRecording
  /\ Begins(call, "lock")
  /\ UNCHANGED <<cam, hw, rec, pt, qt>>

(* What a stop goes on with.                                                *)
Stopped == IF cl.call = "takePicture" THEN [cl EXCEPT !.pc = "picture"] ELSE Return

(* Mutant. The stop does not wait for the preview thread.                   *)
StopPreviewLockedNoWait ==
  /\ cl.pc = "lock" /\ cl.call \in {"stopPreview", "takePicture"} /\ PreviewLockFree
  /\ hw' = [hw EXCEPT !.mPreviewRunning = FALSE]
  /\ cl' = Stopped /\ pt' = WakePreview
  /\ UNCHANGED <<cam, rec, qt>>

(* Mutant. The flag is not reset.                                           *)
StopPreviewLockedKeepsRunning ==
  /\ cl.pc = "lock" /\ cl.call \in {"stopPreview", "takePicture"} /\ PreviewLockFree
  /\ IF hw.mPreviewRunning /\ ~hw.mPreviewStartDeferred
       THEN cl' = [cl EXCEPT !.pc = "stopwait"] /\ pt' = WakePreview
       ELSE cl' = Stopped /\ pt' = pt
  /\ UNCHANGED <<cam, hw, rec, qt>>

(* The preview thread is told to stop unless it never started, and waited   *)
(* for.                                                                     *)
StopPreviewLocked ==
  /\ cl.pc = "lock" /\ cl.call \in {"stopPreview", "takePicture"} /\ PreviewLockFree
  /\ hw' = [hw EXCEPT !.mPreviewRunning = FALSE]
  /\ IF hw.mPreviewRunning /\ ~hw.mPreviewStartDeferred
       THEN cl' = [cl EXCEPT !.pc = "stopwait"] /\ pt' = WakePreview
       ELSE cl' = Stopped /\ pt' = pt
  /\ UNCHANGED <<cam, rec, qt>>

(* It has the mutex again.                                                  *)
StopPreviewWoken ==
  /\ cl.pc = "stopwake" /\ PreviewLockFree
  /\ cl' = Stopped
  /\ UNCHANGED <<cam, hw, rec, pt, qt>>

(* Thread::run fails if the last picture's thread still runs.               *)
TakePicture ==
  /\ cl.pc = "picture"
  /\ qt' = IF PictureRuns THEN qt ELSE "configure"
  /\ cl' = Return
  /\ UNCHANGED <<cam, hw, rec, pt>>

CancelPicture ==
  /\ Begins("cancelPicture", "joinPicture")
  /\ UNCHANGED <<cam, hw, rec, pt, qt>>

(* requestExitAndWait of the picture thread.                                *)
JoinPicture ==
  /\ cl.pc = "joinPicture" /\ ~PictureRuns
  /\ cl' = IF cl.call = "release" THEN [cl EXCEPT !.pc = "close"] ELSE Return
  /\ UNCHANGED <<cam, hw, rec, pt, qt>>

(* Recording follows a preview; its frames are wanted from then on.         *)
StartRecording ==
  /\ hw.mPreviewRunning /\ ~rec.mRecordingEnabled /\ rec.held = {}
  /\ Begins("startRecording", "recording")
  /\ UNCHANGED <<cam, hw, rec, pt, qt>>

StartRecordingLocked ==
  /\ cl.pc = "recording" /\ cl.call = "startRecording" /\ RecordingLockFree
  /\ rec' = [rec EXCEPT !.mRecordingEnabled = TRUE, !.videoMsg = TRUE,
                        !.mRecordBufferState = {}]
  /\ cl' = Return
  /\ UNCHANGED <<cam, hw, pt, qt>>

(* The service disables VIDEO_FRAME first; frames may still come.           *)
StopRecording ==
  /\ rec.mRecordingEnabled
  /\ Begins("stopRecording", "recording")
  /\ rec' = [rec EXCEPT !.videoMsg = @ /\ ~May("message")]
  /\ UNCHANGED <<cam, hw, pt, qt>>

(* ReleaseRecordFrame of every buffer in s, which leaves the last one's     *)
(* index behind.                                                            *)
ReleaseAll(s) ==
  IF s = {} THEN {cam}
  ELSE {[cam EXCEPT !.queued = IF cam.open THEN @ \cup (s \cap cam.allocated) ELSE @,
                    !.pending = @ + Cardinality(s),
                    !.index = i] : i \in {k \in s : \A j \in s : j <= k}}

(* Mutant. Frames that are still out are forgotten.                         *)
StopRecordingLockedForgets ==
  /\ cl.pc = "recording" /\ cl.call = "stopRecording" /\ RecordingLockFree
  /\ rec' = [rec EXCEPT !.mRecordingEnabled = FALSE, !.videoMsg = FALSE,
                        !.mRecordBufferState = {}, !.held = {}]
  /\ cl' = Return
  /\ UNCHANGED <<cam, hw, pt, qt>>

(* Marked buffers go back to the driver. A client that knows does not give  *)
(* its frames back any more.                                                *)
StopRecordingLocked ==
  /\ cl.pc = "recording" /\ cl.call = "stopRecording" /\ RecordingLockFree
  /\ FrameInHand => May("frames")
  /\ cam' \in ReleaseAll(rec.mRecordBufferState)
  /\ rec' = [rec EXCEPT !.mRecordingEnabled = FALSE, !.videoMsg = FALSE,
                        !.mRecordBufferState = {},
                        !.held = IF May("late") THEN @ ELSE {}]
  /\ cl' = Return
  /\ UNCHANGED <<hw, pt, qt>>

(* releaseRecordingFrame of a frame the client has: the shared descriptor   *)
(* is filled in, the buffer queued, and its mark cleared, without a mutex.  *)
ReleaseRecordingFrame(i) ==
  /\ i \in rec.held
  /\ FrameInHand => May("frames")
  /\ Ready
  /\ cl' = [cl EXCEPT !.pc = "index", !.call = "releaseRecordingFrame", !.frame = i]
  /\ rec' = [rec EXCEPT !.held = @ \ {i}]
  /\ UNCHANGED <<cam, hw, pt, qt>>

ReleaseFrameIndex ==
  /\ cl.pc = "index"
  /\ cam' = [cam EXCEPT !.index = cl.frame]
  /\ cl' = [cl EXCEPT !.pc = "queue"]
  /\ UNCHANGED <<hw, rec, pt, qt>>

ReleaseFrameQueue ==
  /\ cl.pc = "queue"
  /\ cam' = EnqueueCounted(cam)
  /\ cl' = [cl EXCEPT !.pc = "clear"]
  /\ UNCHANGED <<hw, rec, pt, qt>>

ReleaseFrameClear ==
  /\ cl.pc = "clear"
  /\ rec' = [rec EXCEPT !.mRecordBufferState = @ \ {cl.frame}]
  /\ cl' = Return
  /\ UNCHANGED <<cam, hw, pt, qt>>

(* release() tells the preview thread to exit, without mPreviewLock, ...    *)
Release ==
  /\ NotRecording
  /\ ~PictureRuns \/ May("picture")
  /\ Begins("release", "joinPreview")
  /\ hw' = [hw EXCEPT !.mExitPreviewThread = TRUE, !.mPreviewRunning = TRUE]
  /\ pt' = WakePreview
  /\ UNCHANGED <<cam, rec, qt>>

(* Mutant. The thread is told to exit and not waited for.                   *)
JoinPreviewOnlyAsks ==
  /\ cl.pc = "joinPreview"
  /\ cl' = [cl EXCEPT !.pc = "joinPicture"]
  /\ UNCHANGED <<cam, hw, rec, pt, qt>>

(* ... waits for it, then for the picture thread, ...                       *)
JoinPreview ==
  /\ cl.pc = "joinPreview" /\ pt.pc = "done"
  /\ cl' = [cl EXCEPT !.pc = "joinPicture"]
  /\ UNCHANGED <<cam, hw, rec, pt, qt>>

(* ... and closes the camera.                                               *)
CloseCamera ==
  /\ cl.pc = "close" /\ UninitReturns(cam)
  /\ \E c \in Uninits(cam) : cam' = Close(c)
  /\ cl' = [cl EXCEPT !.pc = "released"]
  /\ UNCHANGED <<hw, rec, pt, qt>>

-----------------------------------------------------------------------------
Call ==
  \/ \E w \in BOOLEAN : SetPreviewWindow(w)
  \/ StartPreview \/ StopPreview("stopPreview") \/ StopPreview("takePicture")
  \/ CancelPicture \/ StartRecording \/ StopRecording
  \/ \E i \in Bufs : ReleaseRecordingFrame(i)
  \/ Release

ClientStep ==
  \/ StartPreviewLocked \/ StartConfigure \/ StartMap \/ StartStream
  \/ StopPreviewLocked \/ StopPreviewWoken \/ TakePicture \/ JoinPicture
  \/ StartRecordingLocked \/ StopRecordingLocked
  \/ ReleaseFrameIndex \/ ReleaseFrameQueue \/ ReleaseFrameClear
  \/ JoinPreview \/ CloseCamera

PreviewStep ==
  \/ PreviewTop \/ PreviewStop \/ PreviewExit \/ PreviewGrab \/ PreviewRequeue
  \/ PreviewShow \/ PreviewRecord \/ PreviewGrabRecord \/ PreviewDeliver

PictureStep ==
  \/ PictureConfigure \/ PictureMap \/ PictureStream \/ PictureGrab \/ PictureClose

Next == Call \/ ClientStep \/ PreviewStep \/ PictureStep

Spec == Init /\ [][Next]_vars

(* Every thread goes on, and gets a mutex that is free again and again; the *)
(* driver delivers frames. Nobody is bound to make a call.                  *)
FairSpec ==
  /\ Spec
  /\ SF_vars(ClientStep) /\ SF_vars(PreviewStep) /\ SF_vars(PictureStep)

-----------------------------------------------------------------------------
(* Properties.                                                              *)

(* Only one of the client, the preview thread and the picture thread is     *)
(* setting up, stopping or reading from the driver: mPreviewLock, "hareware *)
(* v4l2 operation lock", and the hand-over in stopPreview see to it.        *)
DeviceExclusive ==
  LET client == cl.pc \in {"configure", "map", "stream", "close"}
      preview == pt.pc \notin {"top", "wait", "done", "crashed"}
  IN ~(client /\ preview) /\ ~(client /\ PictureRuns)
     /\ ~(preview /\ PictureRuns)

(* When a stop has returned and nothing is running, the preview thread      *)
(* sleeps and the driver is quiet: no frame comes after stopPreview, and    *)
(* the counters start again from zero.                                      *)
StoppedIsQuiet ==
  cl.pc = "idle" /\ ~hw.mPreviewRunning /\ pt.slept /\ ~PictureRuns
    => /\ pt.pc = "wait"
       /\ ~cam.streaming /\ cam.queued = {} /\ cam.pending = 0

(* Where the buffers of a preview can be.                                   *)
InHand == IF pt.pc = "requeue" THEN {cam.index}
          ELSE IF pt.pc = "deliver" THEN {pt.index} ELSE {}
ComingBack == IF cl.pc \in {"index", "queue"} THEN {cl.frame} ELSE {}

(* The owners of the buffers, for the promise in BufferOwnership.           *)
Owner == [i \in Bufs |-> IF i \in InHand THEN "thread"
                         ELSE IF i \in rec.held \cup ComingBack THEN "client"
                         ELSE IF i \in cam.queued THEN "driver" ELSE "none"]

Ownership == INSTANCE BufferOwnership WITH BufferIds <- Bufs, owner <- Owner

(* Every step of the threads, the client and the driver moves buffers as    *)
(* BufferOwnership allows: the camera is not stopped or set up anew while a *)
(* frame is being looked at or recorded, one frame is looked at at a time,  *)
(* and what a client gives back goes to the driver and nowhere else.        *)
ImplementsOwnership == Ownership!Spec

(* No buffer is lost or in two places while the preview streams: each is    *)
(* queued, in the preview thread's hands, or with the recording client.     *)
BuffersConserved ==
  cam.isStreaming =>
    /\ cam.queued \cup InHand \cup rec.held \cup ComingBack = Bufs
    /\ Cardinality(cam.queued) + Cardinality(InHand) + Cardinality(rec.held)
         + Cardinality(ComingBack) = NB_BUFFER

(* nQueued - nDequeued is the number of buffers queued, through recordings, *)
(* failures and pictures: Uninit relies on it to dequeue what there is.     *)
CountersMatch == cam.pending = Cardinality(cam.queued)

(* No thread goes on without the frame it asked for, nor the preview thread *)
(* without the window it is about to draw into.                             *)
NoMissingFrame == pt.pc # "crashed" /\ qt # "crashed"

(* A frame the client has is marked, so that stopRecording finds it.        *)
HeldFramesMarked ==
  rec.mRecordingEnabled => rec.held \cup ComingBack \subseteq rec.mRecordBufferState

(* After release() no thread is left and the device is closed.              *)
ReleasedIsQuiet ==
  cl.pc = "released" => pt.pc = "done" /\ ~PictureRuns /\ ~cam.open

(* What call a place belongs to; release() has set mExitPreviewThread and   *)
(* mPreviewRunning for good, and once it closes the camera both threads are *)
(* gone.                                                                    *)
ReleaseJoins ==
  /\ cl.pc = "idle" => cl.call = "none"
  /\ cl.pc \in {"joinPreview", "close", "released"} => cl.call = "release"
  /\ cl.call = "release" => cl.pc \in {"joinPreview", "joinPicture", "close", "released"}
  /\ hw.mExitPreviewThread <=> cl.call = "release"
  /\ hw.mExitPreviewThread => hw.mPreviewRunning
  /\ cl.call = "release" /\ cl.pc # "joinPreview" => pt.pc = "done"
  /\ cl.pc \in {"close", "released"} => ~PictureRuns
  /\ cl.pc = "released" => ~cam.open

(* How the driver changes hands. The preview thread sleeps when it is not   *)
(* told to run, except while a stop waits for it, and when the preview is   *)
(* deferred; a client sets the preview up for a sleeping thread; a picture  *)
(* is taken when the preview is stopped.                                    *)
HandOver ==
  /\ ~pt.slept => /\ cl.pc = "idle" /\ ~hw.mPreviewRunning
                  /\ pt.pc \in {"top", "stopping"} /\ ~PictureRuns
  /\ pt.slept /\ ~hw.mPreviewRunning /\ cl.pc # "stopwait" => pt.pc = "wait"
  /\ hw.mPreviewRunning /\ hw.mPreviewStartDeferred /\ ~hw.mExitPreviewThread
       => pt.pc = "wait"
  /\ cl.pc \in {"configure", "map", "stream"} => pt.pc = "wait" /\ hw.mPreviewRunning
  /\ cl.pc \in {"stopwait", "stopwake", "picture"} => ~hw.mPreviewRunning
  /\ PictureRuns => /\ ~hw.mPreviewRunning /\ cl.pc # "stopwait"
                    /\ ~(cl.pc = "lock" /\ cl.call = "startPreview")

(* Every call of the camera service returns, unless the process crashed.    *)
EveryCallReturns ==
  cl.pc # "idle" ~> \/ cl.pc \in {"idle", "released"}
                    \/ pt.pc = "crashed" \/ qt = "crashed"

(* A preview that was started is taken up by its thread.                    *)
PreviewTakenUp ==
  hw.mPreviewRunning /\ cam.isStreaming
    ~> pt.pc # "wait" \/ ~hw.mPreviewRunning \/ ~cam.isStreaming

=============================================================================
