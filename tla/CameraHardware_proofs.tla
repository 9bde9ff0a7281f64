------------------------ MODULE CameraHardware_proofs ------------------------
(* Theorems about CameraHardware, for any number of buffers, any operations  *)
(* of the driver that fail, and any client within the named races. First the *)
(* types, release and the hand-over of the driver; then the buffers, under   *)
(* Orderly: CameraHardware implements BufferOwnership. No buffer is lost,    *)
(* the counters say how many are queued, a stopped preview is quiet, and no  *)
(* thread is left without the frame or the window it uses.                   *)
EXTENDS CameraHardware, FiniteSetTheorems, TLAPS

-----------------------------------------------------------------------------
(* The operators of V4L2Camera keep a camera's type.                        *)

LEMMA OpenedType == Opened \in CamState
  BY BufferAssumption DEF Opened, CamState, Bufs

LEMMA QueueUpdates ==
  ASSUME NEW c \in CamState, NEW q \in SUBSET Bufs, NEW p \in Int
  PROVE  /\ [c EXCEPT !.queued = q, !.pending = p] \in CamState
         /\ \A i \in Bufs :
              [c EXCEPT !.queued = q, !.pending = p, !.index = i] \in CamState
  BY DEF CamState

LEMMA BufferMapType ==
  ASSUME NEW c \in CamState, NEW m \in {0, 1}, NEW n \in 1 .. NB_BUFFER
  PROVE  BufferMap(c, m, n) \in CamState
  <1>1. Buffers(m) \in SUBSET Bufs /\ 0 .. n - 1 \in SUBSET Bufs
        /\ n - 1 \in Bufs /\ c.pending + n \in Int
    BY BufferAssumption DEF Buffers, Bufs, CamState
  <1> QED
    BY <1>1 DEF BufferMap, CamState

LEMMA BufferMapFailsType ==
  ASSUME NEW c \in CamState, NEW m \in {0, 1}, NEW i \in Bufs
  PROVE  BufferMapFails(c, m, i) \in CamState
  <1>1. Buffers(m) \in SUBSET Bufs /\ 0 .. i - 1 \in SUBSET Bufs
        /\ c.pending + i \in Int
    BY BufferAssumption DEF Buffers, Bufs, CamState
  <1> QED
    BY <1>1 DEF BufferMapFails, CamState

LEMMA StreamingType ==
  ASSUME NEW c \in CamState, NEW m \in {0, 1}
  PROVE  StartStreaming(c, m) \in CamState /\ StopStreaming(c, m) \in CamState
  BY DEF StartStreaming, StopStreaming, CamState

LEMMA DequeuedType ==
  ASSUME NEW c \in CamState, NEW i \in c.queued
  PROVE  i \in Bufs /\ Dequeued(c, i) \in CamState
  <1>1. c.queued \in SUBSET Bufs /\ c.pending \in Int
    BY DEF CamState
  <1>2. c.queued \ {i} \in SUBSET Bufs /\ c.pending - 1 \in Int /\ i \in Bufs
    BY <1>1
  <1> QED
    BY <1>2, QueueUpdates DEF Dequeued

LEMMA EnqueuedType ==
  ASSUME NEW c \in CamState
  PROVE  EnqueueCounted(c) \in CamState
  <1>1. Enqueued(c, c.index) \in CamState
    BY DEF Enqueued, QbufWorks, CamState
  <1> QED
    BY <1>1 DEF EnqueueCounted, CamState

LEMMA UninitType ==
  ASSUME NEW c \in CamState, NEW d \in Uninits(c)
  PROVE  d \in CamState
  <1>1. CASE ~c.open
    BY <1>1 DEF Uninits
  <1>2. CASE c.open
    <2>1. PICK s \in SUBSET c.queued : d = [c EXCEPT !.queued = s, !.pending = 0]
      BY <1>2 DEF Uninits
    <2>2. c.queued \in SUBSET Bufs
      BY DEF CamState
    <2>3. s \in SUBSET Bufs /\ 0 \in Int
      BY <2>2
    <2>4. [c EXCEPT !.queued = s, !.pending = 0] \in CamState
      BY <2>3, QueueUpdates
    <2> QED
      BY <2>1, <2>4
  <1> QED
    BY <1>1, <1>2

LEMMA CloseType ==
  ASSUME NEW c \in CamState
  PROVE  Close(c) \in CamState /\ ~Close(c).open
  BY DEF Close, CamState

LEMMA BufsFinite == \A s \in SUBSET Bufs : Cardinality(s) \in Nat
  <1>1. IsFiniteSet(Bufs)
    BY BufferAssumption, FS_Interval DEF Bufs
  <1> QED
    BY <1>1, FS_Subset, FS_CardinalityType

LEMMA ReleaseAllType ==
  ASSUME cam \in CamState, NEW s \in SUBSET Bufs, NEW c \in ReleaseAll(s)
  PROVE  c \in CamState
  <1>1. CASE s = {}
    BY <1>1 DEF ReleaseAll
  <1>2. CASE s # {}
    <2> DEFINE q == IF cam.open THEN cam.queued \cup (s \cap cam.allocated) ELSE cam.queued
               p == cam.pending + Cardinality(s)
    <2>1. PICK i \in s : c = [cam EXCEPT !.queued = q, !.pending = p, !.index = i]
      BY <1>2 DEF ReleaseAll
    <2>2. cam.queued \in SUBSET Bufs /\ cam.pending \in Int
      BY DEF CamState
    <2>3. q \in SUBSET Bufs
      BY <2>2
    <2>4. i \in Bufs /\ p \in Int
      BY <2>2, BufsFinite
    <2> QED
      BY <2>1, <2>3, <2>4, QueueUpdates
  <1> QED
    BY <1>1, <1>2

-----------------------------------------------------------------------------
(* Type correctness: first what a step of a client or of a thread does to   *)
(* its own record.                                                          *)

LEMMA ClGoes ==
  ASSUME cl \in ClState, NEW p \in ClientPcs
  PROVE  /\ [cl EXCEPT !.pc = p] \in ClState
         /\ \A c \in ClientCalls : [cl EXCEPT !.pc = p, !.call = c] \in ClState
  BY DEF ClState

LEMMA PtGoes ==
  ASSUME pt \in PtState, NEW p \in PreviewPcs
  PROVE  /\ [pt EXCEPT !.pc = p] \in PtState
         /\ [pt EXCEPT !.pc = p, !.slept = TRUE] \in PtState
         /\ \A i \in Bufs : [pt EXCEPT !.pc = p, !.index = i] \in PtState
  BY DEF PtState

LEMMA WakeTypes ==
  ASSUME TypeOK
  PROVE  WakePreview \in PtState /\ WakeClient \in ClState /\ Return \in ClState
         /\ Stopped \in ClState
  <1>1. "top" \in PreviewPcs /\ {"stopwake", "idle", "picture"} \subseteq ClientPcs
        /\ "none" \in ClientCalls
    BY DEF PreviewPcs, ClientPcs, ClientCalls
  <1>2. WakePreview \in PtState
    BY <1>1, PtGoes DEF WakePreview, TypeOK
  <1>3. WakeClient \in ClState /\ Return \in ClState
    BY <1>1, ClGoes DEF WakeClient, Return, TypeOK
  <1>4. Stopped \in ClState
    BY <1>1, <1>3, ClGoes DEF Stopped, TypeOK
  <1> QED
    BY <1>2, <1>3, <1>4

LEMMA BeginsType ==
  ASSUME TypeOK, NEW c \in ClientCalls, NEW p \in ClientPcs, Begins(c, p)
  PROVE  cl' \in ClState
  BY ClGoes DEF Begins, TypeOK

LEMMA InitType == Init => TypeOK
  <1> SUFFICES ASSUME Init PROVE TypeOK
    OBVIOUS
  <1>1. 0 \in Bufs
    BY BufferAssumption DEF Bufs
  <1>2. hw \in HwState /\ rec \in RecState
    BY DEF Init, HwState, RecState
  <1>3. cl \in ClState /\ pt \in PtState /\ qt \in PicturePcs
    BY <1>1 DEF Init, ClState, PtState, ClientPcs, ClientCalls, PreviewPcs, PicturePcs
  <1> QED
    BY <1>2, <1>3, OpenedType DEF Init, TypeOK

LEMMA CallType == ASSUME TypeOK, Call PROVE TypeOK'
  <1>0. /\ {"lock", "configure", "recording", "joinPicture", "joinPreview"} \subseteq ClientPcs
        /\ {"setPreviewWindow", "startPreview", "stopPreview", "takePicture",
            "cancelPicture", "startRecording", "stopRecording", "release"} \subseteq ClientCalls
    BY DEF ClientPcs, ClientCalls
  <1>1. ASSUME NEW w \in BOOLEAN, SetPreviewWindow(w) PROVE TypeOK'
    <2>1. cl' \in ClState
      BY <1>0, <1>1, ClGoes DEF SetPreviewWindow, TypeOK
    <2>2. hw' \in HwState
      BY <1>1 DEF SetPreviewWindow, TypeOK, HwState
    <2> QED
      BY <1>1, <2>1, <2>2 DEF SetPreviewWindow, TypeOK
  <1>2. CASE StartPreview
    BY <1>0, <1>2, BeginsType DEF StartPreview, TypeOK
  <1>3. ASSUME NEW c \in {"stopPreview", "takePicture"}, StopPreview(c) PROVE TypeOK'
    BY <1>0, <1>3, BeginsType DEF StopPreview, TypeOK
  <1>4. CASE CancelPicture
    BY <1>0, <1>4, BeginsType DEF CancelPicture, TypeOK
  <1>5. CASE StartRecording
    BY <1>0, <1>5, BeginsType DEF StartRecording, TypeOK
  <1>6. CASE StopRecording
    <2>1. rec' \in RecState
      BY <1>6 DEF StopRecording, May, TypeOK, RecState
    <2>2. cl' \in ClState
      BY <1>0, <1>6, BeginsType DEF StopRecording
    <2> QED
      BY <1>6, <2>1, <2>2 DEF StopRecording, TypeOK
  <1>7. ASSUME NEW i \in Bufs, ReleaseRecordingFrame(i) PROVE TypeOK'
    <2>1. rec' \in RecState
      BY <1>7 DEF ReleaseRecordingFrame, TypeOK, RecState
    <2>2. cl' \in ClState
      BY <1>7 DEF ReleaseRecordingFrame, TypeOK, ClState, ClientPcs, ClientCalls
    <2> QED
      BY <1>7, <2>1, <2>2 DEF ReleaseRecordingFrame, TypeOK
  <1>8. CASE Release
    <2>1. hw' \in HwState
      BY <1>8 DEF Release, TypeOK, HwState
    <2>2. cl' \in ClState
      BY <1>0, <1>8, BeginsType DEF Release
    <2> QED
      BY <1>8, <2>1, <2>2, WakeTypes DEF Release, TypeOK
  <1> QED
    BY <1>1, <1>2, <1>3, <1>4, <1>5, <1>6, <1>7, <1>8 DEF Call

LEMMA ClientType == ASSUME TypeOK, ClientStep PROVE TypeOK'
  <1>0. /\ cam \in CamState
        /\ {"configure", "map", "stream", "stopwait", "joinPicture", "close",
            "queue", "clear", "released"} \subseteq ClientPcs
        /\ "configure" \in PicturePcs
        /\ Return \in ClState /\ Stopped \in ClState /\ WakePreview \in PtState
    BY WakeTypes DEF TypeOK, ClientPcs, PicturePcs
  <1>1. CASE StartPreviewLocked
    <2>1. hw' \in HwState
      BY <1>1 DEF StartPreviewLocked, TypeOK, HwState
    <2>2. cl' \in ClState
      BY <1>0, <1>1, ClGoes DEF StartPreviewLocked, TypeOK
    <2> QED
      BY <1>1, <2>1, <2>2 DEF StartPreviewLocked, TypeOK
  <1>2. CASE StartConfigure
    <2>1. cl' \in ClState
      BY <1>0, <1>2, ClGoes DEF StartConfigure, TypeOK
    <2> QED
      BY <1>2, <2>1 DEF StartConfigure, TypeOK
  <1>3. CASE StartMap
    <2>1. /\ BufferMap(cam, 0, NB_BUFFER) \in CamState
          /\ \A i \in Bufs : BufferMapFails(cam, 0, i) \in CamState
      BY <1>0, BufferMapType, BufferMapFailsType, BufferAssumption
    <2>2. cl' \in ClState
      BY <1>0, <1>3, ClGoes DEF StartMap, TypeOK
    <2> QED
      BY <1>0, <1>3, <2>1, <2>2 DEF StartMap, TypeOK
  <1>4. CASE StartStream
    <2>1. cam' \in CamState
      BY <1>0, <1>4, StreamingType, UninitType, CloseType DEF StartStream
    <2>2. hw' \in HwState
      BY <1>4 DEF StartStream, TypeOK, HwState
    <2> QED
      BY <1>0, <1>4, <2>1, <2>2 DEF StartStream, TypeOK
  <1>5. CASE StopPreviewLocked
    <2>1. hw' \in HwState
      BY <1>5 DEF StopPreviewLocked, TypeOK, HwState
    <2>2. cl' \in ClState /\ pt' \in PtState
      BY <1>0, <1>5, ClGoes DEF StopPreviewLocked, TypeOK
    <2> QED
      BY <1>5, <2>1, <2>2 DEF StopPreviewLocked, TypeOK
  <1>6. CASE StopPreviewWoken
    BY <1>0, <1>6 DEF StopPreviewWoken, TypeOK
  <1>7. CASE TakePicture
    BY <1>0, <1>7 DEF TakePicture, TypeOK
  <1>8. CASE JoinPicture
    BY <1>0, <1>8, ClGoes DEF JoinPicture, TypeOK
  <1>9. CASE StartRecordingLocked
    <2>1. rec' \in RecState
      BY <1>9 DEF StartRecordingLocked, TypeOK, RecState
    <2> QED
      BY <1>0, <1>9, <2>1 DEF StartRecordingLocked, TypeOK
  <1>10. CASE StopRecordingLocked
    <2>1. rec.mRecordBufferState \in SUBSET Bufs
      BY DEF TypeOK, RecState
    <2>2. cam' \in CamState
      BY <1>0, <1>10, <2>1, ReleaseAllType DEF StopRecordingLocked
    <2>3. rec' \in RecState
      BY <1>10 DEF StopRecordingLocked, TypeOK, RecState
    <2> QED
      BY <1>0, <1>10, <2>2, <2>3 DEF StopRecordingLocked, TypeOK
  <1>11. CASE ReleaseFrameIndex
    <2>1. cam' \in CamState
      BY <1>11 DEF ReleaseFrameIndex, TypeOK, ClState, CamState
    <2> QED
      BY <1>0, <1>11, <2>1, ClGoes DEF ReleaseFrameIndex, TypeOK
  <1>12. CASE ReleaseFrameQueue
    BY <1>0, <1>12, EnqueuedType, ClGoes DEF ReleaseFrameQueue, TypeOK
  <1>13. CASE ReleaseFrameClear
    <2>1. rec' \in RecState
      BY <1>13 DEF ReleaseFrameClear, TypeOK, RecState
    <2> QED
      BY <1>0, <1>13, <2>1 DEF ReleaseFrameClear, TypeOK
  <1>14. CASE JoinPreview
    BY <1>0, <1>14, ClGoes DEF JoinPreview, TypeOK
  <1>15. CASE CloseCamera
    <2>1. cam' \in CamState
      BY <1>0, <1>15, UninitType, CloseType DEF CloseCamera
    <2> QED
      BY <1>0, <1>15, <2>1, ClGoes DEF CloseCamera, TypeOK
  <1> QED
    BY <1>1, <1>2, <1>3, <1>4, <1>5, <1>6, <1>7, <1>8, <1>9, <1>10, <1>11, <1>12,
       <1>13, <1>14, <1>15 DEF ClientStep

LEMMA PreviewType == ASSUME TypeOK, PreviewStep PROVE TypeOK'
  <1>0. /\ cam \in CamState /\ WakeClient \in ClState
        /\ PreviewPcs = {"top", "stopping", "wait", "grab", "requeue", "show", "record",
                         "grabRecord", "deliver", "exit", "done", "crashed"}
    BY WakeTypes DEF TypeOK, PreviewPcs
  <1>g. ASSUME NEW frame, Grabbed(frame) PROVE pt' \in PtState
    BY <1>0, <1>g, PtGoes DEF Grabbed, TypeOK
  <1>1. CASE PreviewTop
    BY <1>0, <1>1, PtGoes DEF PreviewTop, TypeOK
  <1>2. CASE PreviewStop
    <2>1. cam' \in CamState
      BY <1>0, <1>2, UninitType, StreamingType DEF PreviewStop
    <2> QED
      BY <1>0, <1>2, <2>1, PtGoes DEF PreviewStop, TypeOK
  <1>3. CASE PreviewExit
    <2>1. cam' \in CamState
      BY <1>0, <1>3, UninitType, StreamingType DEF PreviewExit
    <2> QED
      BY <1>0, <1>3, <2>1, PtGoes DEF PreviewExit, TypeOK
  <1>4. CASE PreviewGrab
    <2>1. cam' \in CamState
      BY <1>0, <1>4, DequeuedType DEF PreviewGrab
    <2>2. pt' \in PtState
      BY <1>0, <1>g, <1>4, PtGoes DEF PreviewGrab, TypeOK
    <2> QED
      BY <1>4, <2>1, <2>2 DEF PreviewGrab, TypeOK
  <1>5. CASE PreviewRequeue
    BY <1>0, <1>g, <1>5, EnqueuedType DEF PreviewRequeue, TypeOK
  <1>6. CASE PreviewShow
    BY <1>0, <1>6, PtGoes DEF PreviewShow, TypeOK
  <1>7. CASE PreviewRecord
    BY <1>0, <1>7, PtGoes DEF PreviewRecord, TypeOK
  <1>8. CASE PreviewGrabRecord
    <2>1. cam' \in CamState
      BY <1>0, <1>8, DequeuedType DEF PreviewGrabRecord
    <2>2. pt' \in PtState
      <3>1. \A i \in cam.queued : i \in Bufs
        BY <1>0 DEF CamState
      <3>2. pt \in PtState /\ {"crashed", "deliver"} \subseteq PreviewPcs
        BY <1>0 DEF TypeOK
      <3>3. /\ [pt EXCEPT !.pc = "crashed"] \in PtState
            /\ \A i \in cam.queued : [pt EXCEPT !.pc = "deliver", !.index = i] \in PtState
        BY <3>1, <3>2, PtGoes
      <3> QED
        BY <1>8, <3>3 DEF PreviewGrabRecord
    <2> QED
      BY <1>8, <2>1, <2>2 DEF PreviewGrabRecord, TypeOK
  <1>9. CASE PreviewDeliver
    <2>0. pt.index \in Bufs
      BY DEF TypeOK, PtState
    <2>1. [cam EXCEPT !.index = pt.index] \in CamState
      BY <1>0, <2>0 DEF CamState
    <2>2. cam' \in CamState
      BY <1>0, <1>9, <2>1, EnqueuedType DEF PreviewDeliver
    <2>3. rec' \in RecState
      <3> DEFINE marks == rec.mRecordBufferState \cup {pt.index}
      <3>1. marks \in SUBSET Bufs /\ rec.held \cup {pt.index} \in SUBSET Bufs
        BY <2>0 DEF TypeOK, RecState
      <3>2. \A h \in SUBSET Bufs :
              /\ [rec EXCEPT !.mRecordBufferState = marks] \in RecState
              /\ [rec EXCEPT !.mRecordBufferState = marks, !.held = h] \in RecState
        BY <3>1 DEF TypeOK, RecState
      <3> QED
        BY <1>9, <3>1, <3>2 DEF PreviewDeliver
    <2> QED
      BY <1>0, <1>9, <2>2, <2>3, PtGoes DEF PreviewDeliver, TypeOK
  <1> QED
    BY <1>1, <1>2, <1>3, <1>4, <1>5, <1>6, <1>7, <1>8, <1>9 DEF PreviewStep

LEMMA PictureType == ASSUME TypeOK, PictureStep PROVE TypeOK'
  <1> USE DEF TypeOK, PicturePcs
  <1>0. cam \in CamState
    OBVIOUS
  <1>1. CASE PictureConfigure
    BY <1>1 DEF PictureConfigure
  <1>2. CASE PictureMap
    <2>1. BufferMap(cam, 1, 1) \in CamState /\ BufferMapFails(cam, 1, 0) \in CamState
      <3>1. 0 \in Bufs /\ 1 \in 1 .. NB_BUFFER
        BY BufferAssumption DEF Bufs
      <3> QED
        BY <1>0, <3>1, BufferMapType, BufferMapFailsType
    <2> QED
      BY <1>2, <2>1 DEF PictureMap
  <1>3. CASE PictureStream
    <2>1. cam' \in CamState
      BY <1>0, <1>3, StreamingType, UninitType, CloseType DEF PictureStream
    <2> QED
      BY <1>3, <2>1 DEF PictureStream
  <1>4. CASE PictureGrab
    BY <1>4 DEF PictureGrab
  <1>5. CASE PictureClose
    <2>1. cam' \in CamState
      BY <1>0, <1>5, UninitType, StreamingType DEF PictureClose
    <2> QED
      BY <1>5, <2>1 DEF PictureClose
  <1> QED
    BY <1>1, <1>2, <1>3, <1>4, <1>5 DEF PictureStep

(* Every variable keeps its type, whatever the driver refuses and whatever  *)
(* the client does: the buffers' numbers stay below NB_BUFFER.              *)
THEOREM TypeCorrect == Spec => []TypeOK
  <1>1. TypeOK /\ [Next]_vars => TypeOK'
    <2> SUFFICES ASSUME TypeOK, [Next]_vars PROVE TypeOK'
      OBVIOUS
    <2>1. CASE UNCHANGED vars
      BY <2>1 DEF vars, TypeOK
    <2> QED
      BY <2>1, CallType, ClientType, PreviewType, PictureType DEF Next
  <1> QED
    BY InitType, <1>1, PTL DEF Spec

-----------------------------------------------------------------------------
(* release(): an invariant of the calls' places, for every client.          *)

LEMMA InitJoins == Init => ReleaseJoins
  BY DEF Init, ReleaseJoins, PictureRuns

LEMMA CallJoins == ASSUME TypeOK, ReleaseJoins, Call PROVE ReleaseJoins'
  <1> USE DEF ReleaseJoins, Begins, Ready, PictureRuns
  <1>0. cl \in ClState /\ hw \in HwState /\ pt \in PtState
    BY DEF TypeOK
  <1>1. ASSUME NEW w \in BOOLEAN, SetPreviewWindow(w) PROVE ReleaseJoins'
    BY <1>0, <1>1 DEF SetPreviewWindow, ClState, HwState
  <1>2. CASE StartPreview
    BY <1>0, <1>2 DEF StartPreview, ClState
  <1>3. ASSUME NEW c \in {"stopPreview", "takePicture"}, StopPreview(c) PROVE ReleaseJoins'
    BY <1>0, <1>3 DEF StopPreview, ClState
  <1>4. CASE CancelPicture
    BY <1>0, <1>4 DEF CancelPicture, ClState
  <1>5. CASE StartRecording
    BY <1>0, <1>5 DEF StartRecording, ClState
  <1>6. CASE StopRecording
    BY <1>0, <1>6 DEF StopRecording, ClState
  <1>7. ASSUME NEW i \in Bufs, ReleaseRecordingFrame(i) PROVE ReleaseJoins'
    BY <1>0, <1>7 DEF ReleaseRecordingFrame, ClState
  <1>8. CASE Release
    BY <1>0, <1>8 DEF Release, ClState, HwState
  <1> QED
    BY <1>1, <1>2, <1>3, <1>4, <1>5, <1>6, <1>7, <1>8 DEF Call

LEMMA ClientJoins == ASSUME TypeOK, ReleaseJoins, ClientStep PROVE ReleaseJoins'
  <1> USE DEF ReleaseJoins, Return, PictureRuns
  <1>0. cam \in CamState /\ cl \in ClState /\ hw \in HwState /\ pt \in PtState
    BY DEF TypeOK
  <1>1. CASE StartPreviewLocked
    BY <1>0, <1>1 DEF StartPreviewLocked, ClState, HwState
  <1>2. CASE StartConfigure
    BY <1>0, <1>2 DEF StartConfigure, ClState
  <1>3. CASE StartMap
    BY <1>0, <1>3 DEF StartMap, ClState
  <1>4. CASE StartStream
    BY <1>0, <1>4 DEF StartStream, WakePreview, ClState, HwState
  <1>5. CASE StopPreviewLocked
    BY <1>0, <1>5 DEF StopPreviewLocked, Stopped, WakePreview, ClState, HwState
  <1>6. CASE StopPreviewWoken
    BY <1>0, <1>6 DEF StopPreviewWoken, Stopped, ClState
  <1>7. CASE TakePicture
    BY <1>0, <1>7 DEF TakePicture, ClState
  <1>8. CASE JoinPicture
    BY <1>0, <1>8 DEF JoinPicture, ClState
  <1>9. CASE StartRecordingLocked
    BY <1>0, <1>9 DEF StartRecordingLocked, ClState
  <1>10. CASE StopRecordingLocked
    BY <1>0, <1>10 DEF StopRecordingLocked, ClState
  <1>11. CASE ReleaseFrameIndex
    BY <1>0, <1>11 DEF ReleaseFrameIndex, ClState
  <1>12. CASE ReleaseFrameQueue
    BY <1>0, <1>12 DEF ReleaseFrameQueue, ClState
  <1>13. CASE ReleaseFrameClear
    BY <1>0, <1>13 DEF ReleaseFrameClear, ClState
  <1>14. CASE JoinPreview
    BY <1>0, <1>14 DEF JoinPreview, ClState
  <1>15. CASE CloseCamera
    <2>1. ~cam'.open
      BY <1>0, <1>15, UninitType, CloseType DEF CloseCamera
    <2> QED
      BY <1>0, <1>15, <2>1 DEF CloseCamera, ClState
  <1> QED
    BY <1>1, <1>2, <1>3, <1>4, <1>5, <1>6, <1>7, <1>8, <1>9, <1>10, <1>11, <1>12,
       <1>13, <1>14, <1>15 DEF ClientStep

(* The preview thread that has exited does nothing, and else only wakes a   *)
(* client.                                                                  *)
LEMMA PreviewMoves ==
  ASSUME PreviewStep
  PROVE  pt.pc # "done" /\ hw' = hw /\ qt' = qt /\ (cl' = cl \/ cl' = WakeClient)
  BY DEF PreviewStep, PreviewTop, PreviewStop, PreviewExit, PreviewGrab, PreviewRequeue,
         PreviewShow, PreviewRecord, PreviewGrabRecord, PreviewDeliver

(* The picture thread changes its place and the camera.                     *)
LEMMA PictureMoves ==
  ASSUME PictureStep
  PROVE  qt # "idle" /\ UNCHANGED <<hw, rec, cl, pt>>
  BY DEF PictureStep, PictureConfigure, PictureMap, PictureStream, PictureGrab, PictureClose

LEMMA ThreadJoins ==
  ASSUME TypeOK, ReleaseJoins, PreviewStep \/ PictureStep
  PROVE  ReleaseJoins'
  <1>0. cl \in ClState
    BY DEF TypeOK
  <1>1. CASE PreviewStep
    BY <1>0, <1>1, PreviewMoves DEF ReleaseJoins, PictureRuns, WakeClient, ClState
  <1>2. CASE PictureStep
    BY <1>2, PictureMoves DEF ReleaseJoins, PictureRuns
  <1> QED
    BY <1>1, <1>2

LEMMA Joins == Spec => []ReleaseJoins
  <1>1. TypeOK /\ ReleaseJoins /\ [Next]_vars => ReleaseJoins'
    <2> SUFFICES ASSUME TypeOK, ReleaseJoins, [Next]_vars PROVE ReleaseJoins'
      OBVIOUS
    <2>1. CASE UNCHANGED vars
      BY <2>1 DEF vars, ReleaseJoins, PictureRuns
    <2> QED
      BY <2>1, CallJoins, ClientJoins, ThreadJoins DEF Next
  <1> QED
    BY InitJoins, <1>1, TypeCorrect, PTL DEF Spec

(* When release() has returned no thread of the HAL is left and the device  *)
(* is closed, whatever calls came before and wherever they met the threads. *)
THEOREM ReleaseLeavesNothing == Spec => []ReleasedIsQuiet
  <1>1. ReleaseJoins => ReleasedIsQuiet
    BY DEF ReleaseJoins, ReleasedIsQuiet
  <1> QED
    BY <1>1, Joins, PTL

-----------------------------------------------------------------------------
(* The hand-over of the driver, for a client that waits until the preview   *)
(* thread sleeps for the first time and does not start the preview while a  *)
(* picture is taken.                                                        *)

Considerate == "early" \notin Races /\ "picture" \notin Races

LEMMA InitHandOver == Init => HandOver
  BY DEF Init, HandOver, PictureRuns

LEMMA CallHandOver ==
  ASSUME Considerate, TypeOK, ReleaseJoins, HandOver, Call
  PROVE  HandOver'
  <1> USE DEF HandOver, Begins, Ready, PictureRuns, May
  <1>0. cl \in ClState /\ hw \in HwState /\ pt \in PtState
    BY DEF TypeOK
  <1>1. ASSUME NEW w \in BOOLEAN, SetPreviewWindow(w) PROVE HandOver'
    <2>1. ~hw.mExitPreviewThread
      BY <1>1 DEF SetPreviewWindow, ReleaseJoins
    <2> QED
      BY <1>0, <1>1, <2>1 DEF SetPreviewWindow, Considerate, ClState, HwState
  <1>2. CASE StartPreview
    BY <1>0, <1>2 DEF StartPreview, Considerate, ClState
  <1>3. ASSUME NEW c \in {"stopPreview", "takePicture"}, StopPreview(c) PROVE HandOver'
    BY <1>0, <1>3 DEF StopPreview, Considerate, ClState
  <1>4. CASE CancelPicture
    BY <1>0, <1>4 DEF CancelPicture, Considerate, ClState
  <1>5. CASE StartRecording
    BY <1>0, <1>5 DEF StartRecording, Considerate, ClState
  <1>6. CASE StopRecording
    BY <1>0, <1>6 DEF StopRecording, Considerate, ClState
  <1>7. ASSUME NEW i \in Bufs, ReleaseRecordingFrame(i) PROVE HandOver'
    BY <1>0, <1>7 DEF ReleaseRecordingFrame, Considerate, ClState
  <1>8. CASE Release
    BY <1>0, <1>8 DEF Release, WakePreview, Considerate, ClState, HwState, PtState
  <1> QED
    BY <1>1, <1>2, <1>3, <1>4, <1>5, <1>6, <1>7, <1>8 DEF Call

LEMMA ClientHandOver ==
  ASSUME TypeOK, ReleaseJoins, HandOver, ClientStep
  PROVE  HandOver'
  <1> USE DEF HandOver, Return, PictureRuns
  <1>0. cl \in ClState /\ hw \in HwState /\ pt \in PtState
    BY DEF TypeOK
  <1>1. CASE StartPreviewLocked
    BY <1>0, <1>1 DEF StartPreviewLocked, ClState, HwState
  <1>2. CASE StartConfigure
    BY <1>0, <1>2 DEF StartConfigure, ClState
  <1>3. CASE StartMap
    BY <1>0, <1>3 DEF StartMap, ClState
  <1>4. CASE StartStream
    BY <1>0, <1>4 DEF StartStream, WakePreview, ClState, HwState, PtState
  <1>5. CASE StopPreviewLocked
    <2>1. ~hw.mExitPreviewThread
      BY <1>5 DEF StopPreviewLocked, ReleaseJoins
    <2> QED
      BY <1>0, <1>5, <2>1 DEF StopPreviewLocked, Stopped, WakePreview, ClState, HwState, PtState
  <1>6. CASE StopPreviewWoken
    BY <1>0, <1>6 DEF StopPreviewWoken, Stopped, ClState
  <1>7. CASE TakePicture
    BY <1>0, <1>7 DEF TakePicture, ClState
  <1>8. CASE JoinPicture
    BY <1>0, <1>8 DEF JoinPicture, ClState
  <1>9. CASE StartRecordingLocked
    BY <1>0, <1>9 DEF StartRecordingLocked, ClState
  <1>10. CASE StopRecordingLocked
    BY <1>0, <1>10 DEF StopRecordingLocked, ClState
  <1>11. CASE ReleaseFrameIndex
    BY <1>0, <1>11 DEF ReleaseFrameIndex, ClState
  <1>12. CASE ReleaseFrameQueue
    BY <1>0, <1>12 DEF ReleaseFrameQueue, ClState
  <1>13. CASE ReleaseFrameClear
    BY <1>0, <1>13 DEF ReleaseFrameClear, ClState
  <1>14. CASE JoinPreview
    BY <1>0, <1>14 DEF JoinPreview, ClState
  <1>15. CASE CloseCamera
    BY <1>0, <1>15 DEF CloseCamera, ClState
  <1> QED
    BY <1>1, <1>2, <1>3, <1>4, <1>5, <1>6, <1>7, <1>8, <1>9, <1>10, <1>11, <1>12,
       <1>13, <1>14, <1>15 DEF ClientStep

LEMMA PreviewHandOver ==
  ASSUME TypeOK, HandOver, PreviewStep
  PROVE  HandOver'
  <1> USE DEF HandOver, PictureRuns
  <1>0. cl \in ClState /\ pt \in PtState
    BY DEF TypeOK
  <1>g. ASSUME NEW frame, Grabbed(frame), pt.pc # "wait", pt.pc \notin {"top", "stopping"},
               UNCHANGED <<hw, cl, qt>>
        PROVE  HandOver'
    BY <1>0, <1>g DEF Grabbed, PtState
  <1>1. CASE PreviewTop
    BY <1>0, <1>1 DEF PreviewTop, PtState
  <1>2. CASE PreviewStop
    BY <1>0, <1>2 DEF PreviewStop, WakeClient, PtState, ClState
  <1>3. CASE PreviewExit
    BY <1>0, <1>3 DEF PreviewExit, PtState
  <1>4. CASE PreviewGrab
    BY <1>0, <1>g, <1>4 DEF PreviewGrab, PtState
  <1>5. CASE PreviewRequeue
    BY <1>0, <1>g, <1>5 DEF PreviewRequeue, PtState
  <1>6. CASE PreviewShow
    BY <1>0, <1>6 DEF PreviewShow, PtState
  <1>7. CASE PreviewRecord
    BY <1>0, <1>7 DEF PreviewRecord, PtState
  <1>8. CASE PreviewGrabRecord
    BY <1>0, <1>8 DEF PreviewGrabRecord, PtState
  <1>9. CASE PreviewDeliver
    BY <1>0, <1>9 DEF PreviewDeliver, PtState
  <1> QED
    BY <1>1, <1>2, <1>3, <1>4, <1>5, <1>6, <1>7, <1>8, <1>9 DEF PreviewStep

LEMMA PictureHandOver ==
  ASSUME HandOver, PictureStep
  PROVE  HandOver'
  BY PictureMoves DEF HandOver, PictureRuns

LEMMA HandOverHolds == ASSUME Considerate PROVE Spec => []HandOver
  <1>1. TypeOK /\ ReleaseJoins /\ HandOver /\ [Next]_vars => HandOver'
    <2> SUFFICES ASSUME TypeOK, ReleaseJoins, HandOver, [Next]_vars PROVE HandOver'
      OBVIOUS
    <2>1. CASE UNCHANGED vars
      BY <2>1 DEF vars, HandOver, PictureRuns
    <2> QED
      BY <2>1, CallHandOver, ClientHandOver, PreviewHandOver, PictureHandOver DEF Next
  <1> QED
    BY InitHandOver, <1>1, TypeCorrect, Joins, PTL DEF Spec

(* With such a client only one of the caller, the preview thread and the    *)
(* picture thread ever works on the driver, although none of V4L2Camera's   *)
(* functions takes a mutex and the picture thread never holds one.          *)
THEOREM DriverHandedOver == ASSUME Considerate PROVE Spec => []DeviceExclusive
  <1>1. TypeOK /\ ReleaseJoins /\ HandOver => DeviceExclusive
    <2> SUFFICES ASSUME TypeOK, ReleaseJoins, HandOver PROVE DeviceExclusive
      OBVIOUS
    <2>1. pt \in PtState
      BY DEF TypeOK
    <2> QED
      BY <2>1 DEF ReleaseJoins, HandOver, DeviceExclusive, PictureRuns, PtState
  <1> QED
    BY <1>1, TypeCorrect, Joins, HandOverHolds, PTL

-----------------------------------------------------------------------------

(* The client may change the window or disable VIDEO_FRAME at any moment.    *)
Orderly == Races \subseteq {"window", "message"}

LEMMA OrderlyConsiderate == Orderly => Considerate
  BY DEF Orderly, Considerate

-----------------------------------------------------------------------------
(* When frames are recorded: only while a preview runs that nobody stops;    *)
(* with mRecordingLock the thread finds it so until it lets go; no frame is  *)
(* in the thread's hands while one comes back.                               *)
RecordingOrder ==
  /\ pt.pc \in {"exit", "done"} => hw.mExitPreviewThread
  /\ pt.pc = "stopping" => ~hw.mPreviewRunning \/ hw.mExitPreviewThread
  /\ pt.pc \in {"grabRecord", "deliver"} => rec.mRecordingEnabled
  /\ FrameInHand => ~FrameComesBack
  /\ FrameComesBack => rec.mRecordingEnabled
  /\ cl.call \in {"stopPreview", "takePicture", "startRecording", "release"}
       => ~rec.mRecordingEnabled
  /\ cl.call = "startRecording" => hw.mPreviewRunning
  /\ cl.pc = "stopwait" => cl.call \in {"stopPreview", "takePicture"}
  /\ rec.mRecordingEnabled => hw.mPreviewRunning
  /\ ~rec.mRecordingEnabled => rec.held = {} /\ rec.mRecordBufferState = {}

LEMMA InitOrder == Init => RecordingOrder
  BY DEF Init, RecordingOrder, FrameInHand, FrameComesBack

LEMMA CallOrder ==
  ASSUME Orderly, TypeOK, ReleaseJoins, RecordingOrder, Call
  PROVE  RecordingOrder'
  <1> USE DEF RecordingOrder, Begins, Ready, FrameInHand, FrameComesBack, May, Orderly
  <1>0. cl \in ClState /\ hw \in HwState /\ pt \in PtState /\ rec \in RecState
    BY DEF TypeOK
  <1>1. ASSUME NEW w \in BOOLEAN, SetPreviewWindow(w) PROVE RecordingOrder'
    BY <1>0, <1>1 DEF SetPreviewWindow, ClState, HwState
  <1>2. CASE StartPreview
    BY <1>0, <1>2 DEF StartPreview, ClState
  <1>3. ASSUME NEW c \in {"stopPreview", "takePicture"}, StopPreview(c)
        PROVE  RecordingOrder'
    BY <1>0, <1>3 DEF StopPreview, NotRecording, ClState
  <1>4. CASE CancelPicture
    BY <1>0, <1>4 DEF CancelPicture, ClState
  <1>5. CASE StartRecording
    BY <1>0, <1>5 DEF StartRecording, ClState
  <1>6. CASE StopRecording
    BY <1>0, <1>6 DEF StopRecording, ClState, RecState
  <1>7. ASSUME NEW i \in Bufs, ReleaseRecordingFrame(i) PROVE RecordingOrder'
    BY <1>0, <1>7 DEF ReleaseRecordingFrame, ClState, RecState
  <1>8. CASE Release
    BY <1>0, <1>8 DEF Release, NotRecording, WakePreview, ClState, HwState, PtState
  <1> QED
    BY <1>1, <1>2, <1>3, <1>4, <1>5, <1>6, <1>7, <1>8 DEF Call

LEMMA ClientOrder ==
  ASSUME Orderly, TypeOK, ReleaseJoins, RecordingOrder, ClientStep
  PROVE  RecordingOrder'
  <1> USE DEF RecordingOrder, Return, FrameInHand, FrameComesBack
  <1>0. cl \in ClState /\ hw \in HwState /\ pt \in PtState /\ rec \in RecState
    BY DEF TypeOK
  <1>1. CASE StartPreviewLocked
    BY <1>0, <1>1 DEF StartPreviewLocked, PreviewLockFree, ClState, HwState
  <1>2. CASE StartConfigure
    BY <1>0, <1>2 DEF StartConfigure, ClState
  <1>3. CASE StartMap
    BY <1>0, <1>3 DEF StartMap, ClState
  <1>4. CASE StartStream
    BY <1>0, <1>4 DEF StartStream, WakePreview, ClState, HwState, PtState
  <1>5. CASE StopPreviewLocked
    BY <1>0, <1>5 DEF StopPreviewLocked, Stopped, WakePreview, ClState, HwState, PtState
  <1>6. CASE StopPreviewWoken
    BY <1>0, <1>6 DEF StopPreviewWoken, Stopped, ClState
  <1>7. CASE TakePicture
    BY <1>0, <1>7 DEF TakePicture, ClState
  <1>8. CASE JoinPicture
    BY <1>0, <1>8 DEF JoinPicture, ClState
  <1>9. CASE StartRecordingLocked
    BY <1>0, <1>9 DEF StartRecordingLocked, ClState, RecState
  <1>10. CASE StopRecordingLocked
    BY <1>0, <1>10 DEF StopRecordingLocked, RecordingLockFree, May, Orderly, ClState, RecState
  <1>11. CASE ReleaseFrameIndex
    BY <1>0, <1>11 DEF ReleaseFrameIndex, ClState
  <1>12. CASE ReleaseFrameQueue
    BY <1>0, <1>12 DEF ReleaseFrameQueue, ClState
  <1>13. CASE ReleaseFrameClear
    BY <1>0, <1>13 DEF ReleaseFrameClear, ClState, RecState
  <1>14. CASE JoinPreview
    BY <1>0, <1>14 DEF JoinPreview, ClState
  <1>15. CASE CloseCamera
    BY <1>0, <1>15 DEF CloseCamera, ClState
  <1> QED
    BY <1>1, <1>2, <1>3, <1>4, <1>5, <1>6, <1>7, <1>8, <1>9, <1>10, <1>11, <1>12,
       <1>13, <1>14, <1>15 DEF ClientStep

LEMMA PreviewOrder ==
  ASSUME Orderly, TypeOK, RecordingOrder, PreviewStep
  PROVE  RecordingOrder'
  <1> USE DEF RecordingOrder, FrameInHand, FrameComesBack, May, Orderly
  <1>0. cl \in ClState /\ pt \in PtState /\ rec \in RecState
    BY DEF TypeOK
  <1>g. ASSUME NEW frame, Grabbed(frame), UNCHANGED <<hw, rec, cl, qt>>
        PROVE  RecordingOrder'
    BY <1>0, <1>g DEF Grabbed, PtState
  <1>1. CASE PreviewTop
    BY <1>0, <1>1 DEF PreviewTop, PtState
  <1>2. CASE PreviewStop
    BY <1>0, <1>2 DEF PreviewStop, WakeClient, PtState, ClState
  <1>3. CASE PreviewExit
    BY <1>0, <1>3 DEF PreviewExit, PtState
  <1>4. CASE PreviewGrab
    BY <1>0, <1>g, <1>4 DEF PreviewGrab, PtState
  <1>5. CASE PreviewRequeue
    BY <1>0, <1>g, <1>5 DEF PreviewRequeue, PtState
  <1>6. CASE PreviewShow
    BY <1>0, <1>6 DEF PreviewShow, PtState
  <1>7. CASE PreviewRecord
    BY <1>0, <1>7 DEF PreviewRecord, PtState
  <1>8. CASE PreviewGrabRecord
    BY <1>0, <1>8 DEF PreviewGrabRecord, PtState
  <1>9. CASE PreviewDeliver
    BY <1>0, <1>9 DEF PreviewDeliver, PtState, RecState
  <1> QED
    BY <1>1, <1>2, <1>3, <1>4, <1>5, <1>6, <1>7, <1>8, <1>9 DEF PreviewStep

LEMMA PictureOrder ==
  ASSUME RecordingOrder, PictureStep
  PROVE  RecordingOrder'
  BY PictureMoves DEF RecordingOrder, FrameInHand, FrameComesBack

LEMMA OrderHolds == ASSUME Orderly PROVE Spec => []RecordingOrder
  <1>1. TypeOK /\ ReleaseJoins /\ RecordingOrder /\ [Next]_vars => RecordingOrder'
    <2> SUFFICES ASSUME TypeOK, ReleaseJoins, RecordingOrder, [Next]_vars
                 PROVE  RecordingOrder'
      OBVIOUS
    <2>1. CASE UNCHANGED vars
      BY <2>1 DEF vars, RecordingOrder, FrameInHand, FrameComesBack
    <2> QED
      BY <2>1, CallOrder, ClientOrder, PreviewOrder, PictureOrder DEF Next
  <1> QED
    BY InitOrder, <1>1, TypeCorrect, Joins, PTL DEF Spec

-----------------------------------------------------------------------------
(* What the wrapper knows of the stream. Only a picture's is unknown to it.  *)
StreamKnown ==
  /\ cam.isStreaming => cam.open /\ cam.streaming
  /\ cam.streaming /\ ~cam.isStreaming => qt \in {"grab", "close", "crashed"}
  /\ pt.pc = "done" => ~cam.isStreaming

LEMMA UninitFields ==
  ASSUME NEW c \in CamState, NEW d \in Uninits(c)
  PROVE  /\ d \in CamState
         /\ d.open = c.open /\ d.streaming = c.streaming
         /\ d.isStreaming = c.isStreaming /\ d.allocated = c.allocated
         /\ d.queued \subseteq c.queued /\ (~c.streaming => d.queued = c.queued)
  <1>1. CASE ~c.open
    BY <1>1 DEF Uninits
  <1>2. CASE c.open
    <2>1. PICK s \in SUBSET c.queued :
            d = [c EXCEPT !.queued = s, !.pending = 0] /\ (~c.streaming => s = c.queued)
      BY <1>2 DEF Uninits, DqFails
    <2> QED
      BY <2>1, UninitType DEF CamState
  <1> QED
    BY <1>1, <1>2

(* The fields of a camera that starts and stops.                             *)
LEMMA StreamFields ==
  ASSUME NEW c \in CamState, NEW m \in {0, 1}
  PROVE  /\ StartStreaming(c, m).queued = c.queued
         /\ StartStreaming(c, m).allocated = c.allocated
         /\ StartStreaming(c, m).index = c.index
         /\ StartStreaming(c, m).open = c.open
         /\ c.isStreaming => StartStreaming(c, m) = c
         /\ ~c.isStreaming => /\ StartStreaming(c, m).streaming
                              /\ StartStreaming(c, m).isStreaming <=> m = 0
         /\ StopStreaming(c, m).allocated = c.allocated
         /\ StopStreaming(c, m).open = c.open
         /\ ~StopStreaming(c, m).isStreaming
         /\ IF c.isStreaming \/ m = 1
              THEN ~StopStreaming(c, m).streaming /\ StopStreaming(c, m).queued = {}
              ELSE StopStreaming(c, m) = c
  BY DEF StartStreaming, StopStreaming, CamState

LEMMA CloseFields ==
  ASSUME NEW c \in CamState
  PROVE  /\ ~Close(c).open /\ ~Close(c).streaming /\ Close(c).queued = {}
         /\ Close(c).allocated = {} /\ Close(c).isStreaming = c.isStreaming
  BY DEF Close, CamState

LEMMA MapFields ==
  ASSUME NEW c \in CamState, NEW m, NEW n
  PROVE  /\ BufferMap(c, m, n).queued = 0 .. n - 1
         /\ BufferMap(c, m, n).allocated = Buffers(m)
         /\ BufferMap(c, m, n).open = c.open /\ BufferMap(c, m, n).streaming = c.streaming
         /\ BufferMap(c, m, n).isStreaming = c.isStreaming
         /\ BufferMapFails(c, m, n).queued = 0 .. n - 1
         /\ BufferMapFails(c, m, n).allocated = Buffers(m)
         /\ BufferMapFails(c, m, n).open = c.open
         /\ BufferMapFails(c, m, n).streaming = c.streaming
         /\ BufferMapFails(c, m, n).isStreaming = c.isStreaming
  BY DEF BufferMap, BufferMapFails, CamState

(* Buffers move and the flags stay.                                          *)
SameFlags(c, d) ==
  d.open = c.open /\ d.streaming = c.streaming /\ d.isStreaming = c.isStreaming

LEMMA DequeuedFields ==
  ASSUME NEW c \in CamState, NEW i
  PROVE  /\ Dequeued(c, i).queued = c.queued \ {i} /\ Dequeued(c, i).index = i
         /\ Dequeued(c, i).allocated = c.allocated
         /\ SameFlags(c, Dequeued(c, i))
  BY DEF Dequeued, SameFlags, CamState

LEMMA EnqueuedFields ==
  ASSUME NEW c \in CamState
  PROVE  /\ EnqueueCounted(c).queued = IF QbufWorks(c, c.index) THEN c.queued \cup {c.index}
                                                             ELSE c.queued
         /\ EnqueueCounted(c).index = c.index
         /\ EnqueueCounted(c).allocated = c.allocated
         /\ SameFlags(c, EnqueueCounted(c))
  BY DEF EnqueueCounted, Enqueued, SameFlags, CamState

LEMMA ReleaseAllFields ==
  ASSUME cam \in CamState, NEW s, NEW c \in ReleaseAll(s)
  PROVE  /\ SameFlags(cam, c) /\ c.allocated = cam.allocated
         /\ c.queued = IF cam.open THEN cam.queued \cup (s \cap cam.allocated)
                                   ELSE cam.queued
  BY DEF ReleaseAll, SameFlags, CamState

LEMMA InitKnown == Init => StreamKnown
  BY DEF Init, Opened, StreamKnown

(* A step that leaves the flags and the threads' ends alone.                 *)
LEMMA KnownStays ==
  ASSUME StreamKnown, SameFlags(cam, cam'), qt' = qt,
         pt'.pc = "done" => pt.pc = "done"
  PROVE  StreamKnown'
  BY DEF StreamKnown, SameFlags

LEMMA SameCamera == ASSUME cam' = cam PROVE SameFlags(cam, cam')
  BY DEF SameFlags

LEMMA CallKnown ==
  ASSUME TypeOK, StreamKnown, Call
  PROVE  StreamKnown'
  <1>1. cam' = cam /\ qt' = qt /\ (pt' = pt \/ pt' = WakePreview)
    BY DEF Call, SetPreviewWindow, StartPreview, StopPreview, CancelPicture,
           StartRecording, StopRecording, ReleaseRecordingFrame, Release
  <1>2. pt'.pc = "done" => pt.pc = "done"
    BY <1>1 DEF WakePreview, TypeOK, PtState
  <1> QED
    BY <1>1, <1>2, KnownStays, SameCamera

LEMMA ClientKnown ==
  ASSUME TypeOK, ReleaseJoins, HandOver, StreamKnown, ClientStep
  PROVE  StreamKnown'
  <1>0. cam \in CamState /\ pt \in PtState
    BY DEF TypeOK
  <1>1. CASE StartPreviewLocked \/ StartConfigure \/ StopPreviewLocked \/ StopPreviewWoken
             \/ JoinPicture \/ StartRecordingLocked \/ ReleaseFrameClear \/ JoinPreview
    <2>1. cam' = cam /\ qt' = qt /\ (pt' = pt \/ pt' = WakePreview)
      BY <1>1 DEF StartPreviewLocked, StartConfigure, StopPreviewLocked, StopPreviewWoken,
             JoinPicture, StartRecordingLocked, ReleaseFrameClear, JoinPreview
    <2>2. pt'.pc = "done" => pt.pc = "done"
      BY <1>0, <2>1 DEF WakePreview, PtState
    <2> QED
      BY <2>1, <2>2, KnownStays, SameCamera
  <1>2. CASE StartMap
    BY <1>0, <1>2, MapFields DEF StartMap, StreamKnown
  <1>3. CASE StartStream
    <2>0. pt.pc = "wait" /\ qt' = qt
      BY <1>3 DEF StartStream, HandOver
    <2>1. CASE StreamAllowed(cam) /\ cam' = StartStreaming(cam, 0) /\ pt' = WakePreview
      BY <1>0, <2>0, <2>1, StreamFields DEF StreamAllowed, StreamKnown, WakePreview, PtState
    <2>2. CASE /\ ~StreamAllowed(cam) \/ ~cam.isStreaming
               /\ \E c \in Uninits(cam) : cam' = Close(c)
               /\ pt' = pt
      <3>1. PICK c \in Uninits(cam) : cam' = Close(c)
        BY <2>2
      <3>2. ~cam.isStreaming
        BY <2>2 DEF StreamAllowed
      <3> QED
        BY <1>0, <2>0, <2>2, <3>1, <3>2, UninitFields, CloseFields DEF StreamKnown
    <2> QED
      BY <1>3, <2>1, <2>2 DEF StartStream
  <1>4. CASE TakePicture
    BY <1>4 DEF TakePicture, StreamKnown, PictureRuns
  <1>5. CASE StopRecordingLocked
    <2>1. SameFlags(cam, cam')
      BY <1>0, <1>5, ReleaseAllFields DEF StopRecordingLocked
    <2> QED
      BY <1>5, <2>1, KnownStays DEF StopRecordingLocked
  <1>6. CASE ReleaseFrameIndex
    BY <1>0, <1>6, KnownStays DEF ReleaseFrameIndex, SameFlags, CamState
  <1>7. CASE ReleaseFrameQueue
    BY <1>0, <1>7, EnqueuedFields, KnownStays DEF ReleaseFrameQueue
  <1>8. CASE CloseCamera
    <2>1. PICK c \in Uninits(cam) : cam' = Close(c)
      BY <1>8 DEF CloseCamera
    <2>2. pt.pc = "done" /\ pt' = pt /\ qt' = qt
      BY <1>8 DEF CloseCamera, ReleaseJoins
    <2> QED
      BY <1>0, <2>1, <2>2, UninitFields, CloseFields DEF StreamKnown
  <1> QED
    BY <1>1, <1>2, <1>3, <1>4, <1>5, <1>6, <1>7, <1>8 DEF ClientStep

(* Stopping the camera leaves no stream the wrapper knows of, and none that  *)
(* it does not, unless that is a picture's.                                  *)
LEMMA UninitStops ==
  ASSUME TypeOK, StreamKnown, NEW c \in Uninits(cam), NEW m \in {0, 1},
         m = 1 \/ ~PictureRuns
  PROVE  LET d == StopStreaming(c, m) IN
         /\ ~d.isStreaming /\ ~d.streaming
         /\ d.allocated = cam.allocated
         /\ d.queued = {} \/ d.queued = cam.queued
  <1>1. cam \in CamState /\ c \in CamState
    BY UninitFields DEF TypeOK
  <1>2. c.isStreaming = cam.isStreaming /\ c.streaming = cam.streaming
        /\ c.allocated = cam.allocated /\ (~cam.streaming => c.queued = cam.queued)
    BY <1>1, UninitFields
  <1> QED
    BY <1>1, <1>2, StreamFields DEF StreamKnown, PictureRuns

LEMMA PreviewKnown ==
  ASSUME TypeOK, HandOver, StreamKnown, PreviewStep
  PROVE  StreamKnown'
  <1>0. cam \in CamState /\ pt \in PtState
    BY DEF TypeOK
  <1>g. ASSUME NEW frame, Grabbed(frame) PROVE pt'.pc # "done"
    BY <1>0, <1>g DEF Grabbed, PtState
  <1>1. CASE PreviewTop \/ PreviewShow \/ PreviewRecord
    BY <1>0, <1>1 DEF PreviewTop, PreviewShow, PreviewRecord, StreamKnown, PtState
  <1>2. CASE PreviewStop \/ PreviewExit
    <2>1. PICK c \in Uninits(cam) : cam' = StopStreaming(c, 0)
      BY <1>2 DEF PreviewStop, PreviewExit
    <2>2. ~PictureRuns
      BY <1>2 DEF PreviewStop, PreviewExit, HandOver
    <2> QED
      BY <2>1, <2>2, UninitStops DEF StreamKnown
  <1>3. CASE PreviewGrab
    <2>1. pt'.pc # "done" /\ qt' = qt
      BY <1>0, <1>g, <1>3 DEF PreviewGrab, PtState
    <2>2. SameFlags(cam, cam')
      BY <1>0, <1>3, DequeuedFields, SameCamera DEF PreviewGrab
    <2> QED
      BY <2>1, <2>2, KnownStays
  <1>4. CASE PreviewRequeue
    BY <1>0, <1>g, <1>4, EnqueuedFields, KnownStays DEF PreviewRequeue
  <1>5. CASE PreviewGrabRecord
    <2>1. pt'.pc # "done" /\ qt' = qt
      BY <1>0, <1>5 DEF PreviewGrabRecord, PtState
    <2>2. SameFlags(cam, cam')
      BY <1>0, <1>5, DequeuedFields, SameCamera DEF PreviewGrabRecord
    <2> QED
      BY <2>1, <2>2, KnownStays
  <1>6. CASE PreviewDeliver
    <2> DEFINE c == [cam EXCEPT !.index = pt.index]
    <2>1. c \in CamState /\ SameFlags(cam, c)
      BY <1>0 DEF CamState, PtState, SameFlags
    <2>2. cam' = cam \/ cam' = EnqueueCounted(c)
      BY <1>6 DEF PreviewDeliver
    <2>3. SameFlags(cam, cam')
      BY <2>1, <2>2, EnqueuedFields DEF SameFlags
    <2>4. pt'.pc # "done" /\ qt' = qt
      BY <1>0, <1>6 DEF PreviewDeliver, PtState
    <2> QED
      BY <2>3, <2>4, KnownStays
  <1> QED
    BY <1>1, <1>2, <1>3, <1>4, <1>5, <1>6 DEF PreviewStep

LEMMA PictureKnown ==
  ASSUME TypeOK, StreamKnown, PictureStep
  PROVE  StreamKnown'
  <1>0. cam \in CamState /\ pt' = pt
    BY PictureMoves DEF TypeOK
  <1>1. CASE PictureConfigure
    BY <1>0, <1>1 DEF PictureConfigure, StreamKnown
  <1>2. CASE PictureMap
    BY <1>0, <1>2, MapFields DEF PictureMap, StreamKnown
  <1>3. CASE PictureStream
    <2>1. CASE StreamAllowed(cam) /\ qt' = "grab" /\ cam' = StartStreaming(cam, 1)
      <3>1. CASE cam.isStreaming
        BY <1>0, <2>1, <3>1, StreamFields DEF StreamKnown
      <3>2. CASE ~cam.isStreaming
        BY <1>0, <2>1, <3>2, StreamFields DEF StreamKnown
      <3> QED
        BY <3>1, <3>2
    <2>2. CASE /\ ~StreamAllowed(cam) \/ ~cam.isStreaming
               /\ \E c \in Uninits(cam) : cam' = Close(c)
      <3>1. PICK c \in Uninits(cam) : cam' = Close(c)
        BY <2>2
      <3>2. ~cam.isStreaming
        BY <2>2 DEF StreamAllowed
      <3> QED
        BY <1>0, <3>1, <3>2, UninitFields, CloseFields DEF StreamKnown
    <2> QED
      BY <1>3, <2>1, <2>2 DEF PictureStream
  <1>4. CASE PictureGrab
    BY <1>0, <1>4 DEF PictureGrab, StreamKnown
  <1>5. CASE PictureClose
    <2>1. PICK c \in Uninits(cam) : cam' = StopStreaming(c, 1)
      BY <1>5 DEF PictureClose
    <2> QED
      BY <1>0, <2>1, UninitStops DEF StreamKnown
  <1> QED
    BY <1>1, <1>2, <1>3, <1>4, <1>5 DEF PictureStep

LEMMA KnownHolds == ASSUME Considerate PROVE Spec => []StreamKnown
  <1>1. TypeOK /\ ReleaseJoins /\ HandOver /\ StreamKnown /\ [Next]_vars => StreamKnown'
    <2> SUFFICES ASSUME TypeOK, ReleaseJoins, HandOver, StreamKnown, [Next]_vars
                 PROVE  StreamKnown'
      OBVIOUS
    <2>1. CASE UNCHANGED vars
      BY <2>1 DEF vars, StreamKnown
    <2> QED
      BY <2>1, CallKnown, ClientKnown, PreviewKnown, PictureKnown DEF Next
  <1> QED
    BY InitKnown, <1>1, TypeCorrect, Joins, HandOverHolds, PTL DEF Spec

-----------------------------------------------------------------------------
(* Where the buffers are. One that is out of the driver is in the thread's   *)
(* hands or with the client, never both, and can be given back: it is one of *)
(* those allocated, and the camera streams. The client's are marked, and     *)
(* what is marked besides is in the queue or on its way.                     *)
ClientHas == rec.held \cup ComingBack

BufferPlaces ==
  /\ cam.queued \subseteq cam.allocated
  /\ FrameInHand => cam.isStreaming
  /\ InHand \subseteq cam.allocated \ (cam.queued \cup rec.held)
  /\ ClientHas \subseteq (cam.allocated \cap rec.mRecordBufferState) \ cam.queued
  /\ rec.mRecordBufferState \subseteq ClientHas \cup cam.queued \cup InHand
  /\ rec.mRecordBufferState # {} => cam.isStreaming
  /\ FrameComesBack => cl.frame \notin rec.held
  /\ cl.pc = "queue" => cam.index = cl.frame

LEMMA InitPlaces == Init => BufferPlaces
  BY DEF Init, Opened, BufferPlaces, FrameInHand, FrameComesBack, InHand, ClientHas, ComingBack

(* The owners, by these sets.                                                *)
OwnerBy(h, k, q) ==
  [i \in Bufs |-> IF i \in h THEN "thread" ELSE IF i \in k THEN "client"
                  ELSE IF i \in q THEN "driver" ELSE "none"]

LEMMA OwnerIs == Owner = OwnerBy(InHand, ClientHas, cam.queued)
  BY DEF Owner, OwnerBy, ClientHas

LEMMA OwnerBecomes ==
  ASSUME NEW h, NEW k, NEW q, InHand' = h, ClientHas' = k, cam'.queued = q
  PROVE  Owner' = OwnerBy(h, k, q)
  BY DEF Owner, OwnerBy, ClientHas

LEMMA Parts ==
  ASSUME TypeOK, RecordingOrder, BufferPlaces
  PROVE  /\ InHand \subseteq Bufs /\ ClientHas \subseteq Bufs /\ cam.queued \subseteq Bufs
         /\ InHand \cap ClientHas = {} /\ InHand \cap cam.queued = {}
         /\ ClientHas \cap cam.queued = {}
  <1>1. cam \in CamState /\ cam.queued \subseteq Bufs /\ cam.allocated \subseteq Bufs
    BY DEF TypeOK, CamState
  <1>2. InHand # {} => FrameInHand
    BY DEF InHand, FrameInHand
  <1>3. ComingBack # {} => FrameComesBack
    BY DEF ComingBack, FrameComesBack
  <1> QED
    BY <1>1, <1>2, <1>3 DEF BufferPlaces, RecordingOrder, ClientHas

LEMMA OwnersOf ==
  ASSUME TypeOK, RecordingOrder, BufferPlaces
  PROVE  /\ Ownership!Of("thread") = InHand /\ Ownership!Of("client") = ClientHas
         /\ Ownership!Of("driver") = cam.queued
         /\ Ownership!Of("none") = Bufs \ (InHand \cup ClientHas \cup cam.queued)
  BY Parts, OwnerIs DEF Ownership!Of, OwnerBy

(* Each of the ways in which buffers change hands, from the sets before and  *)
(* after.                                                                    *)
LEMMA SetUpOwners ==
  ASSUME TypeOK, RecordingOrder, BufferPlaces, InHand = {}, ClientHas = {},
         cam.queued = {}, InHand' = {}, ClientHas' = {}, cam'.queued \subseteq Bufs
  PROVE  [Ownership!Next]_Owner
  <1>1. Owner = OwnerBy({}, {}, {}) /\ Owner' = OwnerBy({}, {}, cam'.queued)
    BY OwnerIs, OwnerBecomes
  <1>2. CASE cam'.queued = {}
    BY <1>1, <1>2
  <1>3. CASE cam'.queued # {}
    <2>1. Ownership!Moves(cam'.queued, "none", "driver")
      BY <1>1, <1>3, OwnersOf DEF Ownership!Moves, OwnerBy
    <2> QED
      BY <2>1, OwnersOf DEF Ownership!Next, Ownership!SetUp
  <1> QED
    BY <1>2, <1>3

LEMMA TakeDownOwners ==
  ASSUME TypeOK, RecordingOrder, BufferPlaces, InHand = {}, ClientHas = {},
         InHand' = {}, ClientHas' = {}, cam'.queued = {}
  PROVE  [Ownership!Next]_Owner
  <1>1. Owner = OwnerBy({}, {}, cam.queued) /\ Owner' = OwnerBy({}, {}, {})
    BY OwnerIs, OwnerBecomes
  <1>2. CASE cam.queued = {}
    BY <1>1, <1>2
  <1>3. CASE cam.queued # {}
    <2>1. Ownership!Moves(Ownership!Of("driver"), "driver", "none")
      BY <1>1, <1>3, OwnersOf DEF Ownership!Moves, OwnerBy
    <2> QED
      BY <2>1, OwnersOf DEF Ownership!Next, Ownership!TakeDown
  <1> QED
    BY <1>2, <1>3

LEMMA GrabOwners ==
  ASSUME TypeOK, RecordingOrder, BufferPlaces, NEW i \in cam.queued,
         InHand = {}, InHand' = {i}, ClientHas' = ClientHas,
         cam'.queued = cam.queued \ {i}
  PROVE  [Ownership!Next]_Owner
  <1>1. /\ Owner = OwnerBy({}, ClientHas, cam.queued)
        /\ Owner' = OwnerBy({i}, ClientHas, cam.queued \ {i})
    BY OwnerIs, OwnerBecomes
  <1>2. Ownership!Moves({i}, "driver", "thread")
    BY <1>1, OwnersOf, Parts DEF Ownership!Moves, OwnerBy
  <1>3. i \in Bufs
    BY Parts
  <1> QED
    BY <1>2, <1>3, OwnersOf DEF Ownership!Next, Ownership!Grab

LEMMA RequeueOwners ==
  ASSUME TypeOK, RecordingOrder, BufferPlaces, InHand # {}, InHand' = {},
         ClientHas' = ClientHas, cam'.queued = cam.queued \cup InHand
  PROVE  [Ownership!Next]_Owner
  <1>1. /\ Owner = OwnerBy(InHand, ClientHas, cam.queued)
        /\ Owner' = OwnerBy({}, ClientHas, cam.queued \cup InHand)
    BY OwnerIs, OwnerBecomes
  <1>2. Ownership!Moves(Ownership!Of("thread"), "thread", "driver")
    BY <1>1, OwnersOf, Parts DEF Ownership!Moves, OwnerBy
  <1> QED
    BY <1>2 DEF Ownership!Next, Ownership!Requeue

LEMMA DeliverOwners ==
  ASSUME TypeOK, RecordingOrder, BufferPlaces, InHand # {}, InHand' = {},
         ClientHas' = ClientHas \cup InHand, cam'.queued = cam.queued
  PROVE  [Ownership!Next]_Owner
  <1>1. /\ Owner = OwnerBy(InHand, ClientHas, cam.queued)
        /\ Owner' = OwnerBy({}, ClientHas \cup InHand, cam.queued)
    BY OwnerIs, OwnerBecomes
  <1>2. Ownership!Moves(Ownership!Of("thread"), "thread", "client")
    BY <1>1, OwnersOf, Parts DEF Ownership!Moves, OwnerBy
  <1> QED
    BY <1>2 DEF Ownership!Next, Ownership!Deliver

LEMMA ComeBackOwners ==
  ASSUME TypeOK, RecordingOrder, BufferPlaces, NEW s \in SUBSET ClientHas,
         InHand' = InHand, ClientHas' = ClientHas \ s, cam'.queued = cam.queued \cup s
  PROVE  [Ownership!Next]_Owner
  <1>1. /\ Owner = OwnerBy(InHand, ClientHas, cam.queued)
        /\ Owner' = OwnerBy(InHand, ClientHas \ s, cam.queued \cup s)
    BY OwnerIs, OwnerBecomes
  <1>2. CASE s = {}
    BY <1>1, <1>2
  <1>3. CASE s # {}
    <2>1. Ownership!Moves(s, "client", "driver")
      BY <1>1, <1>3, OwnersOf, Parts DEF Ownership!Moves, OwnerBy
    <2>2. s \in SUBSET Bufs
      BY Parts
    <2> QED
      BY <2>1, <2>2 DEF Ownership!Next, Ownership!ComeBack
  <1> QED
    BY <1>2, <1>3

-----------------------------------------------------------------------------
(* Every step keeps the places, and is one of BufferOwnership or none.       *)
Known == TypeOK /\ ReleaseJoins /\ HandOver /\ RecordingOrder /\ StreamKnown
Keeps == BufferPlaces' /\ [Ownership!Next]_Owner

(* A step that moves no buffer.                                              *)
LEMMA NothingMoves ==
  ASSUME BufferPlaces, cam'.queued = cam.queued, cam'.allocated = cam.allocated,
         cam.isStreaming => cam'.isStreaming, InHand' = InHand,
         FrameInHand' => FrameInHand, UNCHANGED <<rec.held, rec.mRecordBufferState>>,
         ComingBack' = ComingBack,
         FrameComesBack' => cl'.frame \notin rec.held,
         cl'.pc = "queue" => cam'.index = cl'.frame
  PROVE  Keeps
  <1>1. ClientHas' = ClientHas
    BY DEF ClientHas
  <1>2. Owner' = Owner
    BY <1>1, OwnerIs, OwnerBecomes
  <1>3. BufferPlaces'
    BY <1>1 DEF BufferPlaces
  <1> QED
    BY <1>2, <1>3 DEF Keeps

(* A step of a client that is neither in nor at releaseRecordingFrame, or of *)
(* a thread, that leaves the camera alone.                                   *)
LEMMA SameCameraKeeps ==
  ASSUME BufferPlaces, cam' = cam, InHand' = InHand, FrameInHand' => FrameInHand,
         UNCHANGED <<rec.held, rec.mRecordBufferState>>,
         cl' = cl \/ (~FrameComesBack /\ ~FrameComesBack')
  PROVE  Keeps
  <1>1. ComingBack' = ComingBack
    BY DEF ComingBack, FrameComesBack
  <1>2. /\ FrameComesBack' => cl'.frame \notin rec.held
        /\ cl'.pc = "queue" => cam'.index = cl'.frame
    BY DEF BufferPlaces, FrameComesBack
  <1> QED
    BY <1>1, <1>2, NothingMoves

(* The camera is set up or taken down while no frame is recorded.            *)
LEMMA QuietKeeps ==
  ASSUME TypeOK, TypeOK', RecordingOrder, BufferPlaces, rec.mRecordBufferState = {},
         rec' = rec, ~FrameInHand, ~FrameInHand', ~FrameComesBack',
         cam'.queued \subseteq cam'.allocated,
         cam.queued = {} \/ cam'.queued = {} \/ cam'.queued = cam.queued
  PROVE  Keeps
  <1>1. InHand = {} /\ InHand' = {} /\ ComingBack' = {}
    BY DEF InHand, FrameInHand, ComingBack, FrameComesBack
  <1>2. ClientHas = {} /\ rec.held = {}
    BY DEF BufferPlaces, ClientHas
  <1>3. ClientHas' = {}
    BY <1>1, <1>2 DEF ClientHas
  <1>4. BufferPlaces'
    <2>1. cl'.pc # "queue"
      BY DEF FrameComesBack
    <2> QED
      BY <1>1, <1>3, <2>1 DEF BufferPlaces
  <1>5. cam'.queued \subseteq Bufs
    BY DEF TypeOK, CamState
  <1>6. [Ownership!Next]_Owner
    <2>1. CASE cam.queued = {}
      BY <1>1, <1>2, <1>3, <1>5, <2>1, SetUpOwners
    <2>2. CASE cam'.queued = {}
      BY <1>1, <1>2, <1>3, <2>2, TakeDownOwners
    <2>3. CASE cam'.queued = cam.queued
      BY <1>1, <1>2, <1>3, <2>3, OwnerIs, OwnerBecomes
    <2> QED
      BY <2>1, <2>2, <2>3
  <1> QED
    BY <1>4, <1>6 DEF Keeps

LEMMA CallKeeps == ASSUME Orderly, Known, BufferPlaces, Call PROVE Keeps
  <1>0. cl \in ClState /\ pt \in PtState /\ rec \in RecState /\ cam \in CamState
    BY DEF Known, TypeOK
  <1>1. ASSUME NEW w \in BOOLEAN, SetPreviewWindow(w) PROVE Keeps
    <2>1. cl' = cl \/ (~FrameComesBack /\ ~FrameComesBack')
      BY <1>0, <1>1 DEF SetPreviewWindow, Ready, FrameComesBack, ClState
    <2>2. cam' = cam /\ rec' = rec /\ pt' = pt
      BY <1>1 DEF SetPreviewWindow
    <2> QED
      BY <2>1, <2>2, SameCameraKeeps DEF InHand, FrameInHand
  <1>2. CASE StartPreview \/ StopPreview("stopPreview") \/ StopPreview("takePicture")
             \/ CancelPicture \/ StartRecording
    <2>1. ~FrameComesBack /\ ~FrameComesBack'
      <3>1. CASE StartPreview
        BY <1>0, <3>1 DEF StartPreview, Begins, Ready, FrameComesBack, ClState
      <3>2. ASSUME NEW c, StopPreview(c) PROVE ~FrameComesBack /\ ~FrameComesBack'
        BY <1>0, <3>2 DEF StopPreview, Begins, Ready, FrameComesBack, ClState
      <3>3. CASE CancelPicture
        BY <1>0, <3>3 DEF CancelPicture, Begins, Ready, FrameComesBack, ClState
      <3>4. CASE StartRecording
        BY <1>0, <3>4 DEF StartRecording, Begins, Ready, FrameComesBack, ClState
      <3> QED
        BY <1>2, <3>1, <3>2, <3>3, <3>4
    <2>2. cam' = cam /\ rec' = rec /\ pt' = pt
      BY <1>2 DEF StartPreview, StopPreview, CancelPicture, StartRecording
    <2> QED
      BY <2>1, <2>2, SameCameraKeeps DEF InHand, FrameInHand
  <1>3. CASE StopRecording
    <2>1. UNCHANGED <<rec.held, rec.mRecordBufferState>>
      BY <1>0, <1>3 DEF StopRecording, RecState
    <2> QED
      BY <1>0, <1>3, <2>1, SameCameraKeeps
      DEF StopRecording, Begins, Ready, InHand, FrameInHand, FrameComesBack, ClState
  <1>4. ASSUME NEW i \in Bufs, ReleaseRecordingFrame(i) PROVE Keeps
    <2>1. ~FrameInHand /\ i \in rec.held /\ cl.pc = "idle" /\ pt' = pt /\ cam' = cam
      BY <1>4 DEF ReleaseRecordingFrame, Ready, May, Orderly
    <2>2. cl'.pc = "index" /\ cl'.frame = i
      BY <1>0, <1>4 DEF ReleaseRecordingFrame, ClState
    <2>3. rec'.held = rec.held \ {i} /\ rec'.mRecordBufferState = rec.mRecordBufferState
      BY <1>0, <1>4 DEF ReleaseRecordingFrame, RecState
    <2>4. InHand = {} /\ InHand' = {} /\ ComingBack = {} /\ ComingBack' = {i}
          /\ ~FrameInHand'
      BY <2>1, <2>2 DEF InHand, FrameInHand, ComingBack
    <2>5. ClientHas' = ClientHas
      BY <2>1, <2>3, <2>4 DEF ClientHas
    <2>6. Owner' = Owner
      BY <2>1, <2>4, <2>5, OwnerIs, OwnerBecomes
    <2>7. BufferPlaces'
      BY <2>1, <2>2, <2>3, <2>4, <2>5 DEF BufferPlaces
    <2> QED
      BY <2>6, <2>7 DEF Keeps
  <1>5. CASE Release
    <2>1. pt' = pt \/ (pt.pc = "wait" /\ pt'.pc = "top")
      BY <1>0, <1>5 DEF Release, WakePreview, PtState
    <2>2. InHand' = InHand /\ FrameInHand' = FrameInHand
      BY <1>5, <2>1 DEF Release, InHand, FrameInHand
    <2> QED
      BY <1>0, <1>5, <2>2, SameCameraKeeps
      DEF Release, Begins, Ready, FrameComesBack, ClState
  <1> QED
    BY <1>1, <1>2, <1>3, <1>4, <1>5 DEF Call

LEMMA WakeHands ==
  ASSUME pt \in PtState, pt' = pt \/ pt' = WakePreview, cam'.index = cam.index
  PROVE  InHand' = InHand /\ FrameInHand' = FrameInHand
  BY DEF WakePreview, InHand, FrameInHand, PtState

LEMMA ClientKeeps ==
  ASSUME Orderly, Known, Known', BufferPlaces, ClientStep
  PROVE  Keeps
  <1> USE DEF Known
  <1>0. cl \in ClState /\ pt \in PtState /\ rec \in RecState /\ cam \in CamState
    BY DEF TypeOK
  <1>1. CASE StartPreviewLocked \/ StartConfigure \/ StopPreviewLocked \/ StopPreviewWoken
             \/ TakePicture \/ JoinPicture \/ JoinPreview
    <2>1. ~FrameComesBack /\ ~FrameComesBack'
      BY <1>0, <1>1
      DEF StartPreviewLocked, StartConfigure, StopPreviewLocked, StopPreviewWoken,
          TakePicture, JoinPicture, JoinPreview, Stopped, Return, FrameComesBack, ClState
    <2>2. cam' = cam /\ rec' = rec /\ (pt' = pt \/ pt' = WakePreview)
      BY <1>1
      DEF StartPreviewLocked, StartConfigure, StopPreviewLocked, StopPreviewWoken,
          TakePicture, JoinPicture, JoinPreview
    <2> QED
      BY <1>0, <2>1, <2>2, WakeHands, SameCameraKeeps
  <1>2. CASE StartMap
    <2>1. /\ ~FrameInHand /\ ~FrameInHand' /\ ~FrameComesBack' /\ rec' = rec
      BY <1>0, <1>2 DEF StartMap, HandOver, FrameInHand, FrameComesBack, Return, ClState
    <2>2. CASE cam' = cam
      BY <1>2, <2>1, <2>2, SameCameraKeeps DEF StartMap, InHand, FrameInHand, FrameComesBack
    <2>3. CASE /\ BuffersAllowed(cam)
               /\ \/ cam' = BufferMap(cam, 0, NB_BUFFER)
                  \/ \E i \in Bufs : cam' = BufferMapFails(cam, 0, i)
      <3>1. cam.queued = {} /\ rec.mRecordBufferState = {}
        BY <2>3 DEF BuffersAllowed, FormatAllowed, BufferPlaces, StreamKnown
      <3>2. cam'.queued \subseteq cam'.allocated
        BY <1>0, <2>3, MapFields, BufferAssumption DEF Buffers, Bufs
      <3> QED
        BY <2>1, <3>1, <3>2, QuietKeeps
    <2> QED
      BY <1>2, <2>2, <2>3 DEF StartMap
  <1>3. CASE StartStream
    <2>1. /\ ~FrameInHand /\ ~FrameComesBack /\ ~FrameComesBack' /\ rec' = rec
          /\ pt' = pt \/ pt' = WakePreview
      BY <1>0, <1>3 DEF StartStream, HandOver, FrameInHand, FrameComesBack, Return, ClState
    <2>2. CASE cam' = StartStreaming(cam, 0)
      <3>1. /\ cam'.queued = cam.queued /\ cam'.allocated = cam.allocated
            /\ cam'.index = cam.index /\ (cam.isStreaming => cam'.isStreaming)
        BY <1>0, <2>2, StreamFields
      <3>2. ComingBack' = ComingBack /\ cl'.pc # "queue"
        BY <2>1 DEF ComingBack, FrameComesBack
      <3> QED
        BY <1>0, <2>1, <3>1, <3>2, WakeHands, NothingMoves
    <2>3. CASE /\ ~StreamAllowed(cam) \/ ~cam.isStreaming
               /\ \E c \in Uninits(cam) : cam' = Close(c)
               /\ pt' = pt
      <3>1. cam'.queued = {}
        BY <1>0, <2>3, UninitFields, CloseFields
      <3>2. rec.mRecordBufferState = {}
        BY <2>3 DEF StreamAllowed, BufferPlaces
      <3> QED
        BY <2>1, <2>3, <3>1, <3>2, QuietKeeps DEF FrameInHand
    <2> QED
      BY <1>3, <2>2, <2>3 DEF StartStream
  <1>4. CASE StartRecordingLocked
    <2>1. ~FrameComesBack /\ ~FrameComesBack'
      BY <1>0, <1>4 DEF StartRecordingLocked, Return, FrameComesBack, ClState
    <2>2. rec.mRecordBufferState = {} /\ rec'.mRecordBufferState = {} /\ rec'.held = rec.held
      BY <1>0, <1>4 DEF StartRecordingLocked, RecordingOrder, RecState
    <2> QED
      BY <1>4, <2>1, <2>2, SameCameraKeeps DEF StartRecordingLocked, InHand, FrameInHand
  <1>5. CASE StopRecordingLocked
    <2>1. ~FrameInHand /\ ~FrameComesBack /\ ~FrameComesBack' /\ pt' = pt
      BY <1>0, <1>5
      DEF StopRecordingLocked, Return, FrameComesBack, ClState, May, Orderly
    <2>2. rec'.held = {} /\ rec'.mRecordBufferState = {}
      BY <1>0, <1>5 DEF StopRecordingLocked, RecState, May, Orderly
    <2>3. /\ InHand = {} /\ InHand' = {} /\ ComingBack = {} /\ ComingBack' = {}
          /\ ~FrameInHand' /\ cl'.pc # "queue"
      BY <2>1 DEF InHand, FrameInHand, ComingBack, FrameComesBack
    <2>4. ClientHas = rec.held /\ ClientHas' = {}
      BY <2>2, <2>3 DEF ClientHas
    <2>5. /\ cam'.allocated = cam.allocated
          /\ cam'.queued = IF cam.open
                           THEN cam.queued \cup (rec.mRecordBufferState \cap cam.allocated)
                           ELSE cam.queued
      BY <1>0, <1>5, ReleaseAllFields DEF StopRecordingLocked
    <2>6. rec.mRecordBufferState # {} => cam.open
      BY DEF BufferPlaces, StreamKnown
    <2>7. cam'.queued = cam.queued \cup rec.held
      BY <2>3, <2>4, <2>5, <2>6 DEF BufferPlaces
    <2>8. BufferPlaces'
      BY <2>1, <2>2, <2>3, <2>4, <2>5, <2>7 DEF BufferPlaces
    <2>9. [Ownership!Next]_Owner
      BY <2>3, <2>4, <2>7, ComeBackOwners
    <2> QED
      BY <2>8, <2>9 DEF Keeps
  <1>6. CASE ReleaseFrameIndex
    <2>1. /\ cl.pc = "index" /\ cl'.pc = "queue" /\ cl'.frame = cl.frame /\ rec' = rec
          /\ pt' = pt
      BY <1>0, <1>6 DEF ReleaseFrameIndex, ClState
    <2>2. /\ cam'.index = cl.frame /\ cam'.queued = cam.queued
          /\ cam'.allocated = cam.allocated /\ cam'.isStreaming = cam.isStreaming
      BY <1>0, <1>6 DEF ReleaseFrameIndex, CamState
    <2>3. FrameComesBack /\ FrameComesBack' /\ ComingBack' = ComingBack
      BY <2>1 DEF FrameComesBack, ComingBack
    <2>4. ~FrameInHand /\ ~FrameInHand' /\ InHand = {} /\ InHand' = {}
      BY <2>1, <2>3 DEF RecordingOrder, FrameInHand, InHand
    <2>5. cl'.frame \notin rec.held
      BY <2>1, <2>3 DEF BufferPlaces
    <2> QED
      BY <2>1, <2>2, <2>3, <2>4, <2>5, NothingMoves
  <1>7. CASE ReleaseFrameQueue
    <2>1. /\ cl.pc = "queue" /\ cl'.pc = "clear" /\ cl'.frame = cl.frame /\ rec' = rec
          /\ pt' = pt
      BY <1>0, <1>7 DEF ReleaseFrameQueue, ClState
    <2>2. /\ FrameComesBack /\ FrameComesBack' /\ ComingBack = {cl.frame}
          /\ ComingBack' = {}
      BY <2>1 DEF FrameComesBack, ComingBack
    <2>3. ~FrameInHand /\ ~FrameInHand' /\ InHand = {} /\ InHand' = {}
      BY <2>1, <2>2 DEF RecordingOrder, FrameInHand, InHand
    <2>4. /\ cl.frame \in ClientHas /\ cl.frame \notin rec.held /\ cam.index = cl.frame
          /\ cl.frame \in cam.allocated \ cam.queued /\ cam.isStreaming
      BY <2>1, <2>2 DEF BufferPlaces, ClientHas
    <2>5. QbufWorks(cam, cam.index)
      BY <2>4 DEF QbufWorks, StreamKnown
    <2>6. /\ cam'.queued = cam.queued \cup {cl.frame} /\ cam'.allocated = cam.allocated
          /\ cam'.isStreaming
      BY <1>0, <1>7, <2>4, <2>5, EnqueuedFields DEF ReleaseFrameQueue, SameFlags
    <2>7. ClientHas' = ClientHas \ {cl.frame}
      BY <2>1, <2>2, <2>4 DEF ClientHas
    <2>8. BufferPlaces'
      BY <2>1, <2>3, <2>4, <2>6, <2>7 DEF BufferPlaces
    <2>9. {cl.frame} \in SUBSET ClientHas
      BY <2>4
    <2>10. [Ownership!Next]_Owner
      BY <2>3, <2>6, <2>7, <2>9, ComeBackOwners
    <2> QED
      BY <2>8, <2>10 DEF Keeps
  <1>8. CASE ReleaseFrameClear
    <2>1. /\ cl.pc = "clear" /\ ~FrameComesBack' /\ cl'.pc # "queue"
          /\ cam' = cam /\ pt' = pt
      BY <1>0, <1>8 DEF ReleaseFrameClear, Return, FrameComesBack, ClState
    <2>2. /\ rec'.held = rec.held
          /\ rec'.mRecordBufferState = rec.mRecordBufferState \ {cl.frame}
      BY <1>0, <1>8 DEF ReleaseFrameClear, RecState
    <2>3. ComingBack = {} /\ ComingBack' = {}
      BY <2>1 DEF ComingBack, FrameComesBack
    <2>4. ClientHas' = ClientHas /\ ClientHas = rec.held
      BY <2>2, <2>3 DEF ClientHas
    <2>5. InHand' = InHand /\ FrameInHand' = FrameInHand /\ cl.frame \notin rec.held
      BY <2>1 DEF InHand, FrameInHand, FrameComesBack, BufferPlaces
    <2>6. BufferPlaces'
      BY <2>1, <2>2, <2>4, <2>5, Parts DEF BufferPlaces
    <2>7. Owner' = Owner
      BY <2>1, <2>4, <2>5, OwnerIs, OwnerBecomes
    <2> QED
      BY <2>6, <2>7 DEF Keeps
  <1>9. CASE CloseCamera
    <2>1. /\ pt.pc = "done" /\ pt' = pt /\ rec' = rec /\ ~FrameComesBack'
      BY <1>0, <1>9 DEF CloseCamera, ReleaseJoins, FrameComesBack, ClState
    <2>2. cam'.queued = {}
      BY <1>0, <1>9, UninitFields, CloseFields DEF CloseCamera
    <2>3. rec.mRecordBufferState = {}
      BY <2>1 DEF StreamKnown, BufferPlaces
    <2> QED
      BY <2>1, <2>2, <2>3, QuietKeeps DEF FrameInHand
  <1> QED
    BY <1>1, <1>2, <1>3, <1>4, <1>5, <1>6, <1>7, <1>8, <1>9 DEF ClientStep

(* A step of the preview thread that grabs no frame and gives none back.     *)
LEMMA GrabbedMoves ==
  ASSUME pt \in PtState, NEW frame, Grabbed(frame)
  PROVE  InHand' = {} /\ ~FrameInHand'
  BY DEF Grabbed, InHand, FrameInHand, PtState

LEMMA PreviewKeeps ==
  ASSUME Orderly, Known, Known', BufferPlaces, PreviewStep
  PROVE  Keeps
  <1> USE DEF Known
  <1>0. cl \in ClState /\ pt \in PtState /\ rec \in RecState /\ cam \in CamState
    BY DEF TypeOK
  <1>1. CASE PreviewTop \/ PreviewShow \/ PreviewRecord
    <2>1. /\ cam' = cam /\ rec' = rec /\ cl' = cl
          /\ InHand = {} /\ InHand' = {} /\ ~FrameInHand'
      <3>1. CASE PreviewTop
        BY <1>0, <3>1 DEF PreviewTop, InHand, FrameInHand, PtState
      <3>2. CASE PreviewShow
        BY <1>0, <3>2 DEF PreviewShow, InHand, FrameInHand, PtState
      <3>3. CASE PreviewRecord
        BY <1>0, <3>3 DEF PreviewRecord, InHand, FrameInHand, PtState
      <3> QED
        BY <1>1, <3>1, <3>2, <3>3
    <2> QED
      BY <2>1, SameCameraKeeps
  <1>2. CASE PreviewStop \/ PreviewExit
    <2>1. /\ pt.pc \in {"stopping", "exit"} /\ pt'.pc \in {"wait", "done"} /\ rec' = rec
          /\ cl' = cl \/ cl' = WakeClient
      BY <1>0, <1>2 DEF PreviewStop, PreviewExit, PtState
    <2>2. ~rec.mRecordingEnabled
      BY <2>1 DEF RecordingOrder, ReleaseJoins
    <2>3. rec.mRecordBufferState = {} /\ ~FrameComesBack
      BY <2>2 DEF RecordingOrder
    <2>4. ~FrameInHand /\ ~FrameInHand' /\ ~FrameComesBack'
      BY <1>0, <2>1, <2>3 DEF FrameInHand, FrameComesBack, WakeClient, ClState
    <2>5. PICK c \in Uninits(cam) : cam' = StopStreaming(c, 0)
      BY <1>2 DEF PreviewStop, PreviewExit
    <2>6. ~PictureRuns
      BY <2>1 DEF HandOver
    <2>7. /\ cam'.allocated = cam.allocated
          /\ cam'.queued = {} \/ cam'.queued = cam.queued
      BY <2>5, <2>6, UninitStops
    <2>8. cam'.queued \subseteq cam'.allocated
      BY <2>7 DEF BufferPlaces
    <2> QED
      BY <2>1, <2>3, <2>4, <2>7, <2>8, QuietKeeps
  <1>3. CASE PreviewGrab \/ PreviewGrabRecord
    <2>1. /\ pt.pc \in {"grab", "grabRecord"} /\ rec' = rec /\ cl' = cl
          /\ InHand = {} /\ ~FrameComesBack
      BY <1>3 DEF PreviewGrab, PreviewGrabRecord, May, Orderly, InHand
    <2>2. ComingBack' = ComingBack /\ ClientHas' = ClientHas /\ ~FrameComesBack'
      BY <2>1 DEF ComingBack, ClientHas, FrameComesBack
    <2>3. CASE cam' = cam /\ InHand' = {} /\ ~FrameInHand'
      BY <2>1, <2>3, SameCameraKeeps
    <2>4. ASSUME ~DqFails(cam), NEW i \in cam.queued, cam' = Dequeued(cam, i),
                 InHand' = {i}
          PROVE  Keeps
      <3>1. /\ cam'.queued = cam.queued \ {i} /\ cam'.allocated = cam.allocated
            /\ SameFlags(cam, cam')
        BY <1>0, <2>4, DequeuedFields
      <3>2. ~PictureRuns
        BY <2>1 DEF HandOver
      <3>3. cam.isStreaming /\ cam'.isStreaming
        BY <2>4, <3>1, <3>2 DEF DqFails, StreamKnown, PictureRuns, SameFlags
      <3>4. i \in cam.allocated /\ i \notin ClientHas /\ i \notin rec.held
        BY DEF BufferPlaces, ClientHas
      <3>5. BufferPlaces'
        BY <2>1, <2>2, <2>4, <3>1, <3>3, <3>4 DEF BufferPlaces, FrameComesBack
      <3>6. [Ownership!Next]_Owner
        BY <2>1, <2>2, <2>4, <3>1, GrabOwners
      <3> QED
        BY <3>5, <3>6 DEF Keeps
    <2>5. CASE PreviewGrab
      <3>1. CASE DqFails(cam) /\ Grabbed(FALSE) /\ cam' = cam
        BY <1>0, <2>3, <3>1, GrabbedMoves
      <3>2. ASSUME ~DqFails(cam), NEW i \in cam.queued, cam' = Dequeued(cam, i),
                   pt' = [pt EXCEPT !.pc = "requeue"]
            PROVE  Keeps
        <4>1. cam'.index = i
          BY <1>0, <3>2, DequeuedFields
        <4>2. InHand' = {i}
          BY <1>0, <3>2, <4>1 DEF InHand, PtState
        <4> QED
          BY <2>4, <3>2, <4>2
      <3> QED
        BY <2>5, <3>1, <3>2 DEF PreviewGrab
    <2>6. CASE PreviewGrabRecord
      <3>1. CASE cam' = cam /\ pt' = [pt EXCEPT !.pc = "crashed"]
        BY <1>0, <2>3, <3>1 DEF InHand, FrameInHand, PtState
      <3>2. ASSUME ~DqFails(cam), NEW i \in cam.queued, cam' = Dequeued(cam, i),
                   pt' = [pt EXCEPT !.pc = "deliver", !.index = i]
            PROVE  Keeps
        <4>1. InHand' = {i}
          BY <1>0, <3>2 DEF InHand, PtState
        <4> QED
          BY <2>4, <3>2, <4>1
      <3> QED
        BY <2>6, <3>1, <3>2 DEF PreviewGrabRecord
    <2> QED
      BY <1>3, <2>5, <2>6
  <1>4. CASE PreviewRequeue
    <2>1. /\ pt.pc = "requeue" /\ rec' = rec /\ cl' = cl /\ cam' = EnqueueCounted(cam)
          /\ InHand = {cam.index} /\ FrameInHand /\ InHand' = {} /\ ~FrameInHand'
      BY <1>0, <1>4, GrabbedMoves DEF PreviewRequeue, InHand, FrameInHand
    <2>2. ~FrameComesBack /\ ~FrameComesBack' /\ ClientHas' = ClientHas
      BY <2>1 DEF RecordingOrder, FrameComesBack, ClientHas, ComingBack
    <2>3. QbufWorks(cam, cam.index)
      BY <2>1 DEF QbufWorks, BufferPlaces, StreamKnown
    <2>4. /\ cam'.queued = cam.queued \cup InHand /\ cam'.allocated = cam.allocated
          /\ SameFlags(cam, cam')
      BY <1>0, <2>1, <2>3, EnqueuedFields
    <2>5. cam.isStreaming /\ cam'.isStreaming /\ cl'.pc # "queue"
      BY <2>1, <2>2, <2>4 DEF BufferPlaces, SameFlags, FrameComesBack
    <2>6. BufferPlaces'
      BY <2>1, <2>2, <2>4, <2>5, Parts DEF BufferPlaces
    <2>7. [Ownership!Next]_Owner
      BY <2>1, <2>2, <2>4, RequeueOwners
    <2> QED
      BY <2>6, <2>7 DEF Keeps
  <1>5. CASE PreviewDeliver
    <2>1. /\ pt.pc = "deliver" /\ cl' = cl
          /\ InHand = {pt.index} /\ FrameInHand /\ InHand' = {} /\ ~FrameInHand'
      BY <1>0, <1>5 DEF PreviewDeliver, InHand, FrameInHand, PtState
    <2>2. ~FrameComesBack /\ ~FrameComesBack' /\ ComingBack' = ComingBack
      BY <2>1 DEF RecordingOrder, FrameComesBack, ComingBack
    <2>3. rec'.mRecordBufferState = rec.mRecordBufferState \cup InHand
      BY <1>0, <1>5, <2>1 DEF PreviewDeliver, RecState
    <2>4. CASE rec.videoMsg
      <3>1. cam' = cam /\ rec'.held = rec.held \cup InHand
        BY <1>0, <1>5, <2>1, <2>4 DEF PreviewDeliver, RecState
      <3>2. ClientHas' = ClientHas \cup InHand
        BY <2>2, <3>1 DEF ClientHas
      <3>3. BufferPlaces'
        BY <2>1, <2>2, <2>3, <3>1, <3>2 DEF BufferPlaces, FrameComesBack
      <3>4. [Ownership!Next]_Owner
        BY <2>1, <3>1, <3>2, DeliverOwners
      <3> QED
        BY <3>3, <3>4 DEF Keeps
    <2>5. CASE ~rec.videoMsg
      <3> DEFINE c == [cam EXCEPT !.index = pt.index]
      <3>1. rec'.held = rec.held /\ cam' = EnqueueCounted(c)
        BY <1>0, <1>5, <2>5 DEF PreviewDeliver, RecState
      <3>2. /\ c \in CamState /\ SameFlags(cam, c) /\ c.index = pt.index
            /\ c.queued = cam.queued /\ c.allocated = cam.allocated
        BY <1>0 DEF CamState, PtState, SameFlags
      <3>3. QbufWorks(c, c.index)
        BY <2>1, <3>2 DEF QbufWorks, BufferPlaces, StreamKnown, SameFlags
      <3> HIDE DEF c
      <3>4. /\ cam'.queued = cam.queued \cup InHand /\ cam'.allocated = cam.allocated
            /\ SameFlags(cam, cam')
        BY <2>1, <3>1, <3>2, <3>3, EnqueuedFields DEF SameFlags
      <3>5. ClientHas' = ClientHas
        BY <2>2, <3>1 DEF ClientHas
      <3>6. cam.isStreaming /\ cam'.isStreaming /\ cl'.pc # "queue"
        BY <2>1, <2>2, <3>4 DEF BufferPlaces, SameFlags, FrameComesBack
      <3>7. BufferPlaces'
        BY <2>1, <2>2, <2>3, <3>1, <3>4, <3>5, <3>6, Parts DEF BufferPlaces
      <3>8. [Ownership!Next]_Owner
        BY <2>1, <3>4, <3>5, RequeueOwners
      <3> QED
        BY <3>7, <3>8 DEF Keeps
    <2> QED
      BY <2>4, <2>5
  <1> QED
    BY <1>1, <1>2, <1>3, <1>4, <1>5 DEF PreviewStep

LEMMA PictureKeeps ==
  ASSUME Orderly, Known, Known', BufferPlaces, PictureStep
  PROVE  Keeps
  <1> USE DEF Known
  <1>0. /\ UNCHANGED <<rec, cl, pt>> /\ cam \in CamState /\ PictureRuns
    BY PictureMoves DEF TypeOK, PictureRuns
  <1>1. CASE cam' = cam
    BY <1>0, <1>1, SameCameraKeeps DEF InHand, FrameInHand
  <1>2. ~rec.mRecordingEnabled
    BY <1>0 DEF HandOver, RecordingOrder
  <1>3. rec.mRecordBufferState = {} /\ ~FrameComesBack'
    BY <1>0, <1>2 DEF RecordingOrder, FrameComesBack
  <1>4. ~FrameInHand /\ ~FrameInHand'
    BY <1>0 DEF HandOver, FrameInHand
  <1>5. CASE PictureMap
    <2>1. CASE BuffersAllowed(cam)
      <3>1. CASE cam' = BufferMap(cam, 1, 1) \/ cam' = BufferMapFails(cam, 1, 0)
        <4>1. cam'.queued \subseteq {0} /\ cam'.allocated = {0}
          BY <1>0, <3>1, MapFields DEF Buffers
        <4> QED
          BY <1>0, <1>3, <1>4, <2>1, <4>1, QuietKeeps DEF BuffersAllowed
      <3> QED
        BY <1>1, <1>5, <3>1 DEF PictureMap
    <2> QED
      BY <1>1, <1>5, <2>1 DEF PictureMap
  <1>6. CASE PictureStream
    <2>1. CASE cam' = StartStreaming(cam, 1)
      <3>1. cam'.queued = cam.queued /\ cam'.allocated = cam.allocated
        BY <1>0, <2>1, StreamFields
      <3> QED
        BY <1>0, <1>3, <1>4, <3>1, QuietKeeps DEF BufferPlaces
    <2>2. CASE \E c \in Uninits(cam) : cam' = Close(c)
      <3>1. cam'.queued = {}
        BY <1>0, <2>2, UninitFields, CloseFields
      <3> QED
        BY <1>0, <1>3, <1>4, <3>1, QuietKeeps
    <2> QED
      BY <1>6, <2>1, <2>2 DEF PictureStream
  <1>7. CASE PictureClose
    <2>1. PICK c \in Uninits(cam) : cam' = StopStreaming(c, 1)
      BY <1>7 DEF PictureClose
    <2>2. /\ cam'.allocated = cam.allocated
          /\ cam'.queued = {} \/ cam'.queued = cam.queued
      BY <2>1, UninitStops
    <2>3. cam'.queued \subseteq cam'.allocated
      BY <2>2 DEF BufferPlaces
    <2> QED
      BY <1>0, <1>3, <1>4, <2>2, <2>3, QuietKeeps
  <1> QED
    BY <1>1, <1>5, <1>6, <1>7 DEF PictureStep, PictureConfigure, PictureGrab

-----------------------------------------------------------------------------
(* Every step from a state that the lemmas allow.                            *)
LEMMA StepKeeps ==
  ASSUME Orderly, Known, Known', BufferPlaces, [Next]_vars
  PROVE  Keeps
  <1>1. CASE UNCHANGED vars
    BY <1>1, SameCameraKeeps DEF vars, InHand, FrameInHand
  <1> QED
    BY <1>1, CallKeeps, ClientKeeps, PreviewKeeps, PictureKeeps DEF Next

LEMMA InitOwners == Init => Ownership!Init
  BY DEF Init, Opened, Ownership!Init, Owner, InHand, ComingBack

LEMMA KnownAlways == ASSUME Orderly PROVE Spec => []Known
  <1>1. TypeOK /\ ReleaseJoins /\ HandOver /\ RecordingOrder /\ StreamKnown => Known
    BY DEF Known
  <1>2. Considerate
    BY OrderlyConsiderate
  <1> QED
    BY <1>1, <1>2, TypeCorrect, Joins, HandOverHolds, OrderHolds, KnownHolds, PTL

(* As long as the client gives frames back and stops the preview when it may *)
(* (Orderly), every step of the camera HAL moves buffers only as             *)
(* BufferOwnership says: no frame is taken from the thread that looks at it  *)
(* or from the recording client, whatever the driver refuses.                *)
THEOREM OwnershipImplemented == ASSUME Orderly PROVE Spec => ImplementsOwnership
  <1>1. Init => BufferPlaces /\ Ownership!Init
    BY InitPlaces, InitOwners
  <1>2. Known /\ Known' /\ BufferPlaces /\ [Next]_vars
          => BufferPlaces' /\ [Ownership!Next]_Owner
    BY StepKeeps DEF Keeps
  <1> QED
    BY <1>1, <1>2, KnownAlways, PTL DEF Spec, ImplementsOwnership, Ownership!Spec

LEMMA PlacesHold == ASSUME Orderly PROVE Spec => []BufferPlaces
  <1>1. Known /\ Known' /\ BufferPlaces /\ [Next]_vars => BufferPlaces'
    BY StepKeeps DEF Keeps
  <1> QED
    BY <1>1, InitPlaces, KnownAlways, PTL DEF Spec

(* With such a client a frame that is with it, or on its way back, is marked *)
(* in mRecordBufferState, so that stopRecording finds it and no buffer is    *)
(* lost to the driver.                                                       *)
THEOREM HeldFramesAreMarked == ASSUME Orderly PROVE Spec => []HeldFramesMarked
  <1>1. BufferPlaces => HeldFramesMarked
    BY DEF BufferPlaces, ClientHas, HeldFramesMarked
  <1> QED
    BY <1>1, PlacesHold, PTL


-----------------------------------------------------------------------------
(* The driver streams for whoever works on frames: for the preview thread    *)
(* from its first look at the flags to its stop, and for a picture. A thread *)
(* that waits has stopped the camera.                                        *)
Working == {"grab", "requeue", "show", "record", "grabRecord", "deliver"}

StreamFollows ==
  /\ pt.pc = "wait" => ~cam.isStreaming
  /\ pt.pc \in Working => cam.isStreaming
  /\ pt.pc = "top" /\ hw.mPreviewRunning /\ ~hw.mExitPreviewThread => cam.isStreaming
  /\ qt = "stream" => cam.open /\ ~cam.streaming
  /\ qt \in {"grab", "close"} => cam.open
  /\ qt = "grab" => cam.streaming
  /\ qt # "crashed"

LEMMA InitFollows == Init => StreamFollows
  BY DEF Init, StreamFollows, Working

(* Who sets a picture up or takes it finds the preview thread asleep.        *)
LEMMA PictureAlone ==
  ASSUME HandOver, PictureRuns
  PROVE  /\ pt.pc = "wait" /\ ~hw.mPreviewRunning
         /\ cl.pc \notin {"configure", "map", "stream", "stopwait"}
  BY DEF HandOver

LEMMA CallFollows ==
  ASSUME Orderly, Known, StreamFollows, Call
  PROVE  StreamFollows'
  <1> USE DEF Known, StreamFollows, Working
  <1>0. pt \in PtState /\ hw \in HwState
    BY DEF TypeOK
  <1>1. ASSUME NEW w \in BOOLEAN, SetPreviewWindow(w) PROVE StreamFollows'
    BY <1>0, <1>1 DEF SetPreviewWindow, HwState
  <1>2. CASE Release
    BY <1>0, <1>2 DEF Release, WakePreview, PtState, HwState
  <1>3. ASSUME UNCHANGED <<cam, hw, pt, qt>> PROVE StreamFollows'
    BY <1>3
  <1> QED
    BY <1>1, <1>2, <1>3 DEF Call, StartPreview, StopPreview, CancelPicture, StartRecording,
       StopRecording, ReleaseRecordingFrame

LEMMA ClientFollows ==
  ASSUME Orderly, Known, StreamFollows, ClientStep
  PROVE  StreamFollows'
  <1> USE DEF Known
  <1>0. cam \in CamState /\ pt \in PtState /\ hw \in HwState
    BY DEF TypeOK
  <1>f. ASSUME SameFlags(cam, cam'), UNCHANGED <<hw, pt, qt>> PROVE StreamFollows'
    BY <1>f DEF SameFlags, StreamFollows
  <1>1. CASE StartPreviewLocked
    BY <1>0, <1>1 DEF StartPreviewLocked, StreamFollows, HandOver, Working, HwState
  <1>2. CASE StartConfigure \/ StopPreviewWoken \/ JoinPicture \/ StartRecordingLocked
             \/ ReleaseFrameClear \/ JoinPreview
    BY <1>2, <1>f, SameCamera DEF StartConfigure, StopPreviewWoken, JoinPicture,
       StartRecordingLocked, ReleaseFrameClear, JoinPreview
  <1>3. CASE StartMap
    <2>1. SameFlags(cam, cam')
      BY <1>0, <1>3, MapFields, SameCamera DEF StartMap, SameFlags
    <2> QED
      BY <1>3, <1>f, <2>1 DEF StartMap
  <1>4. CASE StartStream
    <2>0. pt.pc = "wait" /\ qt' = qt /\ ~PictureRuns /\ ~cam.isStreaming
      BY <1>4, PictureAlone DEF StartStream, HandOver, StreamFollows
    <2>1. CASE cam' = StartStreaming(cam, 0) /\ pt' = WakePreview
      <3>1. cam'.isStreaming /\ pt'.pc = "top"
        BY <1>0, <2>0, <2>1, StreamFields DEF WakePreview, PtState
      <3> QED
        BY <2>0, <3>1 DEF StreamFollows, PictureRuns, Working
    <2>2. CASE (\E c \in Uninits(cam) : cam' = Close(c)) /\ pt' = pt
      <3>1. ~cam'.isStreaming
        BY <1>0, <2>0, <2>2, UninitFields, CloseFields
      <3> QED
        BY <2>0, <2>2, <3>1 DEF StreamFollows, PictureRuns, Working
    <2> QED
      BY <1>4, <2>1, <2>2 DEF StartStream
  <1>5. CASE StopPreviewLocked
    BY <1>0, <1>5 DEF StopPreviewLocked, StreamFollows, WakePreview, Working, PtState, HwState
  <1>6. CASE TakePicture
    BY <1>6 DEF TakePicture, StreamFollows
  <1>7. CASE StopRecordingLocked
    BY <1>0, <1>7, <1>f, ReleaseAllFields DEF StopRecordingLocked
  <1>8. CASE ReleaseFrameIndex
    BY <1>0, <1>8, <1>f DEF ReleaseFrameIndex, SameFlags, CamState
  <1>9. CASE ReleaseFrameQueue
    BY <1>0, <1>9, <1>f, EnqueuedFields DEF ReleaseFrameQueue
  <1>10. CASE CloseCamera
    BY <1>10 DEF CloseCamera, ReleaseJoins, PictureRuns, StreamFollows, Working
  <1> QED
    BY <1>1, <1>2, <1>3, <1>4, <1>5, <1>6, <1>7, <1>8, <1>9, <1>10 DEF ClientStep

(* A step of the preview thread that works on a frame leaves the flags.      *)
LEMMA WorkFlags ==
  ASSUME TypeOK, PreviewStep, pt.pc \in Working
  PROVE  SameFlags(cam, cam') /\ pt'.pc \in Working \cup {"top", "crashed"}
  <1>0. cam \in CamState /\ pt \in PtState
    BY DEF TypeOK
  <1>g. ASSUME NEW frame, Grabbed(frame) PROVE pt'.pc \in Working \cup {"top", "crashed"}
    BY <1>0, <1>g DEF Grabbed, Working, PtState
  <1>1. CASE PreviewGrab
    <2>1. SameFlags(cam, cam')
      BY <1>0, <1>1, DequeuedFields, SameCamera DEF PreviewGrab
    <2> QED
      BY <1>0, <1>1, <1>g, <2>1 DEF PreviewGrab, Working, PtState
  <1>2. CASE PreviewRequeue
    BY <1>0, <1>2, <1>g, EnqueuedFields DEF PreviewRequeue
  <1>3. CASE PreviewShow \/ PreviewRecord
    BY <1>0, <1>3, SameCamera DEF PreviewShow, PreviewRecord, Working, PtState
  <1>4. CASE PreviewGrabRecord
    <2>1. SameFlags(cam, cam')
      BY <1>0, <1>4, DequeuedFields, SameCamera DEF PreviewGrabRecord
    <2> QED
      BY <1>0, <1>4, <2>1 DEF PreviewGrabRecord, Working, PtState
  <1>5. CASE PreviewDeliver
    <2> DEFINE c == [cam EXCEPT !.index = pt.index]
    <2>1. c \in CamState /\ SameFlags(cam, c)
      BY <1>0 DEF CamState, PtState, SameFlags
    <2>2. cam' = cam \/ cam' = EnqueueCounted(c)
      BY <1>5 DEF PreviewDeliver
    <2>3. SameFlags(cam, cam')
      BY <2>1, <2>2, EnqueuedFields DEF SameFlags
    <2> QED
      BY <1>0, <1>5, <2>3 DEF PreviewDeliver, Working, PtState
  <1> QED
    BY <1>1, <1>2, <1>3, <1>4, <1>5
       DEF PreviewStep, PreviewTop, PreviewStop, PreviewExit, Working

(* The other steps of the preview thread.                                    *)
LEMMA PreviewElse ==
  ASSUME PreviewStep, pt.pc \notin Working
  PROVE  PreviewTop \/ PreviewStop \/ PreviewExit
  BY DEF PreviewStep, Working, PreviewGrab, PreviewRequeue, PreviewShow, PreviewRecord,
         PreviewGrabRecord, PreviewDeliver

LEMMA PreviewFollows ==
  ASSUME Orderly, Known, StreamFollows, PreviewStep
  PROVE  StreamFollows'
  <1> USE DEF Known
  <1>0. cam \in CamState /\ pt \in PtState /\ UNCHANGED <<hw, qt>>
    BY PreviewMoves DEF TypeOK
  <1>p. pt.pc # "wait" /\ qt = "idle"
    <2>1. pt.pc # "wait"
      BY DEF PreviewStep, PreviewTop, PreviewStop, PreviewExit, PreviewGrab, PreviewRequeue,
             PreviewShow, PreviewRecord, PreviewGrabRecord, PreviewDeliver
    <2> QED
      BY <2>1, PictureAlone DEF PictureRuns
  <1>1. CASE pt.pc \in Working
    BY <1>0, <1>1, <1>p, WorkFlags DEF StreamFollows, SameFlags, Working
  <1>2. CASE PreviewTop
    BY <1>0, <1>2, <1>p DEF PreviewTop, StreamFollows, Working, PtState
  <1>3. CASE PreviewStop \/ PreviewExit
    <2>1. PICK c \in Uninits(cam) : cam' = StopStreaming(c, 0)
      BY <1>3 DEF PreviewStop, PreviewExit
    <2>2. ~cam'.isStreaming
      BY <1>p, <2>1, UninitStops DEF PictureRuns
    <2>3. pt'.pc \in {"wait", "done"}
      BY <1>0, <1>3 DEF PreviewStop, PreviewExit, PtState
    <2> QED
      BY <1>0, <1>p, <2>2, <2>3 DEF StreamFollows, Working
  <1> QED
    BY <1>1, <1>2, <1>3, PreviewElse

LEMMA PictureFollows ==
  ASSUME Orderly, Known, StreamFollows, PictureStep
  PROVE  StreamFollows'
  <1> USE DEF Known
  <1>0. cam \in CamState /\ UNCHANGED <<hw, rec, cl, pt>> /\ pt.pc = "wait"
    BY PictureMoves, PictureAlone DEF TypeOK, PictureRuns
  <1>s. ~cam.isStreaming
    BY <1>0 DEF StreamFollows
  <1>f. ASSUME ~cam'.isStreaming, qt' = "idle" PROVE StreamFollows'
    BY <1>0, <1>f DEF StreamFollows, Working
  <1>1. CASE PictureConfigure
    BY <1>0, <1>1 DEF PictureConfigure, StreamFollows, Working
  <1>2. CASE PictureMap
    <2>1. CASE qt' = "idle"
      BY <1>0, <1>2, <1>f, <1>s, <2>1, MapFields DEF PictureMap
    <2>2. CASE BuffersAllowed(cam) /\ qt' = "stream" /\ cam' = BufferMap(cam, 1, 1)
      BY <1>0, <1>s, <2>2, MapFields
         DEF BuffersAllowed, FormatAllowed, StreamFollows, Working
    <2> QED
      BY <1>2, <2>1, <2>2 DEF PictureMap
  <1>3. CASE PictureStream
    <2>1. CASE qt' = "grab" /\ cam' = StartStreaming(cam, 1)
      BY <1>0, <1>3, <1>s, <2>1, StreamFields DEF PictureStream, StreamFollows, Working
    <2>2. CASE (\E c \in Uninits(cam) : cam' = Close(c)) /\ qt' = "idle"
      BY <1>0, <1>s, <1>f, <2>2, UninitFields, CloseFields
    <2> QED
      BY <1>3, <2>1, <2>2 DEF PictureStream
  <1>4. CASE PictureGrab
    BY <1>0, <1>4 DEF PictureGrab, DqFails, StreamFollows, Working
  <1>5. CASE PictureClose
    BY <1>0, <1>5, <1>f, UninitFields, StreamFields DEF PictureClose
  <1> QED
    BY <1>1, <1>2, <1>3, <1>4, <1>5 DEF PictureStep

LEMMA FollowsHolds == ASSUME Orderly PROVE Spec => []StreamFollows
  <1>1. Known /\ StreamFollows /\ [Next]_vars => StreamFollows'
    <2> SUFFICES ASSUME Known, StreamFollows, [Next]_vars PROVE StreamFollows'
      OBVIOUS
    <2>1. CASE UNCHANGED vars
      BY <2>1 DEF vars, StreamFollows
    <2> QED
      BY <2>1, CallFollows, ClientFollows, PreviewFollows, PictureFollows DEF Next
  <1> QED
    BY <1>1, InitFollows, KnownAlways, PTL DEF Spec

-----------------------------------------------------------------------------
(* No window is drawn into that is gone, and no frame used that was not      *)
(* delivered.                                                                *)
ShownInWindow ==
  /\ pt.pc = "show" => hw.mNativeWindow
  /\ pt.pc # "crashed"

(* Such a client leaves the window alone while frames are shown.             *)
KeepsWindow == Races \subseteq {"message"}

LEMMA KeepsWindowOrderly == KeepsWindow => Orderly
  BY DEF KeepsWindow, Orderly

LEMMA CallShown ==
  ASSUME KeepsWindow, Known, ShownInWindow, Call
  PROVE  ShownInWindow'
  <1> USE DEF Known, ShownInWindow
  <1>0. pt \in PtState /\ hw \in HwState
    BY DEF TypeOK
  <1>1. ASSUME NEW w \in BOOLEAN, SetPreviewWindow(w) PROVE ShownInWindow'
    <2>1. /\ pt' = pt /\ cl.pc = "idle" /\ pt.slept
          /\ ~hw.mPreviewRunning \/ hw.mPreviewStartDeferred
      BY <1>1 DEF SetPreviewWindow, Ready, May, KeepsWindow
    <2>2. ~hw.mExitPreviewThread
      BY <2>1 DEF ReleaseJoins
    <2>3. pt.pc = "wait"
      BY <2>1, <2>2 DEF HandOver
    <2> QED
      BY <2>1, <2>3
  <1>2. CASE Release
    BY <1>0, <1>2 DEF Release, WakePreview, PtState, HwState
  <1>3. ASSUME UNCHANGED <<hw, pt>> PROVE ShownInWindow'
    BY <1>3
  <1> QED
    BY <1>1, <1>2, <1>3 DEF Call, StartPreview, StopPreview, CancelPicture, StartRecording,
       StopRecording, ReleaseRecordingFrame

LEMMA ClientShown ==
  ASSUME TypeOK, ShownInWindow, ClientStep
  PROVE  ShownInWindow'
  <1>0. pt \in PtState /\ hw \in HwState
    BY DEF TypeOK
  <1>1. hw'.mNativeWindow = hw.mNativeWindow
    <2>1. CASE StartPreviewLocked
      BY <1>0, <2>1 DEF StartPreviewLocked, HwState
    <2>2. CASE StartStream
      BY <1>0, <2>2 DEF StartStream, HwState
    <2>3. CASE StopPreviewLocked
      BY <1>0, <2>3 DEF StopPreviewLocked, HwState
    <2>4. ASSUME hw' = hw PROVE hw'.mNativeWindow = hw.mNativeWindow
      BY <2>4
    <2> QED
      BY <2>1, <2>2, <2>3, <2>4 DEF ClientStep, StartConfigure, StartMap, StopPreviewWoken,
         TakePicture, JoinPicture, StartRecordingLocked, StopRecordingLocked,
         ReleaseFrameIndex, ReleaseFrameQueue, ReleaseFrameClear, JoinPreview, CloseCamera
  <1>2. pt' = pt \/ pt' = WakePreview
    BY DEF ClientStep, StartPreviewLocked, StartConfigure, StartMap, StartStream,
         StopPreviewLocked, StopPreviewWoken, TakePicture, JoinPicture, StartRecordingLocked,
         StopRecordingLocked, ReleaseFrameIndex, ReleaseFrameQueue, ReleaseFrameClear,
         JoinPreview, CloseCamera
  <1> QED
    BY <1>0, <1>1, <1>2 DEF WakePreview, ShownInWindow, PtState

(* A thread that works on frames is not refused one, and gives it back.      *)
LEMMA WorkSucceeds ==
  ASSUME Known, BufferPlaces, StreamFollows, pt.pc \in Working
  PROVE  ~DqFails(cam) /\ (pt.pc = "requeue" => QbufWorks(cam, cam.index))
  BY DEF Known, StreamKnown, StreamFollows, BufferPlaces, InHand, DqFails, QbufWorks

LEMMA PreviewShown ==
  ASSUME Known, BufferPlaces, StreamFollows, ShownInWindow, PreviewStep
  PROVE  ShownInWindow'
  <1>0. pt \in PtState /\ hw' = hw
    BY PreviewMoves DEF Known, TypeOK
  <1>1. CASE PreviewGrab
    BY <1>0, <1>1, WorkSucceeds DEF PreviewGrab, Working, ShownInWindow, PtState
  <1>2. CASE PreviewRequeue
    <2>1. Grabbed(TRUE)
      BY <1>2, WorkSucceeds DEF PreviewRequeue, Working
    <2> QED
      BY <1>0, <2>1 DEF Grabbed, ShownInWindow, PtState
  <1>3. CASE PreviewShow
    BY <1>0, <1>3 DEF PreviewShow, ShownInWindow, PtState
  <1>4. CASE PreviewRecord
    BY <1>0, <1>4 DEF PreviewRecord, ShownInWindow, PtState
  <1>5. CASE PreviewGrabRecord
    BY <1>0, <1>5, WorkSucceeds DEF PreviewGrabRecord, Working, ShownInWindow, PtState
  <1>6. CASE PreviewDeliver
    BY <1>0, <1>6 DEF PreviewDeliver, ShownInWindow, PtState
  <1>7. CASE PreviewTop
    BY <1>0, <1>7 DEF PreviewTop, ShownInWindow, PtState
  <1>8. CASE PreviewStop \/ PreviewExit
    BY <1>0, <1>8 DEF PreviewStop, PreviewExit, ShownInWindow, PtState
  <1> QED
    BY <1>1, <1>2, <1>3, <1>4, <1>5, <1>6, <1>7, <1>8 DEF PreviewStep

(* No thread goes on without the frame it asked for or the window it found   *)
(* before, whatever the driver refuses, if the client changes the window     *)
(* only while no frames are shown: the preview thread looks at the window    *)
(* again between grabbing and copying, but not at the frame.                 *)
THEOREM FramesAreThere == ASSUME KeepsWindow PROVE Spec => []NoMissingFrame
  <1>1. Init => ShownInWindow
    BY DEF Init, ShownInWindow
  <1>2. Known /\ BufferPlaces /\ StreamFollows /\ ShownInWindow /\ [Next]_vars
          => ShownInWindow'
    <2> SUFFICES ASSUME Known, BufferPlaces, StreamFollows, ShownInWindow, [Next]_vars
                 PROVE  ShownInWindow'
      OBVIOUS
    <2>1. CASE UNCHANGED vars
      BY <2>1 DEF vars, ShownInWindow
    <2>2. CASE PictureStep
      BY <2>2, PictureMoves DEF ShownInWindow
    <2> QED
      BY <2>1, <2>2, CallShown, ClientShown, PreviewShown DEF Next, Known
  <1>3. ShownInWindow /\ StreamFollows => NoMissingFrame
    BY DEF ShownInWindow, StreamFollows, NoMissingFrame
  <1>4. Orderly
    BY KeepsWindowOrderly
  <1> QED
    BY <1>1, <1>2, <1>3, <1>4, KnownAlways, PlacesHold, FollowsHolds, PTL DEF Spec

-----------------------------------------------------------------------------
(* All buffers are mapped and queued when a preview starts to stream, and    *)
(* none of them is out of use as long as it does.                            *)
AllInUse ==
  /\ cl.pc = "stream" => cam.open /\ cam.allocated = Bufs /\ cam.queued = Bufs
  /\ cam.isStreaming => cam.queued \cup InHand \cup ClientHas = Bufs

LEMMA InitInUse == Init => AllInUse
  BY DEF Init, Opened, AllInUse

(* As long as it streams, no step takes the queue down.                      *)
LEMMA QueueKept ==
  ASSUME Orderly, Known, Known', BufferPlaces, StreamFollows, [Next]_vars,
         cam.isStreaming, cam'.isStreaming
  PROVE  cam.queued \subseteq cam'.queued \cup InHand'
  <1> USE DEF Known
  <1>0. cam \in CamState /\ pt \in PtState
    BY DEF TypeOK
  <1>s. pt.pc # "wait" /\ pt.pc # "done" /\ ~PictureRuns
    BY PictureAlone DEF StreamFollows, StreamKnown
  <1>1. CASE cam' = cam
    BY <1>1
  <1>2. CASE Call
    BY <1>1, <1>2 DEF Call, SetPreviewWindow, StartPreview, StopPreview, CancelPicture,
       StartRecording, StopRecording, ReleaseRecordingFrame, Release
  <1>3. CASE ClientStep
    <2>1. CASE StartMap \/ StartStream
      BY <1>s, <2>1 DEF StartMap, StartStream, HandOver
    <2>2. CASE StopRecordingLocked
      <3>1. PICK c \in ReleaseAll(rec.mRecordBufferState) : cam' = c
        BY <2>2 DEF StopRecordingLocked
      <3>2. c.queued = IF cam.open
                         THEN cam.queued \cup (rec.mRecordBufferState \cap cam.allocated)
                         ELSE cam.queued
        BY <1>0, ReleaseAllFields
      <3> QED
        BY <3>1, <3>2
    <2>3. CASE ReleaseFrameIndex
      BY <1>0, <2>3 DEF ReleaseFrameIndex, CamState
    <2>4. CASE ReleaseFrameQueue
      BY <1>0, <2>4, EnqueuedFields DEF ReleaseFrameQueue
    <2>5. CASE CloseCamera
      BY <1>s, <2>5 DEF CloseCamera, ReleaseJoins
    <2> QED
      BY <1>1, <1>3, <2>1, <2>2, <2>3, <2>4, <2>5 DEF ClientStep, StartPreviewLocked,
         StartConfigure, StopPreviewLocked, StopPreviewWoken, TakePicture, JoinPicture,
         StartRecordingLocked, ReleaseFrameClear, JoinPreview
  <1>4. CASE PreviewStep
    <2>1. CASE PreviewStop \/ PreviewExit
      <3>1. PICK c \in Uninits(cam) : cam' = StopStreaming(c, 0)
        BY <2>1 DEF PreviewStop, PreviewExit
      <3> QED
        BY <1>0, <3>1, UninitFields, StreamFields
    <2>2. CASE PreviewGrab
      <3>1. ASSUME NEW i \in cam.queued, cam' = Dequeued(cam, i),
                   pt' = [pt EXCEPT !.pc = "requeue"]
            PROVE  cam'.queued = cam.queued \ {i} /\ InHand' = {i}
        BY <1>0, <3>1, DequeuedFields DEF InHand, PtState
      <3> QED
        BY <1>1, <2>2, <3>1 DEF PreviewGrab
    <2>3. CASE PreviewGrabRecord
      <3>1. ASSUME NEW i \in cam.queued, cam' = Dequeued(cam, i),
                   pt' = [pt EXCEPT !.pc = "deliver", !.index = i]
            PROVE  cam'.queued = cam.queued \ {i} /\ InHand' = {i}
        BY <1>0, <3>1, DequeuedFields DEF InHand, PtState
      <3> QED
        BY <1>1, <2>3, <3>1 DEF PreviewGrabRecord
    <2>4. CASE PreviewRequeue
      BY <1>0, <2>4, EnqueuedFields DEF PreviewRequeue
    <2>5. CASE PreviewDeliver
      <3> DEFINE c == [cam EXCEPT !.index = pt.index]
      <3>1. c \in CamState /\ c.queued = cam.queued
        BY <1>0 DEF CamState, PtState
      <3>2. cam' = cam \/ cam' = EnqueueCounted(c)
        BY <2>5 DEF PreviewDeliver
      <3> QED
        BY <3>1, <3>2, EnqueuedFields
    <2> QED
      BY <1>1, <1>4, <2>1, <2>2, <2>3, <2>4, <2>5
         DEF PreviewStep, PreviewTop, PreviewShow, PreviewRecord
  <1> QED
    BY <1>1, <1>2, <1>3, <1>4, <1>s, PictureMoves DEF Next, vars, PictureRuns

(* A preview begins to stream with every buffer queued.                      *)
LEMMA StreamBegins ==
  ASSUME Orderly, Known, StreamFollows, AllInUse, [Next]_vars,
         ~cam.isStreaming, cam'.isStreaming
  PROVE  cam'.queued = Bufs
  <1> USE DEF Known
  <1>0. cam \in CamState
    BY DEF TypeOK
  <1>1. CASE SameFlags(cam, cam')
    BY <1>1 DEF SameFlags
  <1>2. CASE Call
    BY <1>2 DEF Call, SetPreviewWindow, StartPreview, StopPreview, CancelPicture,
       StartRecording, StopRecording, ReleaseRecordingFrame, Release
  <1>3. CASE ClientStep
    <2>1. CASE StartMap
      BY <1>0, <2>1, MapFields DEF StartMap
    <2>2. CASE StartStream
      <3>1. cam.queued = Bufs
        BY <2>2 DEF StartStream, AllInUse
      <3>2. cam' = StartStreaming(cam, 0)
        BY <1>0, <2>2, UninitFields, CloseFields DEF StartStream
      <3> QED
        BY <1>0, <3>1, <3>2, StreamFields
    <2>3. CASE StopRecordingLocked
      BY <1>0, <1>1, <2>3, ReleaseAllFields DEF StopRecordingLocked
    <2>4. CASE ReleaseFrameIndex
      BY <1>0, <2>4 DEF ReleaseFrameIndex, CamState
    <2>5. CASE ReleaseFrameQueue
      BY <1>0, <1>1, <2>5, EnqueuedFields DEF ReleaseFrameQueue
    <2>6. CASE CloseCamera
      BY <1>0, <2>6, UninitFields, CloseFields DEF CloseCamera
    <2> QED
      BY <1>3, <2>1, <2>2, <2>3, <2>4, <2>5, <2>6 DEF ClientStep, StartPreviewLocked,
         StartConfigure, StopPreviewLocked, StopPreviewWoken, TakePicture, JoinPicture,
         StartRecordingLocked, ReleaseFrameClear, JoinPreview
  <1>4. CASE PreviewStep
    <2>1. pt.pc \notin Working
      BY DEF StreamFollows
    <2>2. CASE PreviewStop \/ PreviewExit
      <3>1. PICK c \in Uninits(cam) : cam' = StopStreaming(c, 0)
        BY <2>2 DEF PreviewStop, PreviewExit
      <3> QED
        BY <1>0, <3>1, UninitFields, StreamFields
    <2> QED
      BY <1>4, <2>1, <2>2, PreviewElse DEF PreviewTop
  <1>5. CASE PictureStep
    <2>1. CASE PictureMap
      BY <1>0, <2>1, MapFields DEF PictureMap
    <2>2. CASE PictureStream
      BY <1>0, <2>2, UninitFields, CloseFields, StreamFields DEF PictureStream
    <2>3. CASE PictureClose
      BY <1>0, <2>3, UninitFields, StreamFields DEF PictureClose
    <2> QED
      BY <1>5, <2>1, <2>2, <2>3 DEF PictureStep, PictureConfigure, PictureGrab
  <1> QED
    BY <1>2, <1>3, <1>4, <1>5 DEF Next, vars

(* While a client has mapped the buffers and not started to stream yet, no   *)
(* other thread moves.                                                       *)
LEMMA StreamAlone ==
  ASSUME Orderly, Known, AllInUse, [Next]_vars, cl'.pc = "stream"
  PROVE  cam'.open /\ cam'.allocated = Bufs /\ cam'.queued = Bufs
  <1> USE DEF Known
  <1>0. cl \in ClState /\ cam \in CamState
    BY DEF TypeOK
  <1>1. CASE StartMap
    <2>1. cam' = BufferMap(cam, 0, NB_BUFFER) /\ BuffersAllowed(cam)
      BY <1>0, <1>1 DEF StartMap, Return, ClState
    <2> QED
      BY <1>0, <2>1, MapFields DEF BuffersAllowed, FormatAllowed, Buffers, Bufs
  <1>2. CASE cl.pc = "stream" /\ (Call \/ ClientStep)
    <2>1. StartStream
      BY <1>2 DEF Call, SetPreviewWindow, StartPreview, StopPreview, CancelPicture,
         StartRecording, StopRecording, ReleaseRecordingFrame, Release, Begins, Ready,
         ClientStep, StartPreviewLocked, StartConfigure, StartMap, StopPreviewLocked,
         StopPreviewWoken, TakePicture, JoinPicture, StartRecordingLocked,
         StopRecordingLocked, ReleaseFrameIndex, ReleaseFrameQueue, ReleaseFrameClear,
         JoinPreview, CloseCamera
    <2> QED
      BY <1>0, <2>1 DEF StartStream, Return, ClState
  <1>3. CASE cl.pc # "stream" /\ (Call \/ ClientStep) /\ ~StartMap
    BY <1>0, <1>3 DEF Call, SetPreviewWindow, StartPreview, StopPreview, CancelPicture,
         StartRecording, StopRecording, ReleaseRecordingFrame, Release, Begins, Ready,
         ClientStep, StartPreviewLocked, StartConfigure, StartStream, StopPreviewLocked,
         StopPreviewWoken, TakePicture, JoinPicture, StartRecordingLocked,
         StopRecordingLocked, ReleaseFrameIndex, ReleaseFrameQueue, ReleaseFrameClear,
         JoinPreview, CloseCamera, Return, Stopped, ClState
  <1>4. CASE PreviewStep
    <2>1. cl.pc = "stream"
      BY <1>0, <1>4, PreviewMoves DEF WakeClient, ClState
    <2>2. pt.pc = "wait"
      BY <2>1 DEF HandOver
    <2> QED
      BY <1>4, <2>2 DEF PreviewStep, PreviewTop, PreviewStop, PreviewExit, PreviewGrab,
         PreviewRequeue, PreviewShow, PreviewRecord, PreviewGrabRecord, PreviewDeliver
  <1>5. CASE PictureStep
    BY <1>5, PictureMoves, PictureAlone DEF PictureRuns
  <1>6. CASE UNCHANGED vars
    BY <1>6 DEF vars, AllInUse
  <1> QED
    BY <1>1, <1>2, <1>3, <1>4, <1>5, <1>6 DEF Next

(* Buffers go out of use only when all do; see BufferOwnership.              *)
LEMMA NoneIsLost ==
  ASSUME Known, Known', BufferPlaces, BufferPlaces', [Ownership!Next]_Owner,
         cam.queued \subseteq cam'.queued \cup InHand',
         cam.queued \cup InHand \cup ClientHas = Bufs
  PROVE  cam'.queued \cup InHand' \cup ClientHas' = Bufs
  <1>1. \A i \in Bufs : Owner[i] # "none"
    BY OwnerIs DEF OwnerBy
  <1>2. \A i \in cam.queued : Owner'[i] # "none"
    <2>1. cam.queued \subseteq Bufs
      BY Parts DEF Known
    <2> QED
      BY <2>1, OwnerBecomes DEF OwnerBy
  <1>3. \A i \in Bufs : Owner'[i] # "none"
    <2>1. CASE Ownership!TakeDown
      BY <1>2, <2>1, OwnersOf DEF Ownership!TakeDown, Ownership!Moves, Known
    <2>2. CASE Ownership!SetUp
      BY <1>1, <2>2 DEF Ownership!SetUp, Ownership!Moves, Ownership!Of
    <2>3. CASE Ownership!Grab
      BY <1>1, <2>3 DEF Ownership!Grab, Ownership!Moves
    <2>4. CASE Ownership!Requeue
      BY <1>1, <2>4 DEF Ownership!Requeue, Ownership!Moves
    <2>5. CASE Ownership!Deliver
      BY <1>1, <2>5 DEF Ownership!Deliver, Ownership!Moves
    <2>6. CASE Ownership!ComeBack
      BY <1>1, <2>6 DEF Ownership!ComeBack, Ownership!Moves
    <2>7. CASE UNCHANGED Owner
      BY <1>1, <2>7
    <2> QED
      BY <2>1, <2>2, <2>3, <2>4, <2>5, <2>6, <2>7 DEF Ownership!Next
  <1>4. cam'.queued \subseteq Bufs /\ InHand' \subseteq Bufs /\ ClientHas' \subseteq Bufs
    BY DEF Known, TypeOK, CamState, BufferPlaces
  <1> QED
    BY <1>3, <1>4, OwnerBecomes DEF OwnerBy

LEMMA InUseHolds == ASSUME Orderly PROVE Spec => []AllInUse
  <1>1. Known /\ Known' /\ BufferPlaces /\ BufferPlaces' /\ StreamFollows /\ AllInUse
          /\ [Next]_vars => AllInUse'
    <2> SUFFICES ASSUME Known, Known', BufferPlaces, BufferPlaces', StreamFollows, AllInUse,
                        [Next]_vars
                 PROVE  AllInUse'
      OBVIOUS
    <2>1. ASSUME cl'.pc = "stream"
          PROVE  cam'.open /\ cam'.allocated = Bufs /\ cam'.queued = Bufs
      BY <2>1, StreamAlone
    <2>2. ASSUME cam'.isStreaming, ~cam.isStreaming
          PROVE  cam'.queued \cup InHand' \cup ClientHas' = Bufs
      <3>1. InHand' \subseteq Bufs /\ ClientHas' \subseteq Bufs
        BY DEF Known, TypeOK, CamState, BufferPlaces
      <3> QED
        BY <2>2, <3>1, StreamBegins
    <2>3. ASSUME cam'.isStreaming, cam.isStreaming
          PROVE  cam'.queued \cup InHand' \cup ClientHas' = Bufs
      <3>1. cam.queued \cup InHand \cup ClientHas = Bufs
        BY <2>3 DEF AllInUse
      <3> QED
        BY <2>3, <3>1, QueueKept, StepKeeps, NoneIsLost DEF Keeps
    <2> QED
      BY <2>1, <2>2, <2>3 DEF AllInUse
  <1> QED
    BY <1>1, InitInUse, KnownAlways, PlacesHold, FollowsHolds, PTL DEF Spec

LEMMA DisjointUnion ==
  ASSUME NEW S, IsFiniteSet(S), NEW T, IsFiniteSet(T), S \cap T = {}
  PROVE  IsFiniteSet(S \cup T) /\ Cardinality(S \cup T) = Cardinality(S) + Cardinality(T)
  <1>1. Cardinality(S) \in Nat /\ Cardinality(T) \in Nat /\ Cardinality({}) = 0
    BY FS_CardinalityType, FS_EmptySet
  <1>2. /\ IsFiniteSet(S \cup T)
        /\ Cardinality(S \cup T) = Cardinality(S) + Cardinality(T) - Cardinality(S \cap T)
    BY FS_Union
  <1>3. Cardinality(S \cap T) = 0
    BY <1>1, Zenon
  <1> QED
    BY <1>1, <1>2, <1>3

(* The sizes of what makes up the buffers.                                   *)
LEMMA PartsCounted ==
  ASSUME Known, BufferPlaces, cam.queued \cup InHand \cup ClientHas = Bufs
  PROVE  Cardinality(cam.queued) + Cardinality(InHand) + Cardinality(rec.held)
           + Cardinality(ComingBack) = NB_BUFFER
  <1> DEFINE a == cam.queued
             h == InHand
             k == rec.held
             b == ComingBack
  <1>1. IsFiniteSet(Bufs) /\ Cardinality(Bufs) = NB_BUFFER
    BY BufferAssumption, FS_Interval DEF Bufs
  <1>2. /\ a \subseteq Bufs /\ h \subseteq Bufs /\ k \subseteq Bufs /\ b \subseteq Bufs
        /\ h \cap (k \cup b) = {} /\ h \cap a = {} /\ (k \cup b) \cap a = {}
    BY Parts DEF Known, ClientHas
  <1>3. k \cap b = {}
    BY DEF BufferPlaces, ComingBack, FrameComesBack
  <1>4. (a \cup h) \cup (k \cup b) = Bufs
    BY DEF ClientHas
  <1> HIDE DEF a, h, k, b
  <1>5. IsFiniteSet(a) /\ IsFiniteSet(h) /\ IsFiniteSet(k) /\ IsFiniteSet(b)
        /\ IsFiniteSet(a \cup h) /\ IsFiniteSet(k \cup b)
    <2>1. a \cup h \subseteq Bufs /\ k \cup b \subseteq Bufs
      BY <1>2
    <2> QED
      BY <1>1, <1>2, <2>1, FS_Subset
  <1>6. Cardinality(a) \in Nat /\ Cardinality(h) \in Nat /\ Cardinality(k) \in Nat
        /\ Cardinality(b) \in Nat
    BY <1>5, FS_CardinalityType
  <1>7. Cardinality(a \cup h) = Cardinality(a) + Cardinality(h)
    BY <1>2, <1>5, DisjointUnion
  <1>8. Cardinality(k \cup b) = Cardinality(k) + Cardinality(b)
    BY <1>3, <1>5, DisjointUnion
  <1>9. Cardinality(Bufs) = Cardinality(a \cup h) + Cardinality(k \cup b)
    <2>1. (a \cup h) \cap (k \cup b) = {}
      BY <1>2
    <2> QED
      BY <1>4, <1>5, <2>1, DisjointUnion
  <1>10. Cardinality(a) + Cardinality(h) + Cardinality(k) + Cardinality(b) = NB_BUFFER
    BY <1>1, <1>6, <1>7, <1>8, <1>9
  <1> QED
    BY <1>10 DEF a, h, k, b

(* While a preview streams every buffer is in the driver's queue, in the     *)
(* preview thread's hands or with the recording client, and in one of these  *)
(* places only: GrabPreviewFrame, GrabRecordFrame and ReleaseRecordFrame     *)
(* lose none, whatever the driver refuses.                                   *)
THEOREM BuffersStay == ASSUME Orderly PROVE Spec => []BuffersConserved
  <1>1. Known /\ BufferPlaces /\ AllInUse => BuffersConserved
    <2> SUFFICES ASSUME Known, BufferPlaces, AllInUse, cam.isStreaming
                 PROVE  /\ cam.queued \cup InHand \cup rec.held \cup ComingBack = Bufs
                        /\ Cardinality(cam.queued) + Cardinality(InHand)
                             + Cardinality(rec.held) + Cardinality(ComingBack) = NB_BUFFER
      BY DEF BuffersConserved
    <2>1. cam.queued \cup InHand \cup ClientHas = Bufs
      BY DEF AllInUse
    <2>2. cam.queued \cup InHand \cup rec.held \cup ComingBack = Bufs
      BY <2>1 DEF ClientHas
    <2> QED
      BY <2>1, <2>2, PartsCounted
  <1> QED
    BY <1>1, KnownAlways, PlacesHold, InUseHolds, PTL

-----------------------------------------------------------------------------
(* Buffers are queued, and counted as queued, only for a preview that        *)
(* streams or is about to, or for a picture. This needs the driver to map    *)
(* buffers when it has allocated them: what BufferMap has queued when it     *)
(* fails stays queued.                                                       *)
Maps == "mapping" \notin Faults

QueueFollows ==
  cam.queued # {} \/ cam.pending # 0
    => cam.isStreaming \/ cl.pc = "stream" \/ qt \in {"stream", "grab", "close"}

LEMMA InitQueue == Init => QueueFollows
  BY DEF Init, Opened, QueueFollows

(* What the functions of the wrapper do to its count.                        *)
LEMMA Counted ==
  ASSUME NEW c \in CamState
  PROVE  /\ \A m \in {0, 1} : /\ StartStreaming(c, m).pending = c.pending
                              /\ StopStreaming(c, m).pending = c.pending
         /\ Close(c).pending = c.pending
         /\ \A m, n : BufferMap(c, m, n).pending = c.pending + n
         /\ \A i : Dequeued(c, i).pending = c.pending - 1
         /\ EnqueueCounted(c).pending = c.pending + 1
         /\ \A d \in Uninits(c) : IF c.open THEN d.pending = 0 ELSE d = c
  <1>1. \A m \in {0, 1} : /\ StartStreaming(c, m).pending = c.pending
                          /\ StopStreaming(c, m).pending = c.pending
    BY DEF StartStreaming, StopStreaming, CamState
  <1>2. Close(c).pending = c.pending
    BY DEF Close, CamState
  <1>3. \A m, n : BufferMap(c, m, n).pending = c.pending + n
    BY DEF BufferMap, CamState
  <1>4. \A i : Dequeued(c, i).pending = c.pending - 1
    BY DEF Dequeued, CamState
  <1>5. EnqueueCounted(c).pending = c.pending + 1
    BY DEF EnqueueCounted, Enqueued, CamState
  <1>6. ASSUME NEW d \in Uninits(c) PROVE IF c.open THEN d.pending = 0 ELSE d = c
    BY DEF Uninits, CamState
  <1> QED
    BY <1>1, <1>2, <1>3, <1>4, <1>5, <1>6

(* A camera that is stopped or closed has nothing queued and counts nothing. *)
LEMMA StoppedCounts ==
  ASSUME NEW e \in CamState, NEW m \in {0, 1}, NEW d \in Uninits(e),
         e.open \/ e.pending = 0, e.isStreaming \/ m = 1 \/ e.queued = {}
  PROVE  /\ StopStreaming(d, m).pending = 0 /\ StopStreaming(d, m).queued = {}
         /\ Close(d).pending = 0 /\ Close(d).queued = {}
  <1>1. /\ d \in CamState /\ d.isStreaming = e.isStreaming /\ d.queued \subseteq e.queued
        /\ d.pending = 0
    BY UninitFields, Counted
  <1> QED
    BY <1>1, Counted, StreamFields, CloseFields

LEMMA CallQueue ==
  ASSUME QueueFollows, Call
  PROVE  QueueFollows'
  BY DEF Call, SetPreviewWindow, StartPreview, StopPreview, CancelPicture, StartRecording,
     StopRecording, ReleaseRecordingFrame, Release, Begins, Ready, QueueFollows

LEMMA ClientQueue ==
  ASSUME Orderly, Maps, Known, Known', BufferPlaces, StreamFollows, AllInUse, QueueFollows,
         ClientStep
  PROVE  QueueFollows'
  <1> USE DEF Known
  <1>0. cam \in CamState /\ cl \in ClState
    BY DEF TypeOK
  <1>1. CASE UNCHANGED <<cam, qt>> /\ cl.pc # "stream"
    BY <1>1 DEF QueueFollows
  <1>2. CASE StartMap
    BY <1>0, <1>2 DEF StartMap, QueueFollows, Maps, Fails, ClState
  <1>3. CASE StartStream
    <2>1. cl.pc = "stream" /\ cam.open /\ ~cam.isStreaming /\ qt' = qt
      BY <1>3 DEF StartStream, AllInUse, HandOver, StreamFollows
    <2>2. CASE cam' = StartStreaming(cam, 0)
      BY <1>0, <2>1, <2>2, StreamFields DEF QueueFollows
    <2>3. CASE \E c \in Uninits(cam) : cam' = Close(c)
      <3>1. PICK c \in Uninits(cam) : cam' = Close(c)
        BY <2>3
      <3>2. c \in CamState /\ c.pending = 0
        BY <1>0, <2>1, Counted, UninitFields
      <3> QED
        BY <3>1, <3>2, Counted, CloseFields DEF QueueFollows
    <2> QED
      BY <1>3, <2>2, <2>3 DEF StartStream
  <1>4. CASE TakePicture
    BY <1>4 DEF TakePicture, QueueFollows, PictureRuns
  <1>5. CASE StopRecordingLocked
    <2>1. CASE rec.mRecordBufferState = {}
      BY <1>5, <1>1, <2>1 DEF StopRecordingLocked, ReleaseAll
    <2>2. CASE rec.mRecordBufferState # {}
      <3>1. cam.isStreaming
        BY <2>2 DEF BufferPlaces
      <3>2. PICK c \in ReleaseAll(rec.mRecordBufferState) : cam' = c
        BY <1>5 DEF StopRecordingLocked
      <3>3. SameFlags(cam, c)
        BY <1>0, ReleaseAllFields
      <3> QED
        BY <3>1, <3>2, <3>3 DEF SameFlags, QueueFollows
    <2> QED
      BY <2>1, <2>2
  <1>6. CASE ReleaseFrameIndex
    BY <1>0, <1>6 DEF ReleaseFrameIndex, QueueFollows, CamState
  <1>7. CASE ReleaseFrameQueue
    <2>1. cam.isStreaming
      BY <1>7 DEF ReleaseFrameQueue, BufferPlaces, ClientHas, ComingBack
    <2> QED
      BY <1>0, <1>7, <2>1, EnqueuedFields DEF ReleaseFrameQueue, SameFlags, QueueFollows
  <1>8. CASE CloseCamera
    <2>1. /\ cl.pc = "close" /\ ~PictureRuns /\ ~cam.isStreaming
          /\ \E c \in Uninits(cam) : cam' = Close(c)
      BY <1>8 DEF CloseCamera, ReleaseJoins, StreamKnown
    <2>2. cam.queued = {} /\ cam.pending = 0
      BY <2>1 DEF QueueFollows, PictureRuns
    <2> QED
      BY <1>0, <2>1, <2>2, StoppedCounts DEF QueueFollows
  <1> QED
    BY <1>1, <1>2, <1>3, <1>4, <1>5, <1>6, <1>7, <1>8 DEF ClientStep, StartPreviewLocked,
       StartConfigure, StopPreviewLocked, StopPreviewWoken, JoinPicture,
       StartRecordingLocked, ReleaseFrameClear, JoinPreview

LEMMA PreviewQueue ==
  ASSUME Known, BufferPlaces, StreamFollows, QueueFollows, PreviewStep
  PROVE  QueueFollows'
  <1> USE DEF Known
  <1>0. cam \in CamState
    BY DEF TypeOK
  <1>1. CASE pt.pc \in Working
    BY <1>1, WorkFlags DEF StreamFollows, SameFlags, QueueFollows
  <1>2. CASE PreviewTop
    BY <1>2 DEF PreviewTop, QueueFollows
  <1>3. CASE PreviewStop \/ PreviewExit
    <2>1. /\ pt.pc # "wait" /\ cl.pc # "stream" /\ ~PictureRuns
          /\ \E c \in Uninits(cam) : cam' = StopStreaming(c, 0)
      BY <1>3, PictureAlone DEF PreviewStop, PreviewExit, HandOver
    <2>2. cam.isStreaming => cam.open
      BY DEF StreamKnown
    <2>3. ~cam.isStreaming => cam.queued = {} /\ cam.pending = 0
      BY <2>1 DEF QueueFollows, PictureRuns
    <2> QED
      BY <1>0, <2>1, <2>2, <2>3, StoppedCounts DEF QueueFollows
  <1> QED
    BY <1>1, <1>2, <1>3, PreviewElse

LEMMA PictureQueue ==
  ASSUME Maps, Known, StreamFollows, QueueFollows, PictureStep
  PROVE  QueueFollows'
  <1> USE DEF Known
  <1>0. /\ cam \in CamState /\ UNCHANGED <<hw, rec, cl, pt>>
        /\ cl.pc # "stream" /\ ~cam.isStreaming
    BY PictureMoves, PictureAlone DEF TypeOK, PictureRuns, StreamFollows
  <1>1. CASE PictureConfigure
    BY <1>0, <1>1 DEF PictureConfigure, QueueFollows
  <1>2. CASE PictureMap
    BY <1>0, <1>2 DEF PictureMap, QueueFollows, Maps, Fails
  <1>3. CASE PictureStream
    <2>1. CASE qt' = "grab"
      BY <1>0, <2>1 DEF QueueFollows
    <2>2. CASE \E c \in Uninits(cam) : cam' = Close(c)
      <3>1. PICK c \in Uninits(cam) : cam' = Close(c)
        BY <2>2
      <3>2. c \in CamState /\ c.pending = 0
        BY <1>0, <1>3, Counted, UninitFields DEF PictureStream, StreamFollows
      <3> QED
        BY <3>1, <3>2, Counted, CloseFields DEF QueueFollows
    <2> QED
      BY <1>3, <2>1, <2>2 DEF PictureStream
  <1>4. CASE PictureGrab
    BY <1>0, <1>4 DEF PictureGrab, QueueFollows, StreamFollows, DqFails
  <1>5. CASE PictureClose
    <2>1. cam.open /\ \E c \in Uninits(cam) : cam' = StopStreaming(c, 1)
      BY <1>5 DEF PictureClose, StreamFollows
    <2> QED
      BY <1>0, <2>1, StoppedCounts DEF QueueFollows
  <1> QED
    BY <1>1, <1>2, <1>3, <1>4, <1>5 DEF PictureStep

LEMMA QueueHolds == ASSUME Orderly, Maps PROVE Spec => []QueueFollows
  <1>1. Known /\ Known' /\ BufferPlaces /\ StreamFollows /\ AllInUse /\ QueueFollows
          /\ [Next]_vars => QueueFollows'
    <2> SUFFICES ASSUME Known, Known', BufferPlaces, StreamFollows, AllInUse, QueueFollows,
                        [Next]_vars
                 PROVE  QueueFollows'
      OBVIOUS
    <2>1. CASE UNCHANGED vars
      BY <2>1 DEF vars, QueueFollows
    <2> QED
      BY <2>1, CallQueue, ClientQueue, PreviewQueue, PictureQueue DEF Next
  <1> QED
    BY <1>1, InitQueue, KnownAlways, PlacesHold, FollowsHolds, InUseHolds, PTL DEF Spec

(* When a stop has returned and no picture is taken, the preview thread      *)
(* sleeps, the driver does not stream, nothing is queued and nothing is      *)
(* counted as queued: the next start finds the camera as the first did.      *)
THEOREM StopsAreQuiet == ASSUME Orderly, Maps PROVE Spec => []StoppedIsQuiet
  <1>1. Known /\ StreamFollows /\ QueueFollows => StoppedIsQuiet
    <2> SUFFICES ASSUME Known, StreamFollows, QueueFollows, cl.pc = "idle",
                        ~hw.mPreviewRunning, pt.slept, ~PictureRuns
                 PROVE  pt.pc = "wait" /\ ~cam.streaming /\ cam.queued = {} /\ cam.pending = 0
      BY DEF StoppedIsQuiet
    <2>1. pt.pc = "wait"
      BY DEF Known, HandOver
    <2>2. ~cam.isStreaming
      BY <2>1 DEF StreamFollows
    <2> QED
      BY <2>1, <2>2 DEF Known, StreamKnown, QueueFollows, PictureRuns
  <1> QED
    BY <1>1, KnownAlways, FollowsHolds, QueueHolds, PTL

-----------------------------------------------------------------------------
(* A client that disables VIDEO_FRAME only when recording stops: what the    *)
(* thread records goes to the client, and what is marked is out of the       *)
(* driver, or its mark is about to be cleared. A marked buffer that is       *)
(* queued would be counted once more by stopRecording.                       *)
KeepsMessage == Races \subseteq {"window"}

LEMMA KeepsMessageOrderly == KeepsMessage => Orderly
  BY DEF KeepsMessage, Orderly

Cleared == IF cl.pc = "clear" THEN {cl.frame} ELSE {}

MarkedAreOut ==
  /\ rec.mRecordingEnabled => rec.videoMsg
  /\ rec.mRecordBufferState \subseteq ClientHas \cup Cleared

LEMMA InitMarked == Init => MarkedAreOut
  BY DEF Init, MarkedAreOut

LEMMA CallMarked ==
  ASSUME KeepsMessage, TypeOK, MarkedAreOut, Call
  PROVE  MarkedAreOut'
  <1>0. cl \in ClState /\ rec \in RecState
    BY DEF TypeOK
  <1>1. ASSUME NEW i \in Bufs, ReleaseRecordingFrame(i) PROVE MarkedAreOut'
    <2>1. /\ cl.pc = "idle" /\ cl'.pc = "index" /\ cl'.frame = i
          /\ rec'.held = rec.held \ {i} /\ rec'.mRecordBufferState = rec.mRecordBufferState
          /\ rec'.mRecordingEnabled = rec.mRecordingEnabled /\ rec'.videoMsg = rec.videoMsg
      BY <1>0, <1>1 DEF ReleaseRecordingFrame, Ready, ClState, RecState
    <2>2. ComingBack = {} /\ Cleared = {} /\ ComingBack' = {i}
      BY <2>1 DEF ComingBack, Cleared
    <2> QED
      BY <2>1, <2>2 DEF MarkedAreOut, ClientHas
  <1>2. CASE StopRecording
    <2>1. /\ rec'.held = rec.held /\ rec'.mRecordBufferState = rec.mRecordBufferState
          /\ rec'.mRecordingEnabled = rec.mRecordingEnabled
          /\ rec'.videoMsg <=> rec.videoMsg
      BY <1>0, <1>2 DEF StopRecording, May, KeepsMessage, RecState
    <2>2. ComingBack = {} /\ Cleared = {}
      BY <1>2 DEF StopRecording, Begins, Ready, ComingBack, Cleared
    <2> QED
      BY <2>1, <2>2 DEF MarkedAreOut, ClientHas
  <1>3. ASSUME rec' = rec, cl.pc = "idle" PROVE MarkedAreOut'
    BY <1>3 DEF MarkedAreOut, ClientHas, ComingBack, Cleared
  <1> QED
    BY <1>1, <1>2, <1>3 DEF Call, SetPreviewWindow, StartPreview, StopPreview, CancelPicture,
       StartRecording, Release, Begins, Ready

LEMMA ClientMarked ==
  ASSUME KeepsMessage, TypeOK, ReleaseJoins, RecordingOrder, MarkedAreOut, ClientStep
  PROVE  MarkedAreOut'
  <1>0. cl \in ClState /\ rec \in RecState
    BY DEF TypeOK
  <1>1. CASE StartRecordingLocked
    BY <1>0, <1>1 DEF StartRecordingLocked, MarkedAreOut, RecState
  <1>2. CASE StopRecordingLocked
    BY <1>0, <1>2 DEF StopRecordingLocked, MarkedAreOut, RecState
  <1>3. CASE ReleaseFrameIndex
    BY <1>0, <1>3 DEF ReleaseFrameIndex, MarkedAreOut, ClientHas, ComingBack, Cleared, ClState
  <1>4. CASE ReleaseFrameQueue
    BY <1>0, <1>4 DEF ReleaseFrameQueue, MarkedAreOut, ClientHas, ComingBack, Cleared, ClState
  <1>5. CASE ReleaseFrameClear
    <2>1. /\ rec'.held = rec.held
          /\ rec'.mRecordBufferState = rec.mRecordBufferState \ {cl.frame}
          /\ rec'.mRecordingEnabled = rec.mRecordingEnabled /\ rec'.videoMsg = rec.videoMsg
      BY <1>0, <1>5 DEF ReleaseFrameClear, RecState
    <2>2. ComingBack = {} /\ Cleared = {cl.frame}
      BY <1>5 DEF ReleaseFrameClear, ComingBack, Cleared
    <2> QED
      BY <2>1, <2>2 DEF MarkedAreOut, ClientHas
  <1>6. ASSUME rec' = rec, ~FrameComesBack PROVE MarkedAreOut'
    BY <1>6 DEF MarkedAreOut, ClientHas, ComingBack, Cleared, FrameComesBack
  <1> QED
    BY <1>1, <1>2, <1>3, <1>4, <1>5, <1>6 DEF ClientStep, StartPreviewLocked,
       StartConfigure, StartMap, StartStream, StopPreviewLocked, StopPreviewWoken,
       TakePicture, JoinPicture, JoinPreview, CloseCamera, FrameComesBack

LEMMA PreviewMarked ==
  ASSUME TypeOK, RecordingOrder, MarkedAreOut, PreviewStep
  PROVE  MarkedAreOut'
  <1>0. cl \in ClState /\ rec \in RecState
    BY DEF TypeOK
  <1>1. ASSUME cl'.pc \in {cl.pc, "stopwake"}, cl'.pc # cl.pc => cl.pc = "stopwait",
               cl'.frame = cl.frame
        PROVE  ComingBack' = ComingBack /\ Cleared' = Cleared
    BY <1>1 DEF ComingBack, Cleared
  <1>2. cl'.pc \in {cl.pc, "stopwake"} /\ (cl'.pc # cl.pc => cl.pc = "stopwait")
        /\ cl'.frame = cl.frame
    BY <1>0, PreviewMoves DEF WakeClient, ClState
  <1>3. CASE rec' = rec
    BY <1>1, <1>2, <1>3 DEF MarkedAreOut, ClientHas
  <1>4. CASE PreviewDeliver
    <2>1. rec.videoMsg
      BY <1>4 DEF PreviewDeliver, RecordingOrder, MarkedAreOut
    <2>2. /\ rec'.mRecordBufferState = rec.mRecordBufferState \cup {pt.index}
          /\ rec'.held = rec.held \cup {pt.index}
          /\ rec'.mRecordingEnabled = rec.mRecordingEnabled /\ rec'.videoMsg = rec.videoMsg
      BY <1>0, <1>4, <2>1 DEF PreviewDeliver, RecState
    <2> QED
      BY <1>1, <1>2, <2>2 DEF MarkedAreOut, ClientHas
  <1> QED
    BY <1>3, <1>4 DEF PreviewStep, PreviewTop, PreviewStop, PreviewExit, PreviewGrab,
       PreviewRequeue, PreviewShow, PreviewRecord, PreviewGrabRecord

LEMMA MarkedHolds == ASSUME KeepsMessage PROVE Spec => []MarkedAreOut
  <1>1. Known /\ MarkedAreOut /\ [Next]_vars => MarkedAreOut'
    <2> SUFFICES ASSUME Known, MarkedAreOut, [Next]_vars PROVE MarkedAreOut'
      OBVIOUS
    <2>1. CASE UNCHANGED vars \/ PictureStep
      BY <2>1, PictureMoves DEF vars, MarkedAreOut, ClientHas, ComingBack, Cleared
    <2> QED
      BY <2>1, CallMarked, ClientMarked, PreviewMarked DEF Next, Known
  <1>2. Orderly
    BY KeepsMessageOrderly
  <1> QED
    BY <1>1, <1>2, InitMarked, KnownAlways, PTL DEF Spec

-----------------------------------------------------------------------------
(* The counters, as one buffer, or several, are queued or taken out.         *)
LEMMA CountsOf ==
  ASSUME NEW q \in SUBSET Bufs, NEW s \in SUBSET Bufs
  PROVE  /\ q \cap s = {} => Cardinality(q \cup s) = Cardinality(q) + Cardinality(s)
         /\ \A i \in Bufs \ q : Cardinality(q \cup {i}) = Cardinality(q) + 1
         /\ \A i \in q : Cardinality(q \ {i}) = Cardinality(q) - 1
         /\ Cardinality({}) = 0 /\ Cardinality({0}) = 1 /\ Cardinality(Bufs) = NB_BUFFER
  <1>1. IsFiniteSet(Bufs) /\ Cardinality(Bufs) = NB_BUFFER
    BY BufferAssumption, FS_Interval DEF Bufs
  <1>2. IsFiniteSet(q) /\ IsFiniteSet(s)
    BY <1>1, FS_Subset
  <1>3. Cardinality({}) = 0 /\ Cardinality({0}) = 1
    BY FS_EmptySet, FS_Singleton
  <1>4. q \cap s = {} => Cardinality(q \cup s) = Cardinality(q) + Cardinality(s)
    BY <1>2, DisjointUnion
  <1>5. ASSUME NEW i \in Bufs \ q PROVE Cardinality(q \cup {i}) = Cardinality(q) + 1
    BY <1>2, FS_AddElement
  <1>6. ASSUME NEW i \in q PROVE Cardinality(q \ {i}) = Cardinality(q) - 1
    BY <1>2, FS_RemoveElement
  <1> QED
    BY <1>1, <1>3, <1>4, <1>5, <1>6

(* A buffer that is put back is counted, as the driver takes it.             *)
LEMMA EnqueueCounts ==
  ASSUME NEW c \in CamState, c.pending = Cardinality(c.queued), QbufWorks(c, c.index)
  PROVE  EnqueueCounted(c).pending = Cardinality(EnqueueCounted(c).queued)
  <1>1. c.index \in Bufs \ c.queued /\ c.queued \in SUBSET Bufs
    BY DEF CamState, QbufWorks
  <1>2. EnqueueCounted(c).queued = c.queued \cup {c.index}
    BY EnqueuedFields
  <1>3. Cardinality(c.queued \cup {c.index}) = Cardinality(c.queued) + 1
    BY <1>1, CountsOf
  <1> QED
    BY <1>2, <1>3, Counted

LEMMA DequeueCounts ==
  ASSUME NEW c \in CamState, c.pending = Cardinality(c.queued), NEW i \in c.queued
  PROVE  Dequeued(c, i).pending = Cardinality(Dequeued(c, i).queued)
  <1>1. c.queued \in SUBSET Bufs
    BY DEF CamState
  <1>2. Cardinality(c.queued \ {i}) = Cardinality(c.queued) - 1
    BY <1>1, CountsOf
  <1>3. Dequeued(c, i).queued = c.queued \ {i}
    BY DequeuedFields
  <1> QED
    BY <1>2, <1>3, Counted

(* Nothing queued and nothing counted.                                       *)
LEMMA IdleCounts ==
  ASSUME QueueFollows', ~cam'.isStreaming, cl'.pc # "stream",
         qt' \notin {"stream", "grab", "close"}
  PROVE  CountersMatch'
  <1>1. cam'.queued = {} /\ cam'.pending = 0
    BY DEF QueueFollows
  <1>2. Cardinality({}) = 0
    BY FS_EmptySet
  <1>3. Cardinality(cam'.queued) = 0
    BY <1>1, <1>2, Zenon
  <1> QED
    BY <1>1, <1>3 DEF CountersMatch

LEMMA SameCounts ==
  ASSUME CountersMatch, cam'.queued = cam.queued, cam'.pending = cam.pending
  PROVE  CountersMatch'
  BY DEF CountersMatch

LEMMA StopCounts ==
  ASSUME Known, BufferPlaces, MarkedAreOut, CountersMatch, StopRecordingLocked
  PROVE  CountersMatch'
  <1> DEFINE s == rec.mRecordBufferState
  <1>0. cam \in CamState /\ s \in SUBSET Bufs
    BY DEF Known, TypeOK, RecState
  <1>1. CASE s = {}
    BY <1>1, SameCounts DEF StopRecordingLocked, ReleaseAll
  <1>2. CASE s # {}
    <2>1. cam.isStreaming /\ cam.open
      BY <1>2 DEF BufferPlaces, Known, StreamKnown
    <2>2. s \subseteq ClientHas
      BY DEF StopRecordingLocked, MarkedAreOut, Cleared
    <2>3. s \subseteq cam.allocated /\ cam.queued \cap s = {} /\ cam.queued \in SUBSET Bufs
      BY <1>0, <2>2 DEF BufferPlaces, CamState
    <2>4. cam'.queued = cam.queued \cup s
      BY <1>0, <2>1, <2>3, ReleaseAllFields DEF StopRecordingLocked
    <2>5. cam'.pending = cam.pending + Cardinality(s)
      BY <1>0, <1>2 DEF StopRecordingLocked, ReleaseAll, CamState
    <2>6. Cardinality(cam.queued \cup s) = Cardinality(cam.queued) + Cardinality(s)
      BY <1>0, <2>3, CountsOf
    <2>7. Cardinality(cam'.queued) = Cardinality(cam.queued) + Cardinality(s)
      BY <2>4, <2>6, Zenon
    <2> QED
      BY <2>5, <2>7 DEF CountersMatch
  <1> QED
    BY <1>1, <1>2

LEMMA ClientCounts ==
  ASSUME KeepsMessage, Maps, Known, Known', BufferPlaces, StreamFollows, AllInUse,
         QueueFollows, QueueFollows', MarkedAreOut, CountersMatch, ClientStep
  PROVE  CountersMatch'
  <1> USE DEF Known
  <1>0. cam \in CamState /\ cl \in ClState
    BY DEF TypeOK
  <1>1. CASE cam' = cam
    BY <1>1, SameCounts
  <1>2. CASE StartMap
    <2>1. CASE BuffersAllowed(cam) /\ cam' = BufferMap(cam, 0, NB_BUFFER)
      <3>1. cam.pending = 0
        <4>1. cam.pending = Cardinality(cam.queued) /\ cam.queued = {}
          BY <2>1 DEF CountersMatch, BuffersAllowed
        <4>2. Cardinality({}) = 0
          BY FS_EmptySet
        <4> QED
          BY <4>1, <4>2, Zenon
      <3>2. cam'.queued = Bufs /\ cam'.pending = NB_BUFFER
        BY <1>0, <2>1, <3>1, MapFields, Counted, BufferAssumption DEF Bufs
      <3>3. Cardinality(Bufs) = NB_BUFFER
        BY BufferAssumption, FS_Interval DEF Bufs
      <3> QED
        BY <3>2, <3>3 DEF CountersMatch
    <2> QED
      BY <1>1, <1>2, <2>1 DEF StartMap, Maps, Fails
  <1>3. CASE StartStream
    <2>1. CASE cam' = StartStreaming(cam, 0)
      BY <1>0, <2>1, Counted, StreamFields, SameCounts
    <2>2. CASE \E c \in Uninits(cam) : cam' = Close(c)
      <3>1. cl.pc = "stream" /\ cl'.pc = "idle" /\ ~cam.isStreaming /\ qt' = qt /\ ~PictureRuns
        BY <1>0, <1>3, PictureAlone DEF StartStream, Return, HandOver, StreamFollows, ClState
      <3>2. ~cam'.isStreaming
        BY <1>0, <2>2, <3>1, UninitFields, CloseFields
      <3> QED
        BY <3>1, <3>2, IdleCounts DEF PictureRuns
    <2> QED
      BY <1>3, <2>1, <2>2 DEF StartStream
  <1>4. CASE StopRecordingLocked
    BY <1>4, StopCounts
  <1>5. CASE ReleaseFrameIndex
    BY <1>0, <1>5, SameCounts DEF ReleaseFrameIndex, CamState
  <1>6. CASE ReleaseFrameQueue
    <2>1. cl.frame \in ClientHas /\ cam.index = cl.frame
      BY <1>6 DEF ReleaseFrameQueue, BufferPlaces, ClientHas, ComingBack
    <2>2. cam.isStreaming /\ cam.index \in cam.allocated \ cam.queued
      BY <2>1 DEF BufferPlaces
    <2>3. QbufWorks(cam, cam.index)
      BY <2>2 DEF QbufWorks, StreamKnown
    <2> QED
      BY <1>0, <1>6, <2>3, EnqueueCounts DEF ReleaseFrameQueue, CountersMatch
  <1>7. CASE CloseCamera
    <2>1. /\ cl'.pc = "released" /\ qt' = "idle" /\ ~cam.isStreaming
          /\ \E c \in Uninits(cam) : cam' = Close(c)
      BY <1>0, <1>7 DEF CloseCamera, ReleaseJoins, PictureRuns, StreamKnown, ClState
    <2>2. ~cam'.isStreaming
      BY <1>0, <2>1, UninitFields, CloseFields
    <2> QED
      BY <2>1, <2>2, IdleCounts
  <1> QED
    BY <1>1, <1>2, <1>3, <1>4, <1>5, <1>6, <1>7 DEF ClientStep, StartPreviewLocked,
       StartConfigure, StopPreviewLocked, StopPreviewWoken, TakePicture, JoinPicture,
       StartRecordingLocked, ReleaseFrameClear, JoinPreview

LEMMA PreviewCounts ==
  ASSUME Known, BufferPlaces, StreamFollows, QueueFollows', MarkedAreOut, CountersMatch,
         PreviewStep
  PROVE  CountersMatch'
  <1> USE DEF Known
  <1>0. cam \in CamState /\ cl \in ClState
    BY DEF TypeOK
  <1>1. CASE cam' = cam
    BY <1>1, SameCounts
  <1>2. CASE PreviewGrab \/ PreviewGrabRecord
    <2>1. cam' = cam \/ \E i \in cam.queued : cam' = Dequeued(cam, i)
      BY <1>2 DEF PreviewGrab, PreviewGrabRecord
    <2> QED
      BY <1>0, <1>1, <2>1, DequeueCounts DEF CountersMatch
  <1>3. CASE PreviewRequeue
    BY <1>0, <1>3, WorkSucceeds, EnqueueCounts DEF PreviewRequeue, Working, CountersMatch
  <1>4. CASE PreviewDeliver
    BY <1>1, <1>4 DEF PreviewDeliver, RecordingOrder, MarkedAreOut
  <1>5. CASE PreviewStop \/ PreviewExit
    <2>1. /\ cl.pc # "stream" /\ ~PictureRuns
          /\ \E c \in Uninits(cam) : cam' = StopStreaming(c, 0)
      BY <1>5, PictureAlone DEF PreviewStop, PreviewExit, HandOver
    <2>2. ~cam'.isStreaming
      BY <1>0, <2>1, UninitFields, StreamFields
    <2>3. cl'.pc # "stream" /\ qt' = qt
      BY <1>0, <2>1, PreviewMoves DEF WakeClient, ClState
    <2> QED
      BY <2>1, <2>2, <2>3, IdleCounts DEF PictureRuns
  <1> QED
    BY <1>1, <1>2, <1>3, <1>4, <1>5 DEF PreviewStep, PreviewTop, PreviewShow, PreviewRecord

LEMMA PictureCounts ==
  ASSUME Maps, Known, StreamFollows, QueueFollows', CountersMatch, PictureStep
  PROVE  CountersMatch'
  <1> USE DEF Known
  <1>0. cam \in CamState /\ cl' = cl /\ cl.pc # "stream" /\ ~cam.isStreaming
    BY PictureMoves, PictureAlone DEF TypeOK, PictureRuns, StreamFollows
  <1>1. CASE cam' = cam
    BY <1>1, SameCounts
  <1>2. CASE PictureMap
    <2>1. CASE BuffersAllowed(cam) /\ cam' = BufferMap(cam, 1, 1)
      <3>1. cam.pending = 0
        <4>1. cam.pending = Cardinality(cam.queued) /\ cam.queued = {}
          BY <2>1 DEF CountersMatch, BuffersAllowed
        <4>2. Cardinality({}) = 0
          BY FS_EmptySet
        <4> QED
          BY <4>1, <4>2, Zenon
      <3>2. cam'.queued = {0} /\ cam'.pending = 1
        BY <1>0, <2>1, <3>1, MapFields, Counted
      <3>3. Cardinality({0}) = 1
        BY FS_Singleton
      <3>4. Cardinality(cam'.queued) = 1
        BY <3>2, <3>3, Zenon
      <3> QED
        BY <3>2, <3>4 DEF CountersMatch
    <2> QED
      BY <1>1, <1>2, <2>1 DEF PictureMap, Maps, Fails
  <1>3. CASE PictureStream
    <2>1. CASE cam' = StartStreaming(cam, 1)
      BY <1>0, <2>1, Counted, StreamFields, SameCounts
    <2>2. CASE qt' = "idle" /\ \E c \in Uninits(cam) : cam' = Close(c)
      <3>1. ~cam'.isStreaming
        BY <1>0, <2>2, UninitFields, CloseFields
      <3> QED
        BY <1>0, <2>2, <3>1, IdleCounts
    <2> QED
      BY <1>3, <2>1, <2>2 DEF PictureStream
  <1>4. CASE PictureClose
    <2>1. ~cam'.isStreaming /\ qt' = "idle"
      BY <1>0, <1>4, UninitFields, StreamFields DEF PictureClose
    <2> QED
      BY <1>0, <2>1, IdleCounts
  <1> QED
    BY <1>1, <1>2, <1>3, <1>4 DEF PictureStep, PictureConfigure, PictureGrab

(* nQueued - nDequeued is the number of buffers that are queued, in every    *)
(* state and for any number of buffers, so that Uninit never waits for a     *)
(* buffer the driver has not, nor leaves one behind. This is for a client    *)
(* that does not disable VIDEO_FRAME while frames are recorded, and a driver *)
(* that maps the buffers it has allocated: without either TLC finds the      *)
(* counters wrong.                                                           *)
THEOREM CountersAgree == ASSUME KeepsMessage, Maps PROVE Spec => []CountersMatch
  <1>1. Init => CountersMatch
    BY FS_EmptySet DEF Init, Opened, CountersMatch
  <1>2. Known /\ Known' /\ BufferPlaces /\ StreamFollows /\ AllInUse /\ QueueFollows
          /\ QueueFollows' /\ MarkedAreOut /\ CountersMatch /\ [Next]_vars
          => CountersMatch'
    <2> SUFFICES ASSUME Known, Known', BufferPlaces, StreamFollows, AllInUse, QueueFollows,
                        QueueFollows', MarkedAreOut, CountersMatch, [Next]_vars
                 PROVE  CountersMatch'
      OBVIOUS
    <2>1. CASE UNCHANGED vars \/ Call
      <3>1. cam' = cam
        BY <2>1 DEF vars, Call, SetPreviewWindow, StartPreview, StopPreview, CancelPicture,
           StartRecording, StopRecording, ReleaseRecordingFrame, Release
      <3> QED
        BY <3>1, SameCounts
    <2> QED
      BY <2>1, ClientCounts, PreviewCounts, PictureCounts DEF Next
  <1>3. Orderly
    BY KeepsMessageOrderly
  <1> QED
    BY <1>1, <1>2, <1>3, KnownAlways, PlacesHold, FollowsHolds, InUseHolds, QueueHolds,
       MarkedHolds, PTL DEF Spec

=============================================================================
