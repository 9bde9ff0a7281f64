----------------------------- MODULE V4L2Camera -----------------------------
(* The wrapper of the camera's driver (src/libcamera/V4L2Camera.cpp): what  *)
(* its functions do to the driver's buffer queue and to the two counters    *)
(* that are to follow it. A state of the wrapper and its driver is a        *)
(* record; CameraHardware says which thread calls what and when.            *)
EXTENDS Integers, FiniteSets

CONSTANT NB_BUFFER   \* the buffers of a preview

ASSUME BufferAssumption == NB_BUFFER \in Nat \ {0}

Bufs == 0 .. NB_BUFFER - 1

(* m_flag_init, whether the driver streams, videoIn->isStreaming, the       *)
(* buffers the driver has and those queued, nQueued - nDequeued, and        *)
(* videoIn->buf.index, which all functions share.                           *)
CamState == [open : BOOLEAN, streaming : BOOLEAN, isStreaming : BOOLEAN,
             allocated : SUBSET Bufs, queued : SUBSET Bufs,
             pending : Int, index : Bufs]

(* The constructor, and Open by CameraHardware's.                           *)
Opened == [open |-> TRUE, streaming |-> FALSE, isStreaming |-> FALSE,
           allocated |-> {}, queued |-> {}, pending |-> 0, index |-> 0]

-----------------------------------------------------------------------------
(* The driver.                                                              *)

(* VIDIOC_S_FMT and VIDIOC_REQBUFS are refused while the driver streams,    *)
(* VIDIOC_REQBUFS also while buffers are queued.                            *)
FormatAllowed(c) == c.open /\ ~c.streaming
BuffersAllowed(c) == FormatAllowed(c) /\ c.queued = {}

(* VIDIOC_DQBUF fails at once unless the driver streams; if it does, it     *)
(* waits for a frame in one of the queued buffers.                          *)
DqFails(c) == ~c.open \/ ~c.streaming
Dequeued(c, i) == [c EXCEPT !.queued = @ \ {i}, !.pending = @ - 1, !.index = i]

(* VIDIOC_QBUF is refused for a buffer the driver has not or has queued.    *)
QbufWorks(c, i) == c.open /\ i \in c.allocated \ c.queued
Enqueued(c, i) == IF QbufWorks(c, i) THEN [c EXCEPT !.queued = @ \cup {i}] ELSE c

-----------------------------------------------------------------------------
(* The wrapper.                                                             *)

(* A picture takes one buffer, a preview all.                               *)
Buffers(cam_mode) == IF cam_mode = 0 THEN Bufs ELSE {0}

(* Mutant. The loop over the buffers goes one too far.                      *)
BufferMapOneMore(c, cam_mode, n) ==
  [c EXCEPT !.allocated = Buffers(cam_mode), !.queued = 0 .. n,
            !.pending = @ + n, !.index = n - 1]

(* BufferMap, which queues the n buffers.                                   *)
BufferMap(c, cam_mode, n) ==
  [c EXCEPT !.allocated = Buffers(cam_mode), !.queued = 0 .. n - 1,
            !.pending = @ + n, !.index = n - 1]

(* If buffer i cannot be mapped or queued, those before it stay queued.     *)
BufferMapFails(c, cam_mode, i) ==
  [c EXCEPT !.allocated = Buffers(cam_mode), !.queued = 0 .. i - 1,
            !.pending = @ + i, !.index = i]

(* A wrapper that thinks it streams does not ask the driver.                *)
StreamAllowed(c) == c.isStreaming \/ c.open
StartStreaming(c, cam_mode) ==
  IF c.isStreaming THEN c
  ELSE [c EXCEPT !.streaming = TRUE, !.isStreaming = cam_mode = 0]

StopStreaming(c, cam_mode) ==
  IF c.isStreaming \/ cam_mode = 1
    THEN [c EXCEPT !.streaming = FALSE, !.isStreaming = FALSE, !.queued = {}]
    ELSE c

(* Uninit dequeues all but one of the buffers the counters say are queued.  *)
ToDequeue(c) == IF c.open /\ c.pending > 1 THEN c.pending - 1 ELSE 0

(* It waits in the driver for ever for a buffer that is not queued.         *)
UninitReturns(c) == DqFails(c) \/ ToDequeue(c) <= Cardinality(c.queued)

(* Its results: which buffers it got does not matter to who calls it.       *)
Uninits(c) ==
  IF ~c.open THEN {c}
  ELSE LET left == IF DqFails(c) THEN {c.queued}
                   ELSE {s \in SUBSET c.queued :
                           Cardinality(s) = Cardinality(c.queued) - ToDequeue(c)}
       IN {[c EXCEPT !.queued = s, !.pending = 0] : s \in left}

(* Close, after which no call reaches the driver.                           *)
Close(c) ==
  [c EXCEPT !.open = FALSE, !.streaming = FALSE, !.allocated = {}, !.queued = {}]

(* ReleaseRecordFrame counts a buffer whether or not the driver took it;    *)
(* GrabPreviewFrame does the same with the one it dequeued.                 *)
EnqueueCounted(c) == [Enqueued(c, c.index) EXCEPT !.pending = @ + 1]

=============================================================================
