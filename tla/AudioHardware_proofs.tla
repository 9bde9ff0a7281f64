------------------------ MODULE AudioHardware_proofs ------------------------
(* Theorems about AudioHardware: its types, and lemmas on what the functions *)
(* that run with the hardware mutex held do to the devices, for any streams: *)
(* whose state they leave alone, and that the use counts of the playback pcm *)
(* and the mixer stay the uses there are.                                    *)
EXTENDS AudioHardware, TLAPS, FiniteSetTheorems

-----------------------------------------------------------------------------
(* The functions of hal keep its type.                                      *)

(* The fields of hal the code computes with.                                *)
LEMMA HalFields ==
  ASSUME NEW s \in HalState
  PROVE  /\ s.mMixer \in BOOLEAN /\ s.mMixerOpenCnt \in Nat
         /\ s.mPcm \in BOOLEAN /\ s.mPcmOpenCnt \in Nat
         /\ s.mMode \in AllModes /\ s.mActivatedCP \in BOOLEAN
         /\ s.mMicMute \in BOOLEAN /\ s.wakeLock \in BOOLEAN
         /\ s.mOutput \in OutStreams \cup {None} /\ s.mInputs \subseteq InStreams
         /\ s.mEchoReference \in EchoRefs \cup {None}
         /\ s.echoLive \subseteq EchoRefs
         /\ s.playbackPath \in {"RCV", "SPK", "HP", "BT", "off"}
         /\ \A o \in OutStreams : s.out[o] \in OutState
         /\ \A i \in InStreams : s.in[i] \in InState
  BY DEF HalState

(* The fields of a stream.                                                  *)
LEMMA StreamFields ==
  ASSUME NEW s \in HalState
  PROVE  /\ \A o \in OutStreams :
              /\ s.out[o].mStandby \in BOOLEAN /\ s.out[o].mPcm \in BOOLEAN
              /\ s.out[o].mMixer \in BOOLEAN
              /\ s.out[o].mDevices \in AllOutDevices
              /\ s.out[o].mEchoReference \in EchoRefs \cup {None}
              /\ s.out[o].snap \subseteq Threads
         /\ \A i \in InStreams :
              /\ s.in[i].mStandby \in BOOLEAN /\ s.in[i].mPcm \in BOOLEAN
              /\ s.in[i].mMixer \in BOOLEAN
              /\ s.in[i].mDevices \in AllInDevices
              /\ s.in[i].mEchoReference \in EchoRefs \cup {None}
              /\ s.in[i].snap \subseteq Threads
              /\ s.in[i].mNeedEchoReference \in BOOLEAN
  BY HalFields DEF OutState, InState

LEMMA SetMixerType ==
  ASSUME NEW s \in HalState, NEW n \in Nat, NEW b \in BOOLEAN
  PROVE  SetMixer(s, n, b) \in HalState
  BY DEF SetMixer, HalState

LEMMA SetPcmType ==
  ASSUME NEW s \in HalState, NEW n \in Nat, NEW b \in BOOLEAN
  PROVE  SetPcm(s, n, b) \in HalState
  BY DEF SetPcm, HalState

LEMMA SetOutType ==
  ASSUME NEW s \in HalState, NEW o \in OutStreams, NEW q \in OutState
  PROVE  SetOut(s, o, q) \in HalState
  BY DEF SetOut, HalState

LEMMA SetInType ==
  ASSUME NEW s \in HalState, NEW i \in InStreams, NEW q \in InState
  PROVE  SetIn(s, i, q) \in HalState
  BY DEF SetIn, HalState

(* One field of hal is assigned.                                            *)
LEMMA HalAssign ==
  ASSUME NEW s \in HalState, NEW b \in BOOLEAN
  PROVE  /\ [s EXCEPT !.mInCallAudioMode = b] \in HalState
         /\ [s EXCEPT !.mActivatedCP = b] \in HalState
         /\ [s EXCEPT !.mMicMute = b] \in HalState
         /\ [s EXCEPT !.mFmFd = b] \in HalState
         /\ [s EXCEPT !.mFmResumeAfterCall = b] \in HalState
         /\ [s EXCEPT !.wakeLock = b] \in HalState
         /\ \A o \in OutStreams \cup {None} : [s EXCEPT !.mOutput = o] \in HalState
         /\ \A I \in SUBSET InStreams : [s EXCEPT !.mInputs = I] \in HalState
         /\ \A x \in {"RCV", "SPK", "HP", "BT", "off"} :
              [s EXCEPT !.playbackPath = x] \in HalState
         /\ \A x \in {"MAIN", "HP", "BT", "off"} :
              [s EXCEPT !.memoPath = x] \in HalState
  BY DEF HalState

(* Fields of a stream are assigned.                                         *)
LEMMA OutAssign ==
  ASSUME NEW q \in OutState, NEW b \in BOOLEAN
  PROVE  /\ [q EXCEPT !.mMixer = b] \in OutState
         /\ [q EXCEPT !.mPcm = b] \in OutState
         /\ [q EXCEPT !.mStandby = b] \in OutState
         /\ [q EXCEPT !.mStandby = b, !.snap = {}] \in OutState
         /\ \A d \in AllOutDevices : [q EXCEPT !.mDevices = d] \in OutState
         /\ \A T \in SUBSET Threads : [q EXCEPT !.snap = T] \in OutState
         /\ \A e \in EchoRefs \cup {None} :
              [q EXCEPT !.mEchoReference = e] \in OutState
  BY DEF OutState

LEMMA InAssign ==
  ASSUME NEW q \in InState, NEW b \in BOOLEAN, NEW p \in BOOLEAN
  PROVE  /\ [q EXCEPT !.mMixer = b] \in InState
         /\ [q EXCEPT !.mPcm = b] \in InState
         /\ [q EXCEPT !.mPcm = p, !.mMixer = b] \in InState
         /\ [q EXCEPT !.mStandby = b] \in InState
         /\ [q EXCEPT !.mNeedEchoReference = b] \in InState
         /\ \A d \in AllInDevices : [q EXCEPT !.mDevices = d] \in InState
         /\ \A T \in SUBSET Threads : [q EXCEPT !.snap = T] \in InState
         /\ \A e \in EchoRefs \cup {None} :
              /\ [q EXCEPT !.mEchoReference = e] \in InState
              /\ [q EXCEPT !.mStandby = b, !.snap = {}, !.mEchoReference = e]
                   \in InState
  BY DEF InState

(* One field of a stream is assigned in place.                              *)
LEMMA StreamAssign ==
  ASSUME NEW s \in HalState, NEW b \in BOOLEAN, NEW T \in SUBSET Threads
  PROVE  /\ \A o \in OutStreams :
              /\ [s EXCEPT !.out[o].mStandby = b] \in HalState
              /\ [s EXCEPT !.out[o].snap = T] \in HalState
              /\ \A d \in AllOutDevices :
                   [s EXCEPT !.out[o].mDevices = d] \in HalState
         /\ \A i \in InStreams :
              /\ [s EXCEPT !.in[i].mStandby = b] \in HalState
              /\ [s EXCEPT !.in[i].snap = T] \in HalState
              /\ [s EXCEPT !.in[i].mNeedEchoReference = b] \in HalState
              /\ \A d \in AllInDevices :
                   [s EXCEPT !.in[i].mDevices = d] \in HalState
              /\ \A e \in EchoRefs \cup {None} :
                   [s EXCEPT !.in[i].mEchoReference = e] \in HalState
  <1>1. ASSUME NEW o \in OutStreams
        PROVE  /\ [s.out[o] EXCEPT !.mStandby = b] \in OutState
               /\ [s.out[o] EXCEPT !.snap = T] \in OutState
               /\ \A d \in AllOutDevices : [s.out[o] EXCEPT !.mDevices = d] \in OutState
    BY OutAssign, HalFields
  <1>2. ASSUME NEW o \in OutStreams
        PROVE  /\ [s EXCEPT !.out[o].mStandby = b] \in HalState
               /\ [s EXCEPT !.out[o].snap = T] \in HalState
               /\ \A d \in AllOutDevices : [s EXCEPT !.out[o].mDevices = d] \in HalState
    BY <1>1, SetOutType DEF SetOut
  <1>3. ASSUME NEW i \in InStreams
        PROVE  /\ [s.in[i] EXCEPT !.mStandby = b] \in InState
               /\ [s.in[i] EXCEPT !.snap = T] \in InState
               /\ [s.in[i] EXCEPT !.mNeedEchoReference = b] \in InState
               /\ \A d \in AllInDevices : [s.in[i] EXCEPT !.mDevices = d] \in InState
               /\ \A e \in EchoRefs \cup {None} :
                    [s.in[i] EXCEPT !.mEchoReference = e] \in InState
    BY InAssign, HalFields
  <1>4. ASSUME NEW i \in InStreams
        PROVE  /\ [s EXCEPT !.in[i].mStandby = b] \in HalState
               /\ [s EXCEPT !.in[i].snap = T] \in HalState
               /\ [s EXCEPT !.in[i].mNeedEchoReference = b] \in HalState
               /\ \A d \in AllInDevices : [s EXCEPT !.in[i].mDevices = d] \in HalState
               /\ \A e \in EchoRefs \cup {None} :
                    [s EXCEPT !.in[i].mEchoReference = e] \in HalState
    BY <1>3, SetInType DEF SetIn
  <1> QED
    BY <1>2, <1>4

(* openMixer_l, closeMixer_l, setIdleMode_l, openPcmOut_l, closePcmOut_l.   *)
LEMMA HandleType ==
  ASSUME NEW s \in HalState, NEW ok \in BOOLEAN
  PROVE  MixerHandle(s, ok) \in BOOLEAN /\ PcmHandle(s, ok) \in BOOLEAN
  BY HalFields DEF MixerHandle, PcmHandle

LEMMA OpenMixerType ==
  ASSUME NEW s \in HalState, NEW ok \in BOOLEAN
  PROVE  OpenMixer(s, ok) \in HalState
  BY SetMixerType, HandleType, HalFields DEF OpenMixer

LEMMA CloseMixerType ==
  ASSUME NEW s \in HalState
  PROVE  CloseMixer(s) \in HalState
  <1>1. (s.mMixer /\ s.mMixerOpenCnt # 1) \in BOOLEAN
    OBVIOUS
  <1>2. s.mMixerOpenCnt # 0 => s.mMixerOpenCnt - 1 \in Nat
    BY HalFields
  <1> QED
    BY <1>1, <1>2, SetMixerType DEF CloseMixer

LEMMA SetIdleModeType ==
  ASSUME NEW s \in HalState
  PROVE  SetIdleMode(s) \in HalState
  BY OpenMixerType, CloseMixerType DEF SetIdleMode

LEMMA OpenPcmOutType ==
  ASSUME NEW s \in HalState, NEW ok \in BOOLEAN
  PROVE  OpenPcmOut(s, ok) \in HalState
  BY SetPcmType, HandleType, HalFields DEF OpenPcmOut

LEMMA ClosePcmOutType ==
  ASSUME NEW s \in HalState
  PROVE  ClosePcmOut(s) \in HalState
  <1>1. (s.mPcm /\ s.mPcmOpenCnt # 1) \in BOOLEAN
    OBVIOUS
  <1>2. s.mPcmOpenCnt # 0 => s.mPcmOpenCnt - 1 \in Nat
    BY HalFields
  <1> QED
    BY <1>1, <1>2, SetPcmType, SetIdleModeType DEF ClosePcmOut

LEMMA RouteType ==
  ASSUME NEW d, NEW mute \in BOOLEAN
  PROVE  /\ OutputRoute(d) \in {"RCV", "SPK", "HP", "BT", "off"}
         /\ InputRoute(mute, d) \in {"MAIN", "HP", "BT", "off"}
  BY DEF OutputRoute, InputRoute

(* The functions of the playback stream.                                    *)
LEMMA OutCloseType ==
  ASSUME NEW s \in HalState, NEW o \in OutStreams
  PROVE  OutClose(s, o) \in HalState
  <1>1. ASSUME NEW a \in HalState PROVE OutCloseMixer(a, o) \in HalState
    BY <1>1, CloseMixerType, SetOutType, OutAssign, HalFields DEF OutCloseMixer
  <1>2. ASSUME NEW a \in HalState PROVE OutClosePcm(a, o) \in HalState
    BY <1>2, ClosePcmOutType, SetOutType, OutAssign, HalFields DEF OutClosePcm
  <1> QED
    BY <1>1, <1>2 DEF OutClose

LEMMA OutOpenType ==
  ASSUME NEW s \in HalState, NEW o \in OutStreams,
         NEW okPcm \in BOOLEAN, NEW okMixer \in BOOLEAN
  PROVE  OutOpen(s, o, okPcm, okMixer) \in HalState
  <1>1. ASSUME NEW a \in HalState PROVE OutRouted(a, o) \in HalState
    BY <1>1, HalAssign, RouteType DEF OutRouted
  <1>2. ASSUME NEW a \in HalState PROVE OutOpenMixer(a, o, okMixer) \in HalState
    BY <1>1, <1>2, OpenMixerType, HandleType, SetOutType, OutAssign, HalFields
    DEF OutOpenMixer
  <1>3. SetOut(OpenPcmOut(s, okPcm), o, [s.out[o] EXCEPT !.mPcm = TRUE]) \in HalState
    BY OpenPcmOutType, SetOutType, OutAssign, HalFields
  <1> QED
    BY <1>2, <1>3, OpenPcmOutType DEF OutOpen

LEMMA OutDoStandbyType ==
  ASSUME NEW s \in HalState, NEW o \in OutStreams
  PROVE  OutDoStandby(s, o) \in HalState
  <1> DEFINE a == [s EXCEPT !.wakeLock = @ /\ s.out[o].mStandby]
             q == [s.out[o] EXCEPT !.mStandby = TRUE, !.snap = {}]
  <1>1. a \in HalState
    BY HalAssign
  <1>2. q \in OutState
    BY OutAssign, HalFields
  <1> QED
    BY <1>1, <1>2, SetOutType, OutCloseType DEF OutDoStandby

(* The echo reference.                                                      *)
LEMMA ReleaseEchoType ==
  ASSUME NEW s \in HalState, NEW e \in EchoRefs \cup {None}
  PROVE  ReleaseEcho(s, e) \in HalState
  <1> DEFINE f == [o \in OutStreams |->
                     IF o = s.mOutput /\ s.out[o].mEchoReference = e
                     THEN [s.out[o] EXCEPT !.mEchoReference = None] ELSE s.out[o]]
  <1>1. \A o \in OutStreams : f[o] \in OutState
    BY OutAssign, HalFields
  <1>2. f \in [OutStreams -> OutState]
    BY <1>1
  <1>3. ASSUME NEW g \in [OutStreams -> OutState]
        PROVE  [s EXCEPT !.mEchoReference = None, !.echoLive = @ \ {e},
                         !.out = g] \in HalState
    BY <1>3 DEF HalState
  <1> QED
    BY <1>2, <1>3 DEF ReleaseEcho

LEMMA CreateEchoType ==
  ASSUME NEW s \in HalState, NEW o \in OutStreams, NEW e \in EchoRefs
  PROVE  CreateEcho(s, o, e) \in HalState
  <1> DEFINE q == [s.out[o] EXCEPT !.mEchoReference = IF @ = None THEN e ELSE @]
  <1>1. q \in OutState
    BY OutAssign, HalFields, StreamFields
  <1>2. [s EXCEPT !.mEchoReference = e, !.echoLive = @ \cup {e}] \in HalState
    BY DEF HalState
  <1>3. CreateEcho(s, o, e)
          = SetOut([s EXCEPT !.mEchoReference = e, !.echoLive = @ \cup {e}], o, q)
    BY DEF CreateEcho, SetOut
  <1> QED
    BY <1>1, <1>2, <1>3, SetOutType

(* The functions of a capture stream.                                       *)
LEMMA InCloseType ==
  ASSUME NEW s \in HalState, NEW i \in InStreams
  PROVE  InClose(s, i) \in HalState
  <1>1. InCloseMixer(s, i) \in HalState
    BY CloseMixerType, SetInType, InAssign, HalFields DEF InCloseMixer
  <1>2. ASSUME NEW a \in HalState PROVE InClosePcm(a, i) \in HalState
    BY <1>2, SetInType, InAssign, HalFields DEF InClosePcm
  <1> QED
    BY <1>1, <1>2, SetIdleModeType DEF InClose

LEMMA InOpenType ==
  ASSUME NEW s \in HalState, NEW i \in InStreams,
         NEW okPcm \in BOOLEAN, NEW okMixer \in BOOLEAN
  PROVE  InOpen(s, i, okPcm, okMixer) \in HalState
  <1>1. ASSUME NEW a \in HalState PROVE InRouted(a, i) \in HalState
    <2>1. InputRoute(a.mMicMute, a.in[i].mDevices) \in {"MAIN", "HP", "BT", "off"}
      BY <1>1, RouteType, HalFields
    <2> QED
      BY <1>1, <2>1, HalAssign DEF InRouted
  <1>2. [s.in[i] EXCEPT !.mPcm = TRUE, !.mMixer = MixerHandle(s, okMixer)]
          \in InState
    BY InAssign, HandleType, HalFields
  <1>3. SetIn(OpenMixer(s, okMixer), i,
              [s.in[i] EXCEPT !.mPcm = TRUE, !.mMixer = MixerHandle(s, okMixer)])
          \in HalState
    BY <1>2, OpenMixerType, SetInType
  <1> QED
    BY <1>1, <1>3 DEF InOpen

LEMMA InDoStandbyType ==
  ASSUME NEW s \in HalState, NEW i \in InStreams
  PROVE  InDoStandby(s, i) \in HalState
  <1> DEFINE e == IF s.in[i].mStandby THEN s.in[i].mEchoReference ELSE None
             q == [s.in[i] EXCEPT !.mStandby = TRUE, !.snap = {},
                                  !.mEchoReference = e]
  <1>1. e \in EchoRefs \cup {None}
    BY StreamFields
  <1>2. q \in InState
    <2> HIDE DEF e
    <2> QED BY <1>1, InAssign, HalFields
  <1>3. InDoStandby(s, i) = InClose(SetIn(s, i, q), i)
    BY DEF InDoStandby
  <1> QED
    BY <1>2, <1>3, SetInType, InCloseType

(* FM radio.                                                                *)
LEMMA EnableFmType ==
  ASSUME NEW s \in HalState, NEW okPcm \in BOOLEAN, NEW okMixer \in BOOLEAN
  PROVE  EnableFm(s, okPcm, okMixer) \in HalState
  <1>1. [OpenMixer(OpenPcmOut(s, okPcm), okMixer) EXCEPT !.mFmFd = TRUE] \in HalState
    BY OpenMixerType, OpenPcmOutType, HalAssign
  <1>2. \A a \in HalState : FmRouted(a) \in HalState
    BY HalAssign, RouteType DEF FmRouted
  <1> QED
    BY <1>1, <1>2, HalAssign DEF EnableFm

LEMMA DisableFmType ==
  ASSUME NEW s \in HalState
  PROVE  DisableFm(s) \in HalState
  BY CloseMixerType, ClosePcmOutType, HalAssign DEF DisableFm

(* The fields of a new stream.                                              *)
LEMMA NewStreamType ==
  /\ NoOut \in OutState /\ NoIn \in InState
  /\ \A d \in AllOutDevices :
       [NoOut EXCEPT !.alive = TRUE, !.mDevices = d] \in OutState
  /\ \A d \in AllInDevices :
       [NoIn EXCEPT !.alive = TRUE, !.mDevices = d] \in InState
  BY DEF NoOut, NoIn, OutState, InState, AllOutDevices, AllInDevices

LEMMA FreedType ==
  ASSUME NEW s \in HalState, NEW x \in Streams
  PROVE  Freed(s, x) \in HalState
  <1>1. x \in OutStreams => [s EXCEPT !.out[x] = NoOut] \in HalState
    BY SetOutType, NewStreamType DEF SetOut
  <1>2. x \in InStreams => [s EXCEPT !.in[x] = NoIn] \in HalState
    BY SetInType, NewStreamType DEF SetIn
  <1> QED
    BY <1>1, <1>2 DEF Freed, Streams

-----------------------------------------------------------------------------
(* The control state.                                                       *)

LEMMA HoldType ==
  ASSUME own \in [Locks -> Threads \cup {None}],
         NEW t \in Threads, NEW K, Hold(t, K)
  PROVE  own' \in [Locks -> Threads \cup {None}]
  BY DEF Hold

LEMMA GoType ==
  ASSUME th \in [Threads -> ThreadState],
         \A u \in Threads : HasPointers(th[u]),
         NEW t \in Threads, NEW q \in ThreadState, HasPointers(q), Go(t, q)
  PROVE  /\ th' \in [Threads -> ThreadState]
         /\ \A u \in Threads : HasPointers(th'[u])
  BY DEF Go

LEMMA ThreadFields ==
  ASSUME th \in [Threads -> ThreadState], NEW t \in Threads
  PROVE  /\ th[t] \in ThreadState
         /\ th[t].obj \in Streams \cup {None} /\ th[t].mode \in AllModes
         /\ th[t].spOut \in OutStreams \cup {None}
         /\ th[t].spIn \in InStreams \cup {None}
         /\ th[t].echoOut \in OutStreams \cup {None}
         /\ th[t].victim \in Streams \cup {None}
         /\ th[t].ret \in Rets
  BY DEF ThreadState

LEMMA IdleType == Idle \in ThreadState /\ HasPointers(Idle)
  BY DEF Idle, ThreadState, PCs, Rets, AllModes, HasPointers

(* One field of a thread's record is assigned.                              *)
LEMMA ThreadAssign ==
  ASSUME NEW q \in ThreadState
  PROVE  /\ \A p \in PCs : [q EXCEPT !.pc = p] \in ThreadState
         /\ \A x \in Streams \cup {None} :
              /\ [q EXCEPT !.obj = x] \in ThreadState
              /\ [q EXCEPT !.victim = x] \in ThreadState
         /\ \A m \in AllModes : [q EXCEPT !.mode = m] \in ThreadState
         /\ \A o \in OutStreams \cup {None} :
              /\ [q EXCEPT !.spOut = o] \in ThreadState
              /\ [q EXCEPT !.echoOut = o] \in ThreadState
         /\ \A i \in InStreams \cup {None} : [q EXCEPT !.spIn = i] \in ThreadState
         /\ \A ret \in Rets : [q EXCEPT !.ret = ret] \in ThreadState
  BY DEF ThreadState

LEMMA Names ==
  /\ {"idle", "write.in", "write.io", "outStandby", "read.out", "read.in",
      "read.io", "inStandby", "echo.out", "echo.in", "setMode.out",
      "setMode.in", "stuck"} \subseteq PCs
  /\ {"return", "free", "write", "enterCall", "leaveCall"} \subseteq Rets
  /\ OutStreams \subseteq Streams /\ InStreams \subseteq Streams
  BY DEF PCs, Rets, Streams

-----------------------------------------------------------------------------
(* The steps keep the type of the state; each operator that describes the   *)
(* rest of a call has its lemma.                                            *)

LEMMA StuckType ==
  ASSUME TypeOK, NEW t \in Threads, NEW K, NEW s \in HalState, Stuck(t, K, s)
  PROVE  TypeOK'
  <1> DEFINE q == [th[t] EXCEPT !.pc = "stuck"]
  <1>1. th[t] \in ThreadState /\ HasPointers(th[t])
    BY DEF TypeOK
  <1>2. q \in ThreadState
    BY <1>1, ThreadAssign, Names
  <1>3. HasPointers(q)
    BY <1>1 DEF HasPointers, ThreadState
  <1> QED
    BY <1>2, <1>3, HoldType, GoType DEF Stuck, TypeOK

LEMMA LeaveType ==
  ASSUME TypeOK, NEW t \in Threads, NEW o \in OutStreams \cup {None},
         NEW i \in InStreams \cup {None}, NEW s \in HalState, Leave(t, o, i, s)
  PROVE  TypeOK'
  <1> DEFINE p == [Idle EXCEPT !.pc = "outStandby", !.victim = o, !.ret = "free",
                               !.spIn = i]
             q == [Idle EXCEPT !.pc = "inStandby", !.victim = i, !.ret = "free"]
  <1>1. hal' \in HalState /\ own' \in [Locks -> Threads \cup {None}]
    BY HoldType DEF Leave, TypeOK
  <1>2. p \in ThreadState /\ q \in ThreadState
    BY IdleType, ThreadAssign, Names
  <1>3. CASE Dies(t, o, s)
    <2>1. HasPointers(p)
      BY <1>3 DEF HasPointers, Idle, Dies
    <2> QED
      BY <1>1, <1>2, <1>3, <2>1, GoType DEF Leave, TypeOK
  <1>4. CASE ~Dies(t, o, s) /\ Dies(t, i, s)
    <2>1. HasPointers(q)
      BY <1>4 DEF HasPointers, Idle, Dies
    <2> QED
      BY <1>1, <1>2, <1>4, <2>1, GoType DEF Leave, TypeOK
  <1>5. CASE ~Dies(t, o, s) /\ ~Dies(t, i, s)
    BY <1>1, <1>5, IdleType, GoType DEF Leave, TypeOK
  <1> QED
    BY <1>3, <1>4, <1>5

LEMMA WriteOpenedType ==
  ASSUME TypeOK, NEW t \in Threads, NEW o \in OutStreams,
         NEW i \in InStreams \cup {None}, NEW s \in HalState,
         WriteOpened(t, o, i, s)
  PROVE  TypeOK'
  <1>1. CASE Stuck(t, {o}, s)
    BY <1>1, StuckType
  <1>2. CASE ~Stuck(t, {o}, s)
    <2> DEFINE p == [Idle EXCEPT !.pc = "write.io", !.obj = o]
               q == [Idle EXCEPT !.pc = "outStandby", !.obj = o, !.victim = o]
    <2>1. [s EXCEPT !.out[o].mStandby = FALSE] \in HalState
      BY StreamAssign
    <2>2. [s EXCEPT !.wakeLock = FALSE] \in HalState
      BY HalAssign
    <2>3. p \in ThreadState /\ q \in ThreadState
      BY IdleType, ThreadAssign, Names
    <2>4. HasPointers(p) /\ HasPointers(q)
      BY DEF HasPointers, Idle
    <2> QED
      BY <1>2, <2>1, <2>2, <2>3, <2>4, HoldType, GoType DEF WriteOpened, TypeOK
  <1> QED
    BY <1>1, <1>2

LEMMA SetModeReturnType ==
  ASSUME TypeOK, NEW t \in Threads, NEW o \in OutStreams \cup {None},
         NEW i \in InStreams \cup {None}, NEW s \in HalState,
         SetModeReturn(t, o, i, s)
  PROVE  TypeOK'
  <1>1. CASE s.mFmResumeAfterCall
    <2>1. PICK okPcm \in BOOLEAN, okMixer \in BOOLEAN :
            Leave(t, o, i, EnableFm([s EXCEPT !.mFmResumeAfterCall = FALSE],
                                    okPcm, okMixer))
      BY <1>1 DEF SetModeReturn, Outcomes
    <2>2. EnableFm([s EXCEPT !.mFmResumeAfterCall = FALSE], okPcm, okMixer)
            \in HalState
      BY HalAssign, EnableFmType
    <2> QED
      BY <2>1, <2>2, LeaveType
  <1>2. CASE ~s.mFmResumeAfterCall
    BY <1>2, LeaveType DEF SetModeReturn
  <1> QED
    BY <1>1, <1>2

LEMMA EnterCallType ==
  ASSUME TypeOK, NEW t \in Threads, NEW o \in OutStreams \cup {None},
         NEW i \in InStreams \cup {None}, NEW s \in HalState,
         EnterCall(t, o, i, s)
  PROVE  TypeOK'
  <1>1. PICK okPcm \in BOOLEAN, okMixer \in BOOLEAN :
          SetModeReturn(t, o, i, [OpenMixer(OpenPcmOut(s, okPcm), okMixer)
                                    EXCEPT !.mInCallAudioMode = TRUE])
    BY DEF EnterCall, Outcomes
  <1>2. [OpenMixer(OpenPcmOut(s, okPcm), okMixer)
           EXCEPT !.mInCallAudioMode = TRUE] \in HalState
    BY OpenMixerType, OpenPcmOutType, HalAssign
  <1> QED
    BY <1>1, <1>2, SetModeReturnType

LEMMA LeaveCallType ==
  ASSUME TypeOK, NEW t \in Threads, NEW o \in OutStreams \cup {None},
         NEW i \in InStreams \cup {None}, NEW s \in HalState,
         LeaveCall(t, o, i, s)
  PROVE  TypeOK'
  BY HalAssign, SetModeReturnType DEF LeaveCall

(* The call r describes goes on after a stream was put in standby.          *)
LEMMA ResumeType ==
  ASSUME TypeOK, NEW t \in Threads, NEW q \in ThreadState, HasPointers(q),
         q.victim \in Streams, NEW s \in HalState, Resume(t, q, s)
  PROVE  TypeOK'
  <1>1. /\ q.spOut \in OutStreams \cup {None} /\ q.spIn \in InStreams \cup {None}
        /\ q.ret \in Rets /\ Freed(s, q.victim) \in HalState
    BY FreedType DEF ThreadState
  <1>2. CASE q.ret = "return"
    BY <1>1, <1>2, LeaveType DEF Resume
  <1>3. CASE q.ret = "free"
    BY <1>1, <1>3, LeaveType DEF Resume
  <1>4. CASE q.ret = "write"
    <2>1. q.obj \in OutStreams
      BY <1>4 DEF HasPointers
    <2>2. WriteOpened(t, q.obj, q.spIn, s)
      BY <1>4 DEF Resume
    <2> QED
      BY <1>1, <2>1, <2>2, WriteOpenedType
  <1>5. CASE q.ret = "enterCall"
    BY <1>1, <1>5, EnterCallType DEF Resume
  <1>6. CASE q.ret = "leaveCall"
    BY <1>1, <1>6, LeaveCallType DEF Resume
  <1> QED
    BY <1>1, <1>2, <1>3, <1>4, <1>5, <1>6 DEF Rets

LEMMA InStandbyInType ==
  ASSUME TypeOK, NEW t \in Threads, NEW K, NEW q \in ThreadState, HasPointers(q),
         q.victim \in InStreams, NEW s \in HalState, InStandbyIn(t, K, q, s)
  PROVE  TypeOK'
  <1> DEFINE i == q.victim
             waits == /\ ~s.in[i].mStandby /\ s.in[i].mEchoReference # None
                      /\ s.mOutput # None
             p == [q EXCEPT !.pc = "echo.out", !.echoOut = s.mOutput]
  <1>1. CASE waits
    <2>1. s.mOutput \in OutStreams
      BY <1>1, HalFields
    <2>2. p \in ThreadState
      BY <2>1, ThreadAssign, Names
    <2>3. HasPointers(p)
      BY <2>1 DEF HasPointers, ThreadState
    <2>4. [s EXCEPT !.in[i].snap = {}] \in HalState
      BY StreamAssign
    <2>5. hal' = [s EXCEPT !.in[i].snap = {}] /\ Hold(t, K \ {i}) /\ Go(t, p)
      BY <1>1 DEF InStandbyIn
    <2> HIDE DEF p
    <2> QED
      BY <2>2, <2>3, <2>4, <2>5, HoldType, GoType DEF TypeOK
  <1>2. CASE ~waits
    <2>1. Resume(t, q, InDoStandby(s, i))
      BY <1>2 DEF InStandbyIn
    <2>2. InDoStandby(s, i) \in HalState
      BY InDoStandbyType
    <2> QED
      BY <2>1, <2>2, ResumeType, Names
  <1> QED
    BY <1>1, <1>2

(* write() from its scan for an active input on.                            *)
LEMMA WriteOpenType ==
  ASSUME TypeOK, NEW t \in Threads, NEW o \in OutStreams,
         NEW i \in InStreams \cup {None}, NEW s \in HalState,
         WriteOpen(t, o, i, s)
  PROVE  TypeOK'
  <1>0. \A f : Outcomes(f) \subseteq BOOLEAN
    BY DEF Outcomes
  <1>1. PICK okPcm \in Outcomes("pcmOut"), okMixer \in Outcomes("mixer") :
          WriteOpen(t, o, i, s)!(okPcm, okMixer)
    BY DEF WriteOpen
  <1>2. CASE i = None
    <2>1. WriteOpened(t, o, None, OutOpen(s, o, okPcm, okMixer))
      BY <1>1, <1>2
    <2>2. OutOpen(s, o, okPcm, okMixer) \in HalState
      BY <1>0, OutOpenType
    <2> QED
      BY <2>1, <2>2, WriteOpenedType
  <1>3. CASE i # None
    <2>1. PICK okIn \in Outcomes("pcmIn"), okInMixer \in Outcomes("mixer") :
            LET a == InOpen(OutOpen(InClose(s, i), o, okPcm, okMixer),
                            i, okIn, okInMixer)
            IN  IF a.in[i].mPcm THEN WriteOpened(t, o, i, a)
                ELSE InStandbyIn(t, {o, i},
                       [Idle EXCEPT !.obj = o, !.spIn = i, !.victim = i,
                                    !.ret = "write"], a)
      BY <1>1, <1>3
    <2> DEFINE a == InOpen(OutOpen(InClose(s, i), o, okPcm, okMixer),
                           i, okIn, okInMixer)
               q == [Idle EXCEPT !.obj = o, !.spIn = i, !.victim = i,
                                 !.ret = "write"]
    <2>2. a \in HalState
      BY <1>0, <1>3, InCloseType, OutOpenType, InOpenType
    <2>3. q \in ThreadState
      BY IdleType, ThreadAssign, Names
    <2>4. HasPointers(q) /\ q.victim \in InStreams
      BY <1>3, IdleType DEF HasPointers, Idle
    <2>5. WriteOpened(t, o, i, a) \/ InStandbyIn(t, {o, i}, q, a)
      BY <2>1
    <2> HIDE DEF a, q
    <2> QED
      BY <2>2, <2>3, <2>4, <2>5, WriteOpenedType, InStandbyInType
  <1> QED
    BY <1>2, <1>3

LEMMA WriteScanType ==
  ASSUME TypeOK, NEW t \in Threads, NEW o \in OutStreams, NEW s \in HalState,
         WriteScan(t, o, s)
  PROVE  TypeOK'
  <1>1. CASE ActiveInputs(s) = {}
    BY <1>1, WriteOpenType DEF WriteScan
  <1>2. CASE ActiveInputs(s) # {}
    <2>1. PICK i \in ActiveInputs(s) :
            /\ hal' = [s EXCEPT !.in[i].snap = @ \cup {t}]
            /\ Hold(t, {o})
            /\ Go(t, [Idle EXCEPT !.pc = "write.in", !.obj = o, !.spIn = i])
      BY <1>2 DEF WriteScan
    <2> DEFINE q == [Idle EXCEPT !.pc = "write.in", !.obj = o, !.spIn = i]
    <2>2. i \in InStreams
      BY HalFields DEF ActiveInputs
    <2>3. [s EXCEPT !.in[i].snap = @ \cup {t}] \in HalState
      BY <2>2, StreamAssign, StreamFields
    <2>4. q \in ThreadState
      BY <2>2, IdleType, ThreadAssign, Names
    <2>5. HasPointers(q)
      BY <2>2 DEF HasPointers, Idle
    <2> HIDE DEF q
    <2> QED
      BY <2>1, <2>3, <2>4, <2>5, HoldType, GoType DEF TypeOK, q
  <1> QED
    BY <1>1, <1>2

(* read() from its scan for an active output on.                            *)
LEMMA ReadOpenType ==
  ASSUME TypeOK, NEW t \in Threads, NEW i \in InStreams,
         NEW o \in OutStreams \cup {None}, NEW s \in HalState,
         ReadOpen(t, i, o, s)
  PROVE  TypeOK'
  <1>0. \A f : Outcomes(f) \subseteq BOOLEAN
    BY DEF Outcomes
  <1>1. PICK okPcm \in Outcomes("pcmOut"), okMixer \in Outcomes("mixer"),
             okIn \in Outcomes("pcmIn"), okInMixer \in Outcomes("mixer"),
             okEcho \in Outcomes("echo") :
          ReadOpen(t, i, o, s)!(okPcm, okMixer, okIn, okInMixer, okEcho)
    BY DEF ReadOpen
  <1> DEFINE reopened == OutOpen(OutClose(s, o), o, okPcm, okMixer)
             a == IF o = None \/ s.out[o].mStandby THEN s
                  ELSE IF reopened.out[o].mPcm THEN reopened
                  ELSE OutDoStandby(reopened, o)
             b == ReleaseEcho(a, a.mEchoReference)
             Open(c) ==
               LET c1 == InOpen(c, i, okIn, okInMixer)
               IN  IF c1.in[i].mPcm
                   THEN /\ hal' = [c1 EXCEPT !.in[i].mStandby = FALSE]
                        /\ Hold(t, {i})
                        /\ Go(t, [Idle EXCEPT !.pc = "read.io", !.obj = i])
                   ELSE /\ hal' = c1
                        /\ Hold(t, {})
                        /\ Go(t, [Idle EXCEPT !.pc = "inStandby", !.obj = i,
                                              !.victim = i])
  <1>2. o # None => reopened \in HalState
    BY <1>0, OutCloseType, OutOpenType
  <1>3. a \in HalState
    BY <1>2, OutDoStandbyType
  <1>4. b \in HalState
    <2> HIDE DEF a
    <2> QED BY <1>3, HalFields, ReleaseEchoType
  <1>5. \/ Open(a) \/ Open(b)
        \/ \E e \in EchoRefs :
             o # None /\ Open([CreateEcho(b, o, e) EXCEPT !.in[i].mEchoReference = e])
    BY <1>1
  <1>6. ASSUME NEW e \in EchoRefs, o # None
        PROVE  [CreateEcho(b, o, e) EXCEPT !.in[i].mEchoReference = e] \in HalState
    <2> HIDE DEF b
    <2> QED BY <1>4, <1>6, CreateEchoType, StreamAssign
  <1>7. ASSUME NEW c \in HalState, Open(c) PROVE TypeOK'
    <2> DEFINE c1 == InOpen(c, i, okIn, okInMixer)
               p == [Idle EXCEPT !.pc = "read.io", !.obj = i]
               q == [Idle EXCEPT !.pc = "inStandby", !.obj = i, !.victim = i]
    <2>1. c1 \in HalState
      BY <1>0, <1>7, InOpenType
    <2>5. [c1 EXCEPT !.in[i].mStandby = FALSE] \in HalState
      <3> HIDE DEF c1
      <3> QED BY <2>1, StreamAssign
    <2>2. p \in ThreadState /\ q \in ThreadState
      BY IdleType, ThreadAssign, Names
    <2>3. HasPointers(p) /\ HasPointers(q)
      BY DEF HasPointers, Idle
    <2>4. \/ hal' = [c1 EXCEPT !.in[i].mStandby = FALSE] /\ Hold(t, {i}) /\ Go(t, p)
          \/ hal' = c1 /\ Hold(t, {}) /\ Go(t, q)
      BY <1>7
    <2> HIDE DEF c1, p, q
    <2> QED
      BY <2>1, <2>5, <2>2, <2>3, <2>4, HoldType, GoType DEF TypeOK
  <1> HIDE DEF a, b, Open
  <1> QED
    BY <1>3, <1>4, <1>5, <1>6, <1>7

LEMMA ReadScanType ==
  ASSUME TypeOK, NEW t \in Threads, NEW i \in InStreams, NEW s \in HalState,
         ReadScan(t, i, s)
  PROVE  TypeOK'
  <1>1. CASE s.mOutput = None
    BY <1>1, ReadOpenType DEF ReadScan
  <1>2. CASE s.mOutput # None
    <2> DEFINE q == [Idle EXCEPT !.pc = "read.out", !.obj = i, !.spOut = s.mOutput]
    <2>1. s.mOutput \in OutStreams
      BY <1>2, HalFields
    <2>2. q \in ThreadState
      BY <2>1, IdleType, ThreadAssign, Names
    <2>3. HasPointers(q)
      BY <2>1 DEF HasPointers, Idle
    <2> QED
      BY <1>2, <2>2, <2>3, HoldType, GoType DEF ReadScan, TypeOK
  <1> QED
    BY <1>1, <1>2

(* setMode() from its body back to its scans.                               *)
LEMMA SetModeBodyType ==
  ASSUME TypeOK, NEW t \in Threads, NEW m \in AllModes,
         NEW o \in OutStreams \cup {None}, NEW i \in InStreams \cup {None},
         NEW s \in HalState, SetModeBody(t, m, o, i, s)
  PROVE  TypeOK'
  <1>1. PICK ril \in BOOLEAN : SetModeBody(t, m, o, i, s)!(ril)
    BY DEF SetModeBody, Outcomes
  <1> DEFINE cp == m # "NORMAL" /\ (s.mActivatedCP \/ (s.mMode = "NORMAL" /\ ril))
             a == [s EXCEPT !.mMode = m, !.mActivatedCP = cp]
             path == IF a.mMixer THEN "RCV" ELSE a.playbackPath
             reset == [a EXCEPT !.playbackPath = path]
             OutDown(b) == IF o = None THEN b ELSE OutDoStandby(b, o)
             r(ret) == [Idle EXCEPT !.spOut = o, !.spIn = i, !.victim = i, !.ret = ret]
             InDown(ret, b) == InStandbyIn(t, {o, i} \ {None}, r(ret), b)
             down == OutDown(ClosePcmOut(CloseMixer(reset)))
  <1>2. a \in HalState
    <2>1. cp \in BOOLEAN
      BY HalFields
    <2> HIDE DEF cp
    <2> QED BY <2>1 DEF HalState
  <1>3. reset \in HalState
    <2> HIDE DEF a
    <2> QED BY <1>2, HalFields, HalAssign
  <1>4. ASSUME NEW b \in HalState PROVE OutDown(b) \in HalState
    BY <1>4, OutDoStandbyType
  <1>5. down \in HalState
    <2> HIDE DEF reset, OutDown
    <2> QED BY <1>3, <1>4, CloseMixerType, ClosePcmOutType
  <1>6. ASSUME NEW ret \in {"enterCall", "leaveCall"}, NEW b \in HalState,
               i # None, InDown(ret, b)
        PROVE  TypeOK'
    <2>1. r(ret) \in ThreadState
      BY IdleType, ThreadAssign, Names
    <2>2. HasPointers(r(ret)) /\ r(ret).victim \in InStreams
      BY <1>6 DEF HasPointers, Idle
    <2> HIDE DEF r
    <2> QED
      BY <1>6, <2>1, <2>2, InStandbyInType
  <1>7. \/ SetModeReturn(t, o, i, s)
        \/ EnterCall(t, o, i, OutDown(a))
        \/ i # None /\ InDown("enterCall", OutDown(a))
        \/ LeaveCall(t, o, i, down)
        \/ i # None /\ InDown("leaveCall", down)
        \/ SetModeReturn(t, o, i, a)
    BY <1>1
  <1> HIDE DEF a, OutDown, InDown, down
  <1> QED
    BY <1>2, <1>4, <1>5, <1>6, <1>7, SetModeReturnType, EnterCallType, LeaveCallType

LEMMA SetModeScanInType ==
  ASSUME TypeOK, NEW t \in Threads, NEW m \in AllModes,
         NEW o \in OutStreams \cup {None}, NEW s \in HalState,
         SetModeScanIn(t, m, o, s)
  PROVE  TypeOK'
  <1>1. CASE ActiveInputs(s) = {}
    BY <1>1, SetModeBodyType DEF SetModeScanIn
  <1>2. CASE ActiveInputs(s) # {}
    <2>1. PICK i \in ActiveInputs(s) :
            /\ hal' = [s EXCEPT !.in[i].snap = @ \cup {t}]
            /\ Hold(t, {o} \ {None})
            /\ Go(t, [Idle EXCEPT !.pc = "setMode.in", !.mode = m, !.spOut = o,
                                  !.spIn = i])
      BY <1>2 DEF SetModeScanIn
    <2> DEFINE q == [Idle EXCEPT !.pc = "setMode.in", !.mode = m, !.spOut = o,
                                 !.spIn = i]
    <2>2. i \in InStreams
      BY HalFields DEF ActiveInputs
    <2>3. [s EXCEPT !.in[i].snap = @ \cup {t}] \in HalState
      BY <2>2, StreamAssign, StreamFields
    <2>4. q \in ThreadState
      BY <2>2, IdleType, ThreadAssign, Names
    <2>5. HasPointers(q)
      BY <2>2 DEF HasPointers, Idle
    <2> HIDE DEF q
    <2> QED
      BY <2>1, <2>3, <2>4, <2>5, HoldType, GoType DEF TypeOK, q
  <1> QED
    BY <1>1, <1>2

LEMMA SetModeScanOutType ==
  ASSUME TypeOK, NEW t \in Threads, NEW m \in AllModes, NEW s \in HalState,
         SetModeScanOut(t, m, s)
  PROVE  TypeOK'
  <1> DEFINE o == s.mOutput
             q == [Idle EXCEPT !.pc = "setMode.out", !.mode = m, !.spOut = o]
  <1>1. CASE o = None \/ s.out[o].mStandby
    BY <1>1, SetModeScanInType DEF SetModeScanOut
  <1>2. CASE ~(o = None \/ s.out[o].mStandby)
    <2>1. o \in OutStreams
      BY <1>2, HalFields
    <2>2. [s EXCEPT !.out[o].snap = @ \cup {t}] \in HalState
      BY <2>1, StreamAssign, StreamFields
    <2>3. q \in ThreadState
      BY <2>1, IdleType, ThreadAssign, Names
    <2>4. HasPointers(q)
      BY <2>1 DEF HasPointers, Idle
    <2>5. hal' = [s EXCEPT !.out[o].snap = @ \cup {t}] /\ Hold(t, {}) /\ Go(t, q)
      BY <1>2 DEF SetModeScanOut
    <2> HIDE DEF q
    <2> QED
      BY <2>2, <2>3, <2>4, <2>5, HoldType, GoType DEF TypeOK
  <1> QED
    BY <1>1, <1>2

-----------------------------------------------------------------------------
(* The state has its type: every field of the hardware object and of the    *)
(* streams keeps its range (the counts never go below zero), and a thread   *)
(* that waits for a mutex never follows a NULL or foreign pointer next,     *)
(* whatever the threads, streams, faults and calls.                         *)

LEMMA InitType == Init => TypeOK
  <1> SUFFICES ASSUME Init PROVE TypeOK
    OBVIOUS
  <1>1. hal \in HalState
    BY NewStreamType DEF Init, HalState, AllModes
  <1>2. own \in [Locks -> Threads \cup {None}]
    BY DEF Init
  <1>3. th \in [Threads -> ThreadState] /\ \A t \in Threads : HasPointers(th[t])
    BY IdleType DEF Init
  <1> QED
    BY <1>1, <1>2, <1>3 DEF TypeOK

(* Calls on the playback stream.                                            *)
LEMMA OutCallsType ==
  ASSUME TypeOK, NEW t \in Threads, OutCalls(t)
  PROVE  TypeOK'
  <1>0. hal \in HalState /\ hal.mOutput \in OutStreams \cup {None}
    BY HalFields DEF TypeOK
  <1>1. ASSUME NEW d \in OutDevices, OpenOutputStream(t, d) PROVE TypeOK'
    <2>1. PICK o \in OutStreams :
            hal' = [hal EXCEPT !.mOutput = o,
                      !.out[o] = [NoOut EXCEPT !.alive = TRUE, !.mDevices = d]]
      BY <1>1 DEF OpenOutputStream
    <2>2. [NoOut EXCEPT !.alive = TRUE, !.mDevices = d] \in OutState
      BY NewStreamType, HalAssumption
    <2>3. hal' = SetOut([hal EXCEPT !.mOutput = o], o,
                        [NoOut EXCEPT !.alive = TRUE, !.mDevices = d])
      BY <2>1 DEF SetOut
    <2>4. hal' \in HalState
      BY <1>0, <2>2, <2>3, HalAssign, SetOutType
    <2> QED
      BY <1>1, <2>4 DEF OpenOutputStream, TypeOK
  <1>2. ASSUME NEW d \in OutDevices, OutSetParameters(t, d) PROVE TypeOK'
    <2> DEFINE o == hal.mOutput
               s == [hal EXCEPT !.out[o].mDevices = d]
    <2>1. o \in OutStreams
      BY <1>0, <1>2 DEF OutSetParameters
    <2>2. s \in HalState
      BY <1>0, <2>1, StreamAssign, HalAssumption
    <2>3. hal' = s \/ hal' = OutDoStandby(s, o)
      BY <1>2 DEF OutSetParameters
    <2> HIDE DEF s
    <2>4. hal' \in HalState
      BY <2>1, <2>2, <2>3, OutDoStandbyType
    <2> QED
      BY <1>2, <2>4 DEF OutSetParameters, TypeOK
  <1>3. ASSUME CloseOutputStream(t) PROVE TypeOK'
    <2> DEFINE o == hal.mOutput
               s == [hal EXCEPT !.mOutput = None]
               q(i) == [Idle EXCEPT !.pc = "inStandby", !.victim = i,
                                    !.spOut = o, !.spIn = i]
    <2>1. s \in HalState
      BY <1>0, HalAssign
    <2>2. ASSUME NEW i \in InStreams
          PROVE  q(i) \in ThreadState /\ HasPointers(q(i))
      <3>1. q(i) \in ThreadState
        BY <1>0, IdleType, ThreadAssign, Names
      <3>2. HasPointers(q(i))
        BY DEF HasPointers, Idle
      <3> QED
        BY <3>1, <3>2
    <2>3. \/ Leave(t, o, None, s)
          \/ \E i \in InStreams : hal' = s /\ Go(t, q(i)) /\ UNCHANGED own
      BY <1>0, <1>3, HalFields DEF CloseOutputStream, ActiveInputs
    <2> HIDE DEF s, q
    <2> QED
      BY <1>0, <2>1, <2>2, <2>3, LeaveType, GoType DEF TypeOK
  <1>4. ASSUME OutStandby(t) PROVE TypeOK'
    BY <1>0, <1>4, OutDoStandbyType DEF OutStandby, TypeOK
  <1>5. ASSUME WriteActive(t) PROVE TypeOK'
    <2> DEFINE q == [Idle EXCEPT !.pc = "write.io", !.obj = hal.mOutput]
    <2>1. hal.mOutput \in OutStreams
      BY <1>0, <1>5 DEF WriteActive
    <2>2. q \in ThreadState
      BY <2>1, IdleType, ThreadAssign, Names
    <2>3. HasPointers(q)
      BY <2>1 DEF HasPointers, Idle
    <2> QED
      BY <1>5, <2>2, <2>3, HoldType, GoType DEF WriteActive, TypeOK
  <1>6. ASSUME WriteExitStandby(t) PROVE TypeOK'
    BY <1>0, <1>6, HalAssign, WriteScanType DEF WriteExitStandby
  <1> QED
    BY <1>1, <1>2, <1>3, <1>4, <1>5, <1>6 DEF OutCalls

(* Calls on a capture stream.                                               *)
LEMMA InCallsType ==
  ASSUME TypeOK, NEW t \in Threads, InCalls(t)
  PROVE  TypeOK'
  <1>0. hal \in HalState /\ hal.mInputs \subseteq InStreams
    BY HalFields DEF TypeOK
  <1>9. ASSUME NEW i \in InStreams
        PROVE  LET q == [Idle EXCEPT !.obj = i, !.victim = i]
                   p == [Idle EXCEPT !.pc = "inStandby", !.obj = i, !.victim = i]
                   x == [Idle EXCEPT !.pc = "read.io", !.obj = i]
               IN  /\ q \in ThreadState /\ HasPointers(q) /\ q.victim = i
                   /\ p \in ThreadState /\ HasPointers(p)
                   /\ x \in ThreadState /\ HasPointers(x)
    <2>1. /\ [Idle EXCEPT !.obj = i, !.victim = i] \in ThreadState
          /\ [Idle EXCEPT !.pc = "inStandby", !.obj = i, !.victim = i] \in ThreadState
          /\ [Idle EXCEPT !.pc = "read.io", !.obj = i] \in ThreadState
      BY IdleType, ThreadAssign, Names
    <2> QED
      BY <2>1 DEF HasPointers, Idle
  <1>1. ASSUME NEW d \in InDevices, OpenInputStream(t, d) PROVE TypeOK'
    <2>1. PICK i \in InStreams :
            hal' = [hal EXCEPT !.mInputs = @ \cup {i},
                      !.in[i] = [NoIn EXCEPT !.alive = TRUE, !.mDevices = d]]
      BY <1>1 DEF OpenInputStream
    <2>2. [NoIn EXCEPT !.alive = TRUE, !.mDevices = d] \in InState
      BY NewStreamType, HalAssumption
    <2>3. hal' = SetIn([hal EXCEPT !.mInputs = @ \cup {i}], i,
                       [NoIn EXCEPT !.alive = TRUE, !.mDevices = d])
      BY <2>1 DEF SetIn
    <2>4. hal' \in HalState
      BY <1>0, <2>2, <2>3, HalAssign, SetInType
    <2> QED
      BY <1>1, <2>4 DEF OpenInputStream, TypeOK
  <1>2. ASSUME NEW d \in InDevices, NEW i \in InStreams, InSetParameters(t, i, d)
        PROVE  TypeOK'
    <2> DEFINE s == [hal EXCEPT !.in[i].mDevices = d]
               q == [Idle EXCEPT !.obj = i, !.victim = i]
    <2>1. s \in HalState
      BY <1>0, StreamAssign, HalAssumption
    <2>2. \/ hal' = s /\ UNCHANGED <<own, th>>
          \/ InStandbyIn(t, {i}, q, s)
      BY <1>2 DEF InSetParameters
    <2>3. q \in ThreadState /\ HasPointers(q) /\ q.victim = i
      BY <1>9
    <2> HIDE DEF s, q
    <2> QED
      BY <2>1, <2>2, <2>3, InStandbyInType DEF TypeOK
  <1>3. ASSUME NEW i \in InStreams, CloseInputStream(t, i) PROVE TypeOK'
    BY <1>0, <1>3, HalAssign, LeaveType DEF CloseInputStream
  <1>4. ASSUME NEW i \in InStreams, InStandby(t, i) PROVE TypeOK'
    <2> DEFINE q == [Idle EXCEPT !.obj = i, !.victim = i]
    <2>1. InStandbyIn(t, {i}, q, hal)
      BY <1>4 DEF InStandby
    <2>2. q \in ThreadState /\ HasPointers(q) /\ q.victim = i
      BY <1>9
    <2> HIDE DEF q
    <2> QED
      BY <1>0, <2>1, <2>2, InStandbyInType
  <1>5. ASSUME NEW i \in InStreams, InSetSource(t, i) PROVE TypeOK'
    BY <1>0, <1>5, OpenMixerType, CloseMixerType DEF InSetSource, Outcomes, TypeOK
  <1>6. ASSUME NEW i \in InStreams, NEW c, NEW need \in BOOLEAN,
               SetNeedEcho(t, i, c, need)
        PROVE  TypeOK'
    BY <1>0, <1>6, <1>9, StreamAssign, GoType DEF SetNeedEcho, TypeOK
  <1>7. ASSUME NEW i \in InStreams, ReadActive(t, i) PROVE TypeOK'
    BY <1>7, <1>9, HoldType, GoType DEF ReadActive, TypeOK
  <1>8. ASSUME NEW i \in InStreams, ReadExitStandby(t, i) PROVE TypeOK'
    BY <1>0, <1>8, ReadScanType DEF ReadExitStandby
  <1> QED
    BY <1>1, <1>2, <1>3, <1>4, <1>5, <1>6, <1>7, <1>8
    DEF InCalls, AddAudioEffect, RemoveAudioEffect

(* Calls on the hardware object.                                            *)
LEMMA HwCallsType ==
  ASSUME TypeOK, NEW t \in Threads, HwCalls(t)
  PROVE  TypeOK'
  <1>0. hal \in HalState
    BY DEF TypeOK
  <1>1. ASSUME NEW m \in Modes, SetMode(t, m) PROVE TypeOK'
    BY <1>0, <1>1, SetModeScanOutType, HalAssumption DEF SetMode
  <1>2. ASSUME SetMicMute(t) PROVE TypeOK'
    <2> DEFINE s == [hal EXCEPT !.mMicMute = ~@]
               q(i) == [Idle EXCEPT !.pc = "inStandby", !.victim = i, !.spIn = i]
    <2>1. s \in HalState
      BY <1>0, HalFields, HalAssign
    <2>2. ASSUME NEW i \in InStreams
          PROVE  q(i) \in ThreadState /\ HasPointers(q(i))
      <3>1. q(i) \in ThreadState
        BY IdleType, ThreadAssign, Names
      <3>2. HasPointers(q(i))
        BY DEF HasPointers, Idle
      <3> QED
        BY <3>1, <3>2
    <2>3. \/ hal' = s /\ UNCHANGED <<own, th>>
          \/ \E i \in InStreams : hal' = s /\ Go(t, q(i)) /\ UNCHANGED own
      BY <1>0, <1>2, HalFields DEF SetMicMute, ActiveInputs
    <2> HIDE DEF s, q
    <2> QED
      BY <2>1, <2>2, <2>3, GoType DEF TypeOK
  <1>3. ASSUME EnableFMRadio(t) PROVE TypeOK'
    BY <1>0, <1>3, EnableFmType DEF EnableFMRadio, Outcomes, TypeOK
  <1>4. ASSUME DisableFMRadio(t) PROVE TypeOK'
    BY <1>0, <1>4, DisableFmType DEF DisableFMRadio, TypeOK
  <1> QED
    BY <1>1, <1>2, <1>3, <1>4 DEF HwCalls

(* The steps of a thread inside a call.                                     *)
LEMMA AdvanceType ==
  ASSUME TypeOK, NEW t \in Threads, Advance(t)
  PROVE  TypeOK'
  <1> DEFINE r == th[t]
  <1>0. /\ hal \in HalState /\ r \in ThreadState /\ HasPointers(r)
        /\ r.mode \in AllModes /\ r.spOut \in OutStreams \cup {None}
        /\ r.spIn \in InStreams \cup {None} /\ r.victim \in Streams \cup {None}
        /\ r.obj \in Streams \cup {None}
    BY ThreadFields DEF TypeOK
  <1>1. ASSUME WriteLockIn(t) PROVE TypeOK'
    <2> DEFINE s == [hal EXCEPT !.in[r.spIn].snap = @ \ {t}]
    <2>1. r.obj \in OutStreams /\ r.spIn \in InStreams
      BY <1>0, <1>1 DEF WriteLockIn, HasPointers
    <2>2. s \in HalState
      BY <1>0, <2>1, StreamAssign, StreamFields
    <2>3. \/ WriteOpen(t, r.obj, r.spIn, s)
          \/ Stuck(t, {r.obj}, s)
          \/ WriteScan(t, r.obj, s)
      BY <1>1 DEF WriteLockIn
    <2> HIDE DEF s
    <2> QED
      BY <2>1, <2>2, <2>3, WriteOpenType, StuckType, WriteScanType
  <1>2. ASSUME OutStandbyLock(t) PROVE TypeOK'
    <2>1. r.victim \in OutStreams
      BY <1>0, <1>2 DEF OutStandbyLock, HasPointers
    <2>2. OutDoStandby(hal, r.victim) \in HalState
      BY <1>0, <2>1, OutDoStandbyType
    <2>3. Resume(t, r, OutDoStandby(hal, r.victim))
      BY <1>2 DEF OutStandbyLock
    <2> QED
      BY <1>0, <2>1, <2>2, <2>3, ResumeType, Names
  <1>3. ASSUME ReadLockOut(t) PROVE TypeOK'
    <2> DEFINE q == [r EXCEPT !.pc = "read.in"]
    <2>1. q \in ThreadState
      BY <1>0, ThreadAssign, Names
    <2>2. HasPointers(q)
      BY <1>0, <1>3 DEF ReadLockOut, HasPointers, ThreadState
    <2> QED
      BY <1>3, <2>1, <2>2, HoldType, GoType DEF ReadLockOut, TypeOK
  <1>4. ASSUME ReadLockIn(t) PROVE TypeOK'
    <2>1. r.obj \in InStreams
      BY <1>0, <1>4 DEF ReadLockIn, HasPointers
    <2>2. \/ ReadOpen(t, r.obj, r.spOut, hal)
          \/ Stuck(t, {r.obj}, hal)
          \/ ReadScan(t, r.obj, hal)
      BY <1>4 DEF ReadLockIn
    <2> QED
      BY <1>0, <2>1, <2>2, ReadOpenType, StuckType, ReadScanType
  <1>5. ASSUME InStandbyLock(t) PROVE TypeOK'
    <2>1. r.victim \in InStreams
      BY <1>0, <1>5 DEF InStandbyLock, HasPointers
    <2> QED
      BY <1>0, <1>5, <2>1, InStandbyInType DEF InStandbyLock
  <1>6. ASSUME EchoLockOut(t) PROVE TypeOK'
    <2> DEFINE q == [r EXCEPT !.pc = "echo.in"]
    <2>1. q \in ThreadState
      BY <1>0, ThreadAssign, Names
    <2>2. HasPointers(q)
      BY <1>0, <1>6 DEF EchoLockOut, HasPointers, ThreadState
    <2> QED
      BY <1>6, <2>1, <2>2, HoldType, GoType DEF EchoLockOut, TypeOK
  <1>7. ASSUME EchoLockIn(t) PROVE TypeOK'
    <2> DEFINE i == r.victim
               rel == ReleaseEcho(hal, hal.in[i].mEchoReference)
               s == InDoStandby(rel, i)
               q == [r EXCEPT !.echoOut = None]
               K == (Held(t) \ {r.echoOut}) \cup {i}
    <2>1. i \in InStreams /\ r.pc = "echo.in"
      BY <1>0, <1>7 DEF EchoLockIn, HasPointers
    <2>2. rel \in HalState
      BY <1>0, <2>1, StreamFields, ReleaseEchoType
    <2>3. s \in HalState
      <3> HIDE DEF rel
      <3> QED BY <2>1, <2>2, InDoStandbyType
    <2>4. Stuck(t, K, hal) \/ Resume(t, q, s)
      BY <1>7 DEF EchoLockIn
    <2>5. q \in ThreadState
      BY <1>0, ThreadAssign
    <2>6. CASE Resume(t, q, s)
      <3>1. q.victim = i /\ q.obj = r.obj /\ q.ret = r.ret /\ q.spOut = r.spOut
            /\ q.spIn = r.spIn
        BY <1>0 DEF ThreadState
      <3> DEFINE p == [q EXCEPT !.pc = "inStandby"]
      <3>2. p \in ThreadState
        BY <2>5, ThreadAssign, Names
      <3>3. HasPointers(p) /\ p.victim \in Streams
        BY <1>0, <2>1, <2>5, Names DEF HasPointers, ThreadState
      <3>4. Resume(t, p, s)
        <4>1. p.victim = q.victim /\ p.obj = q.obj /\ p.ret = q.ret
              /\ p.spOut = q.spOut /\ p.spIn = q.spIn
          BY <2>5 DEF ThreadState
        <4> HIDE DEF p, q, s
        <4> QED
          BY <2>6, <4>1 DEF Resume
      <3> HIDE DEF p, s
      <3> QED
        BY <2>3, <3>2, <3>3, <3>4, ResumeType
    <2> HIDE DEF K
    <2> QED
      BY <1>0, <2>4, <2>6, StuckType
  <1>8. ASSUME SetModeLockOut(t) PROVE TypeOK'
    <2> DEFINE s == [hal EXCEPT !.out[r.spOut].snap = @ \ {t}]
    <2>1. r.spOut \in OutStreams
      BY <1>0, <1>8 DEF SetModeLockOut, HasPointers
    <2>2. s \in HalState
      BY <1>0, <2>1, StreamAssign, StreamFields
    <2>3. \/ SetModeScanIn(t, r.mode, r.spOut, s)
          \/ Stuck(t, {}, s)
          \/ SetModeScanOut(t, r.mode, s)
      BY <1>8 DEF SetModeLockOut
    <2> HIDE DEF s
    <2> QED
      BY <1>0, <2>2, <2>3, SetModeScanInType, StuckType, SetModeScanOutType
  <1>9. ASSUME SetModeLockIn(t) PROVE TypeOK'
    <2> DEFINE s == [hal EXCEPT !.in[r.spIn].snap = @ \ {t}]
    <2>1. r.spIn \in InStreams
      BY <1>0, <1>9 DEF SetModeLockIn, HasPointers
    <2>2. s \in HalState
      BY <1>0, <2>1, StreamAssign, StreamFields
    <2>3. \/ SetModeBody(t, r.mode, r.spOut, r.spIn, s)
          \/ Stuck(t, {r.spOut} \ {None}, s)
          \/ SetModeScanIn(t, r.mode, r.spOut, s)
      BY <1>9 DEF SetModeLockIn
    <2> HIDE DEF s
    <2> QED
      BY <1>0, <2>2, <2>3, SetModeBodyType, StuckType, SetModeScanInType
  <1>10. ASSUME NEW ok \in BOOLEAN, WriteDone(t, ok) \/ ReadDone(t, ok)
         PROVE  TypeOK'
    <2> DEFINE p == [r EXCEPT !.pc = "outStandby", !.victim = r.obj]
               q == [r EXCEPT !.pc = "inStandby", !.victim = r.obj]
    <2>1. p \in ThreadState /\ q \in ThreadState
      BY <1>0, ThreadAssign, Names
    <2>2. CASE WriteDone(t, ok)
      <3>1. HasPointers(p)
        BY <1>0, <2>2 DEF WriteDone, HasPointers, ThreadState
      <3> QED
        BY <2>1, <2>2, <3>1, IdleType, HoldType, GoType DEF WriteDone, TypeOK
    <2>3. CASE ReadDone(t, ok)
      <3>1. HasPointers(q)
        BY <1>0, <2>3 DEF ReadDone, HasPointers, ThreadState
      <3> QED
        BY <2>1, <2>3, <3>1, IdleType, HoldType, GoType DEF ReadDone, TypeOK
    <2> QED
      BY <1>10, <2>2, <2>3
  <1> QED
    BY <1>1, <1>2, <1>3, <1>4, <1>5, <1>6, <1>7, <1>8, <1>9, <1>10 DEF Advance

THEOREM TypeCorrect == Spec => []TypeOK
  <1>1. TypeOK /\ [Next]_vars => TypeOK'
    <2> SUFFICES ASSUME TypeOK, [Next]_vars PROVE TypeOK'
      OBVIOUS
    <2>1. CASE Next
      BY <2>1, OutCallsType, InCallsType, HwCallsType, AdvanceType DEF Next
    <2>2. CASE UNCHANGED vars
      BY <2>2 DEF vars, TypeOK
    <2> QED
      BY <2>1, <2>2
  <1> QED
    BY InitType, <1>1, PTL DEF Spec


-----------------------------------------------------------------------------
(* The counts and the uses.  n uses are those of the call and of FM.         *)
Outs(s) == {o \in OutStreams : s.out[o].mPcm}
OutMixers(s) == {o \in OutStreams : s.out[o].mMixer}
InMixers(s) == {i \in InStreams : s.in[i].mMixer}

(* A handle is there if and only if its count is not zero.                   *)
Handles(s) == (s.mMixer <=> s.mMixerOpenCnt > 0) /\ (s.mPcm <=> s.mPcmOpenCnt > 0)

PcmCount(s, n) == s.mPcmOpenCnt = Cardinality(Outs(s)) + n

MixerCount(s, n) ==
  s.mMixerOpenCnt = Cardinality(OutMixers(s)) + Cardinality(InMixers(s)) + n

Uses(s, n) == Handles(s) /\ PcmCount(s, n) /\ MixerCount(s, n)

SamePcm(s, a) == a.mPcmOpenCnt = s.mPcmOpenCnt /\ (a.mPcm <=> s.mPcm)

SameMixer(s, a) == a.mMixerOpenCnt = s.mMixerOpenCnt /\ (a.mMixer <=> s.mMixer)

(* What a stream is told apart by, but for its devices, its echo reference   *)
(* and the copies of its count.                                              *)
SameDev(p, q) ==
  (p.mStandby <=> q.mStandby) /\ (p.mPcm <=> q.mPcm) /\ (p.mMixer <=> q.mMixer)

Off(p) == ~p.mPcm /\ ~p.mMixer

(* The fields that say what mode the object is in.                           *)
SameCall(s, a) ==
  /\ a.mMode = s.mMode /\ a.mInCallAudioMode = s.mInCallAudioMode
  /\ a.mFmFd = s.mFmFd /\ a.mFmResumeAfterCall = s.mFmResumeAfterCall

(* No capture stream wants or has an echo reference.                         *)
NoEchoRefs(s) ==
  \A i \in InStreams :
    s.in[i].mNeedEchoReference = FALSE /\ s.in[i].mEchoReference = None

(* From s to a only the devices are touched.                                 *)
Base(s, a) ==
  /\ a \in HalState
  /\ a.out = s.out /\ a.in = s.in
  /\ a.mOutput = s.mOutput /\ a.mInputs = s.mInputs
  /\ SameCall(s, a)

(* From s to a only the streams in X are touched, and no stream comes or     *)
(* goes.                                                                     *)
Frame(s, a, X) ==
  /\ a \in HalState
  /\ a.mOutput = s.mOutput /\ a.mInputs = s.mInputs
  /\ \A o \in OutStreams : /\ a.out[o].alive <=> s.out[o].alive
                           /\ o \notin X => SameDev(a.out[o], s.out[o])
  /\ \A i \in InStreams : /\ a.in[i].alive <=> s.in[i].alive
                          /\ i \notin X => SameDev(a.in[i], s.in[i])
  /\ NoEchoRefs(s) => NoEchoRefs(a)

LEMMA BaseTrans ==
  ASSUME NEW s, NEW a, NEW b, Base(s, a), Base(a, b)
  PROVE  Base(s, b)
  BY DEF Base, SameCall

LEMMA BaseFrame ==
  ASSUME NEW s, NEW a, NEW X, Base(s, a)
  PROVE  Frame(s, a, X)
  BY DEF Base, Frame, SameDev, NoEchoRefs

LEMMA FrameTrans ==
  ASSUME NEW s, NEW a, NEW b, NEW X, Frame(s, a, X), Frame(a, b, X)
  PROVE  Frame(s, b, X)
  BY DEF Frame, SameDev

LEMMA FrameMore ==
  ASSUME NEW s, NEW a, NEW X, NEW Y, Frame(s, a, X), X \subseteq Y
  PROVE  Frame(s, a, Y)
  BY DEF Frame

LEMMA FiniteStreams ==
  ASSUME NEW s
  PROVE  /\ IsFiniteSet(Outs(s)) /\ IsFiniteSet(OutMixers(s))
         /\ IsFiniteSet(InMixers(s))
         /\ Cardinality(Outs(s)) \in Nat /\ Cardinality(OutMixers(s)) \in Nat
         /\ Cardinality(InMixers(s)) \in Nat
  <1>1. /\ Outs(s) \subseteq OutStreams /\ OutMixers(s) \subseteq OutStreams
        /\ InMixers(s) \subseteq InStreams
    BY DEF Outs, OutMixers, InMixers
  <1>2. /\ IsFiniteSet(Outs(s)) /\ IsFiniteSet(OutMixers(s))
        /\ IsFiniteSet(InMixers(s))
    BY <1>1, HalAssumption, FS_Subset
  <1> QED
    BY <1>2, FS_CardinalityType

-----------------------------------------------------------------------------
(* openMixer_l, closeMixer_l, setIdleMode_l, openPcmOut_l, closePcmOut_l.    *)
LEMMA SetBase ==
  ASSUME NEW s \in HalState, NEW n \in Nat, NEW b \in BOOLEAN
  PROVE  Base(s, SetMixer(s, n, b)) /\ Base(s, SetPcm(s, n, b))
  <1>1. SetMixer(s, n, b) \in HalState /\ SetPcm(s, n, b) \in HalState
    BY SetMixerType, SetPcmType
  <1> QED
    BY <1>1 DEF Base, SameCall, SetMixer, SetPcm, HalState

LEMMA SetCounts ==
  ASSUME NEW s, NEW n, NEW b, s \in HalState, n \in Nat, b \in BOOLEAN
  PROVE  /\ SetMixer(s, n, b).mMixerOpenCnt = n
         /\ SetMixer(s, n, b).mPcmOpenCnt = s.mPcmOpenCnt
         /\ SetPcm(s, n, b).mPcmOpenCnt = n
         /\ SetPcm(s, n, b).mMixerOpenCnt = s.mMixerOpenCnt
  BY DEF SetMixer, SetPcm, HalState

LEMMA SetHandles ==
  ASSUME NEW s, NEW n, NEW b, s \in HalState, n \in Nat, b \in BOOLEAN
  PROVE  /\ SetMixer(s, n, b).mMixer = b
         /\ SetMixer(s, n, b).mPcm = s.mPcm
         /\ SetPcm(s, n, b).mPcm = b
         /\ SetPcm(s, n, b).mMixer = s.mMixer
  BY DEF SetMixer, SetPcm, HalState

LEMMA SameCounts ==
  ASSUME NEW s, NEW a, Base(s, a)
  PROVE  Outs(a) = Outs(s) /\ OutMixers(a) = OutMixers(s) /\ InMixers(a) = InMixers(s)
  BY DEF Base, Outs, OutMixers, InMixers

LEMMA SetMixerEffect ==
  ASSUME NEW s \in HalState, NEW n \in Nat, NEW b \in BOOLEAN, NEW a,
         a = SetMixer(s, n, b)
  PROVE  Base(s, a) /\ SamePcm(s, a) /\ a.mMixerOpenCnt = n /\ (a.mMixer <=> b)
  <1>1. Base(s, a)
    BY SetBase
  <1>2. a.mMixerOpenCnt = n /\ a.mPcmOpenCnt = s.mPcmOpenCnt
    BY SetCounts
  <1>3. a.mMixer = b /\ a.mPcm = s.mPcm
    BY SetHandles
  <1> QED
    BY <1>1, <1>2, <1>3 DEF SamePcm

LEMMA SetPcmEffect ==
  ASSUME NEW s \in HalState, NEW n \in Nat, NEW b \in BOOLEAN, NEW a,
         a = SetPcm(s, n, b)
  PROVE  Base(s, a) /\ SameMixer(s, a) /\ a.mPcmOpenCnt = n /\ (a.mPcm <=> b)
  <1>1. Base(s, a)
    BY SetBase
  <1>2. a.mPcmOpenCnt = n /\ a.mMixerOpenCnt = s.mMixerOpenCnt
    BY SetCounts
  <1>3. a.mPcm = b /\ a.mMixer = s.mMixer
    BY SetHandles
  <1> QED
    BY <1>1, <1>2, <1>3 DEF SameMixer

LEMMA OpenMixerEffect ==
  ASSUME NEW s \in HalState, NEW ok \in BOOLEAN, Handles(s), NEW a,
         a = OpenMixer(s, ok)
  PROVE  /\ Base(s, a) /\ SamePcm(s, a) /\ Handles(a)
         /\ MixerHandle(s, ok) => a.mMixerOpenCnt = s.mMixerOpenCnt + 1
         /\ ~MixerHandle(s, ok) => a.mMixerOpenCnt = s.mMixerOpenCnt
         /\ ok => MixerHandle(s, ok)
  <1> DEFINE h == MixerHandle(s, ok)
  <1>1. s.mMixerOpenCnt \in Nat /\ s.mMixer \in BOOLEAN /\ h \in BOOLEAN
    BY HalFields, HandleType
  <1>2. CASE s.mMixerOpenCnt = 0 /\ ~ok
    <2>1. a = s /\ ~h
      BY <1>1, <1>2 DEF OpenMixer, MixerHandle, Handles
    <2> QED
      BY <1>2, <2>1 DEF Base, SameCall, SamePcm
  <1>3. CASE ~(s.mMixerOpenCnt = 0 /\ ~ok)
    <2>1. a = SetMixer(s, s.mMixerOpenCnt + 1, h) /\ h
      BY <1>1, <1>3 DEF OpenMixer, MixerHandle, Handles
    <2> DEFINE k == s.mMixerOpenCnt + 1
    <2>2. k \in Nat /\ k > 0 /\ a = SetMixer(s, k, h)
      BY <1>1, <2>1
    <2> HIDE DEF h, k
    <2>3. /\ Base(s, a) /\ SamePcm(s, a) /\ a.mMixerOpenCnt = k
          /\ a.mMixer <=> h
      BY <1>1, <2>2, SetMixerEffect
    <2>4. Handles(a)
      BY <2>1, <2>2, <2>3 DEF Handles, SamePcm
    <2> QED
      BY <2>1, <2>3, <2>4 DEF h, k
  <1> QED
    BY <1>2, <1>3

LEMMA CloseMixerEffect ==
  ASSUME NEW s \in HalState, Handles(s), s.mMixerOpenCnt > 0, NEW a,
         a = CloseMixer(s)
  PROVE  /\ Base(s, a) /\ SamePcm(s, a) /\ Handles(a)
         /\ a.mMixerOpenCnt = s.mMixerOpenCnt - 1
  <1> DEFINE b == s.mMixer /\ s.mMixerOpenCnt # 1
  <1>1. s.mMixerOpenCnt \in Nat /\ b \in BOOLEAN /\ s.mMixerOpenCnt - 1 \in Nat
    BY HalFields
  <1>2. a = SetMixer(s, s.mMixerOpenCnt - 1, b)
    BY <1>1 DEF CloseMixer
  <1>3. b <=> s.mMixerOpenCnt - 1 > 0
    BY <1>1 DEF Handles
  <1> HIDE DEF b
  <1>4. /\ Base(s, a) /\ SamePcm(s, a) /\ a.mMixerOpenCnt = s.mMixerOpenCnt - 1
        /\ a.mMixer <=> b
    BY <1>1, <1>2, SetMixerEffect
  <1> QED
    BY <1>3, <1>4 DEF Handles, SamePcm

(* setIdleMode_l opens the mixer and closes it again, which leaves it as it  *)
(* was.                                                                      *)
LEMMA SetIdleModeEffect ==
  ASSUME NEW s \in HalState, Handles(s), NEW a, a = SetIdleMode(s)
  PROVE  Base(s, a) /\ SamePcm(s, a) /\ SameMixer(s, a)
  <1>1. CASE a = s
    BY <1>1 DEF Base, SameCall, SamePcm, SameMixer
  <1>2. CASE s.mMixerOpenCnt = 0 /\ a = CloseMixer(OpenMixer(s, TRUE))
    <2> DEFINE b == OpenMixer(s, TRUE)
    <2>0. MixerHandle(s, TRUE)
      BY <1>2 DEF MixerHandle, Handles
    <2> HIDE DEF b
    <2>1. Base(s, b) /\ SamePcm(s, b) /\ Handles(b)
      BY OpenMixerEffect DEF b
    <2>4. b.mMixerOpenCnt = s.mMixerOpenCnt + 1
      BY <2>0, OpenMixerEffect DEF b
    <2>2. b \in HalState /\ a = CloseMixer(b)
      BY <1>2, <2>1 DEF Base, b
    <2>7. b.mMixerOpenCnt = 1 /\ b.mMixerOpenCnt > 0
      BY <1>2, <2>4
    <2>5. Base(b, a) /\ SamePcm(b, a) /\ Handles(a)
      BY <2>1, <2>2, <2>7, CloseMixerEffect
    <2>6. a.mMixerOpenCnt = b.mMixerOpenCnt - 1
      BY <2>1, <2>2, <2>7, CloseMixerEffect
    <2>3. a.mMixerOpenCnt = 0
      BY <2>7, <2>6
    <2> QED
      BY <1>2, <2>1, <2>3, <2>5, BaseTrans DEF SamePcm, SameMixer, Handles
  <1> QED
    BY <1>1, <1>2 DEF SetIdleMode

LEMMA OpenPcmEffect ==
  ASSUME NEW s \in HalState, NEW ok \in BOOLEAN, Handles(s), NEW a,
         a = OpenPcmOut(s, ok)
  PROVE  /\ Base(s, a) /\ SameMixer(s, a) /\ Handles(a)
         /\ PcmHandle(s, ok) => a.mPcmOpenCnt = s.mPcmOpenCnt + 1
         /\ ~PcmHandle(s, ok) => a.mPcmOpenCnt = s.mPcmOpenCnt
         /\ ok => PcmHandle(s, ok)
  <1> DEFINE h == PcmHandle(s, ok)
  <1>1. s.mPcmOpenCnt \in Nat /\ s.mPcm \in BOOLEAN /\ h \in BOOLEAN
    BY HalFields, HandleType
  <1>2. CASE s.mPcmOpenCnt = 0 /\ ~ok
    <2>1. a = s /\ ~h
      BY <1>1, <1>2 DEF OpenPcmOut, PcmHandle, Handles
    <2> QED
      BY <1>2, <2>1 DEF Base, SameCall, SameMixer
  <1>3. CASE ~(s.mPcmOpenCnt = 0 /\ ~ok)
    <2>1. a = SetPcm(s, s.mPcmOpenCnt + 1, h) /\ h
      BY <1>1, <1>3 DEF OpenPcmOut, PcmHandle, Handles
    <2> DEFINE k == s.mPcmOpenCnt + 1
    <2>2. k \in Nat /\ k > 0 /\ a = SetPcm(s, k, h)
      BY <1>1, <2>1
    <2> HIDE DEF h, k
    <2>3. /\ Base(s, a) /\ SameMixer(s, a) /\ a.mPcmOpenCnt = k
          /\ a.mPcm <=> h
      BY <1>1, <2>2, SetPcmEffect
    <2>4. Handles(a)
      BY <2>1, <2>2, <2>3 DEF Handles, SameMixer
    <2> QED
      BY <2>1, <2>3, <2>4 DEF h, k
  <1> QED
    BY <1>2, <1>3

LEMMA ClosePcmEffect ==
  ASSUME NEW s \in HalState, Handles(s), s.mPcmOpenCnt > 0, NEW a,
         a = ClosePcmOut(s)
  PROVE  /\ Base(s, a) /\ SameMixer(s, a) /\ Handles(a)
         /\ a.mPcmOpenCnt = s.mPcmOpenCnt - 1
  <1> DEFINE b == s.mPcm /\ s.mPcmOpenCnt # 1
             c == SetPcm(s, s.mPcmOpenCnt - 1, b)
  <1>1. s.mPcmOpenCnt \in Nat /\ b \in BOOLEAN /\ s.mPcmOpenCnt - 1 \in Nat
    BY HalFields
  <1>2. a = SetIdleMode(c)
    BY <1>1 DEF ClosePcmOut
  <1>3. b <=> s.mPcmOpenCnt - 1 > 0
    BY <1>1 DEF Handles
  <1> HIDE DEF b
  <1>4. /\ Base(s, c) /\ SameMixer(s, c) /\ c.mPcmOpenCnt = s.mPcmOpenCnt - 1
        /\ c.mPcm <=> b
    BY <1>1, SetPcmEffect
  <1>5. c \in HalState
    BY <1>4 DEF Base
  <1>6. Handles(c)
    BY <1>3, <1>4 DEF Handles, SameMixer
  <1> HIDE DEF c
  <1>7. Base(c, a) /\ SamePcm(c, a) /\ SameMixer(c, a)
    BY <1>2, <1>5, <1>6, SetIdleModeEffect
  <1> QED
    BY <1>4, <1>6, <1>7, BaseTrans DEF SamePcm, SameMixer, Handles

-----------------------------------------------------------------------------
(* The streams that have a device, when one of them opens or closes it.      *)
LEMMA CountChange ==
  ASSUME NEW S, IsFiniteSet(S), NEW x
  PROVE  /\ Cardinality(S) \in Nat
         /\ x \in S => /\ IsFiniteSet(S \ {x}) /\ Cardinality(S) > 0
                       /\ Cardinality(S \ {x}) = Cardinality(S) - 1
         /\ x \notin S => /\ IsFiniteSet(S \cup {x})
                          /\ Cardinality(S \cup {x}) = Cardinality(S) + 1
  <1>1. Cardinality(S) \in Nat
    BY FS_CardinalityType
  <1>2. CASE x \in S
    <2>1. IsFiniteSet(S \ {x}) /\ Cardinality(S \ {x}) = Cardinality(S) - 1
      BY <1>2, FS_RemoveElement
    <2>2. Cardinality(S \ {x}) \in Nat
      BY <2>1, FS_CardinalityType
    <2> QED
      BY <1>1, <1>2, <2>1, <2>2
  <1>3. CASE x \notin S
    BY <1>1, <1>3, FS_AddElement
  <1> QED
    BY <1>2, <1>3

LEMMA SetOutEffect ==
  ASSUME NEW s \in HalState, NEW o \in OutStreams, NEW q \in OutState,
         NEW a, a = SetOut(s, o, q)
  PROVE  /\ a \in HalState
         /\ a.out[o] = q /\ \A p \in OutStreams \ {o} : a.out[p] = s.out[p]
         /\ a.in = s.in /\ a.mOutput = s.mOutput /\ a.mInputs = s.mInputs
         /\ SameCall(s, a) /\ SamePcm(s, a) /\ SameMixer(s, a)
  <1>1. a \in HalState
    BY SetOutType
  <1> QED
    BY <1>1 DEF SetOut, HalState, SameCall, SamePcm, SameMixer

LEMMA SetInEffect ==
  ASSUME NEW s \in HalState, NEW i \in InStreams, NEW q \in InState,
         NEW a, a = SetIn(s, i, q)
  PROVE  /\ a \in HalState
         /\ a.in[i] = q /\ \A j \in InStreams \ {i} : a.in[j] = s.in[j]
         /\ a.out = s.out /\ a.mOutput = s.mOutput /\ a.mInputs = s.mInputs
         /\ SameCall(s, a) /\ SamePcm(s, a) /\ SameMixer(s, a)
  <1>1. a \in HalState
    BY SetInType
  <1> QED
    BY <1>1 DEF SetIn, HalState, SameCall, SamePcm, SameMixer

(* From s to a only output o, or only input i, and the devices are touched.  *)
OutOnly(s, a, o) ==
  /\ a \in HalState
  /\ a.in = s.in /\ a.mOutput = s.mOutput /\ a.mInputs = s.mInputs
  /\ SameCall(s, a)
  /\ \A p \in OutStreams \ {o} : a.out[p] = s.out[p]
  /\ a.out[o].alive <=> s.out[o].alive

InOnly(s, a, i) ==
  /\ a \in HalState
  /\ a.out = s.out /\ a.mOutput = s.mOutput /\ a.mInputs = s.mInputs
  /\ SameCall(s, a)
  /\ \A j \in InStreams \ {i} : a.in[j] = s.in[j]
  /\ a.in[i].alive <=> s.in[i].alive
  /\ a.in[i].mNeedEchoReference = s.in[i].mNeedEchoReference
  /\ s.in[i].mEchoReference = None => a.in[i].mEchoReference = None

LEMMA BaseOnly ==
  ASSUME NEW s, NEW a, NEW x, Base(s, a)
  PROVE  OutOnly(s, a, x) /\ InOnly(s, a, x)
  BY DEF Base, OutOnly, InOnly

LEMMA OnlyTrans ==
  ASSUME NEW s, NEW a, NEW b, NEW x
  PROVE  /\ OutOnly(s, a, x) /\ OutOnly(a, b, x) => OutOnly(s, b, x)
         /\ InOnly(s, a, x) /\ InOnly(a, b, x) => InOnly(s, b, x)
  BY DEF OutOnly, InOnly, SameCall

LEMMA OnlyFrame ==
  ASSUME NEW s, NEW a, NEW x
  PROVE  /\ OutOnly(s, a, x) => Frame(s, a, {x})
         /\ InOnly(s, a, x) => Frame(s, a, {x})
  <1>1. ASSUME OutOnly(s, a, x) PROVE Frame(s, a, {x})
    BY <1>1 DEF OutOnly, Frame, SameDev, NoEchoRefs
  <1>2. ASSUME InOnly(s, a, x) PROVE Frame(s, a, {x})
    <2>1. \A j \in InStreams : /\ a.in[j].alive <=> s.in[j].alive
                               /\ j \notin {x} => SameDev(a.in[j], s.in[j])
      BY <1>2 DEF InOnly, SameDev
    <2>2. NoEchoRefs(s) => NoEchoRefs(a)
      BY <1>2 DEF InOnly, NoEchoRefs
    <2>3. \A o \in OutStreams : /\ a.out[o].alive <=> s.out[o].alive
                                /\ o \notin {x} => SameDev(a.out[o], s.out[o])
      BY <1>2 DEF InOnly, SameDev
    <2> QED
      BY <1>2, <2>1, <2>2, <2>3 DEF InOnly, Frame
  <1> QED
    BY <1>1, <1>2

(* The playback stream gives its use of the mixer back, then that of the pcm. *)
LEMMA OutCloseMixerEffect ==
  ASSUME NEW s \in HalState, NEW o \in OutStreams, NEW n \in Nat, Uses(s, n),
         NEW a, a = OutCloseMixer(s, o)
  PROVE  /\ OutOnly(s, a, o) /\ Uses(a, n)
         /\ ~a.out[o].mMixer /\ (a.out[o].mPcm <=> s.out[o].mPcm)
         /\ a.out[o].mStandby <=> s.out[o].mStandby
  <1>1. CASE ~s.out[o].mMixer
    <2>1. a = s
      BY <1>1 DEF OutCloseMixer
    <2> QED
      BY <1>1, <2>1 DEF OutOnly, SameCall
  <1>2. CASE s.out[o].mMixer
    <2> DEFINE c == CloseMixer(s)
               q == [s.out[o] EXCEPT !.mMixer = FALSE]
    <2>1. a = SetOut(c, o, q)
      BY <1>2 DEF OutCloseMixer
    <2>2. s.out[o] \in OutState /\ q \in OutState
      BY HalFields, OutAssign
    <2>3. /\ ~q.mMixer /\ (q.mPcm <=> s.out[o].mPcm)
          /\ (q.mStandby <=> s.out[o].mStandby) /\ (q.alive <=> s.out[o].alive)
      BY <2>2 DEF OutState
    <2>4. o \in OutMixers(s)
      BY <1>2 DEF OutMixers
    <2>5. /\ Cardinality(OutMixers(s)) > 0
          /\ IsFiniteSet(OutMixers(s))
          /\ Cardinality(OutMixers(s) \ {o}) = Cardinality(OutMixers(s)) - 1
      BY <2>4, FiniteStreams, CountChange
    <2>6. s.mMixerOpenCnt > 0
      BY <2>5, FiniteStreams DEF Uses, MixerCount
    <2>7. Base(s, c) /\ SamePcm(s, c) /\ Handles(c)
      BY <2>6, CloseMixerEffect DEF Uses
    <2>8. c.mMixerOpenCnt = s.mMixerOpenCnt - 1
      BY <2>6, CloseMixerEffect DEF Uses
    <2>9. c \in HalState
      BY <2>7 DEF Base
    <2> HIDE DEF c, q
    <2>10. /\ a \in HalState
           /\ a.out[o] = q /\ \A p \in OutStreams \ {o} : a.out[p] = c.out[p]
           /\ a.in = c.in /\ a.mOutput = c.mOutput /\ a.mInputs = c.mInputs
           /\ SameCall(c, a) /\ SamePcm(c, a) /\ SameMixer(c, a)
      BY <2>1, <2>2, <2>9, SetOutEffect
    <2>11. OutOnly(s, a, o)
      BY <2>3, <2>7, <2>10 DEF Base, OutOnly, SameCall
    <2>12. /\ Outs(a) = Outs(s) /\ InMixers(a) = InMixers(s)
           /\ OutMixers(a) = OutMixers(s) \ {o}
      BY <2>3, <2>10, <2>11 DEF OutOnly, Outs, InMixers, OutMixers
    <2>13. Handles(a)
      BY <2>7, <2>10 DEF Handles, SamePcm, SameMixer
    <2>14. PcmCount(a, n)
      BY <2>7, <2>10, <2>12 DEF Uses, PcmCount, SamePcm
    <2>15. a.mMixerOpenCnt = s.mMixerOpenCnt - 1
      BY <2>8, <2>10 DEF SameMixer
    <2>16. MixerCount(a, n)
      BY <2>5, <2>12, <2>15, FiniteStreams DEF Uses, MixerCount
    <2> QED
      BY <2>3, <2>10, <2>11, <2>13, <2>14, <2>16 DEF Uses
  <1> QED
    BY <1>1, <1>2

LEMMA OutClosePcmEffect ==
  ASSUME NEW s \in HalState, NEW o \in OutStreams, NEW n \in Nat, Uses(s, n),
         NEW a, a = OutClosePcm(s, o)
  PROVE  /\ OutOnly(s, a, o) /\ Uses(a, n)
         /\ ~a.out[o].mPcm /\ (a.out[o].mMixer <=> s.out[o].mMixer)
         /\ a.out[o].mStandby <=> s.out[o].mStandby
  <1>1. CASE ~s.out[o].mPcm
    <2>1. a = s
      BY <1>1 DEF OutClosePcm
    <2> QED
      BY <1>1, <2>1 DEF OutOnly, SameCall
  <1>2. CASE s.out[o].mPcm
    <2> DEFINE c == ClosePcmOut(s)
               q == [s.out[o] EXCEPT !.mPcm = FALSE]
    <2>1. a = SetOut(c, o, q)
      BY <1>2 DEF OutClosePcm
    <2>2. s.out[o] \in OutState /\ q \in OutState
      BY HalFields, OutAssign
    <2>3. /\ ~q.mPcm /\ (q.mMixer <=> s.out[o].mMixer)
          /\ (q.mStandby <=> s.out[o].mStandby) /\ (q.alive <=> s.out[o].alive)
      BY <2>2 DEF OutState
    <2>4. o \in Outs(s)
      BY <1>2 DEF Outs
    <2>5. /\ Cardinality(Outs(s)) > 0
          /\ IsFiniteSet(Outs(s))
          /\ Cardinality(Outs(s) \ {o}) = Cardinality(Outs(s)) - 1
      BY <2>4, FiniteStreams, CountChange
    <2>6. s.mPcmOpenCnt > 0
      BY <2>5, FiniteStreams DEF Uses, PcmCount
    <2>7. Base(s, c) /\ SameMixer(s, c) /\ Handles(c)
      BY <2>6, ClosePcmEffect DEF Uses
    <2>8. c.mPcmOpenCnt = s.mPcmOpenCnt - 1
      BY <2>6, ClosePcmEffect DEF Uses
    <2>9. c \in HalState
      BY <2>7 DEF Base
    <2> HIDE DEF c, q
    <2>10. /\ a \in HalState
           /\ a.out[o] = q /\ \A p \in OutStreams \ {o} : a.out[p] = c.out[p]
           /\ a.in = c.in /\ a.mOutput = c.mOutput /\ a.mInputs = c.mInputs
           /\ SameCall(c, a) /\ SamePcm(c, a) /\ SameMixer(c, a)
      BY <2>1, <2>2, <2>9, SetOutEffect
    <2>11. OutOnly(s, a, o)
      BY <2>3, <2>7, <2>10 DEF Base, OutOnly, SameCall
    <2>12. /\ OutMixers(a) = OutMixers(s) /\ InMixers(a) = InMixers(s)
           /\ Outs(a) = Outs(s) \ {o}
      BY <2>3, <2>10, <2>11 DEF OutOnly, Outs, InMixers, OutMixers
    <2>13. Handles(a)
      BY <2>7, <2>10 DEF Handles, SamePcm, SameMixer
    <2>14. MixerCount(a, n)
      BY <2>7, <2>10, <2>12 DEF Uses, MixerCount, SameMixer
    <2>15. a.mPcmOpenCnt = s.mPcmOpenCnt - 1
      BY <2>8, <2>10 DEF SamePcm
    <2>16. PcmCount(a, n)
      BY <2>5, <2>12, <2>15, FiniteStreams DEF Uses, PcmCount
    <2> QED
      BY <2>3, <2>10, <2>11, <2>13, <2>14, <2>16 DEF Uses
  <1> QED
    BY <1>1, <1>2

LEMMA OutCloseEffect ==
  ASSUME NEW s \in HalState, NEW o \in OutStreams, NEW n \in Nat, Uses(s, n),
         NEW a, a = OutClose(s, o)
  PROVE  /\ OutOnly(s, a, o) /\ Uses(a, n) /\ Off(a.out[o])
         /\ a.out[o].mStandby <=> s.out[o].mStandby
  <1> DEFINE c == OutCloseMixer(s, o)
  <1>1. /\ OutOnly(s, c, o) /\ Uses(c, n) /\ ~c.out[o].mMixer
        /\ c.out[o].mStandby <=> s.out[o].mStandby
    BY OutCloseMixerEffect
  <1>2. c \in HalState /\ a = OutClosePcm(c, o)
    BY <1>1 DEF OutOnly, OutClose
  <1> HIDE DEF c
  <1>3. /\ OutOnly(c, a, o) /\ Uses(a, n) /\ ~a.out[o].mPcm
        /\ a.out[o].mMixer <=> c.out[o].mMixer
        /\ a.out[o].mStandby <=> c.out[o].mStandby
    BY <1>1, <1>2, OutClosePcmEffect
  <1> QED
    BY <1>1, <1>3, OnlyTrans DEF Off

(* A route, or the wake lock, is no device.                                  *)
LEMMA PathEffect ==
  ASSUME NEW s \in HalState, NEW a
  PROVE  /\ \A x \in {"RCV", "SPK", "HP", "BT", "off"} :
              a = [s EXCEPT !.playbackPath = x]
                => Base(s, a) /\ SamePcm(s, a) /\ SameMixer(s, a)
         /\ \A x \in {"MAIN", "HP", "BT", "off"} :
              a = [s EXCEPT !.memoPath = x]
                => Base(s, a) /\ SamePcm(s, a) /\ SameMixer(s, a)
         /\ \A x \in BOOLEAN :
              a = [s EXCEPT !.wakeLock = x]
                => Base(s, a) /\ SamePcm(s, a) /\ SameMixer(s, a)
  <1>1. ASSUME NEW x \in {"RCV", "SPK", "HP", "BT", "off"},
               a = [s EXCEPT !.playbackPath = x]
        PROVE  Base(s, a) /\ SamePcm(s, a) /\ SameMixer(s, a)
    <2>1. a \in HalState
      BY <1>1, HalAssign
    <2> QED
      BY <1>1, <2>1 DEF HalState, Base, SameCall, SamePcm, SameMixer
  <1>2. ASSUME NEW x \in {"MAIN", "HP", "BT", "off"},
               a = [s EXCEPT !.memoPath = x]
        PROVE  Base(s, a) /\ SamePcm(s, a) /\ SameMixer(s, a)
    <2>1. a \in HalState
      BY <1>2, HalAssign
    <2> QED
      BY <1>2, <2>1 DEF HalState, Base, SameCall, SamePcm, SameMixer
  <1>3. ASSUME NEW x \in BOOLEAN, a = [s EXCEPT !.wakeLock = x]
        PROVE  Base(s, a) /\ SamePcm(s, a) /\ SameMixer(s, a)
    <2>1. a \in HalState
      BY <1>3, HalAssign
    <2> QED
      BY <1>3, <2>1 DEF HalState, Base, SameCall, SamePcm, SameMixer
  <1> QED
    BY <1>1, <1>2, <1>3

LEMMA SameUses ==
  ASSUME NEW s, NEW a, NEW n, Base(s, a), SamePcm(s, a), SameMixer(s, a)
  PROVE  Uses(s, n) => Uses(a, n)
  <1>1. Outs(a) = Outs(s) /\ OutMixers(a) = OutMixers(s) /\ InMixers(a) = InMixers(s)
    BY SameCounts
  <1> QED
    BY <1>1 DEF Uses, Handles, PcmCount, MixerCount, SamePcm, SameMixer

(* The playback stream opens the mixer, and before it the pcm.               *)
LEMMA OutOpenMixerEffect ==
  ASSUME NEW s \in HalState, NEW o \in OutStreams, NEW ok \in BOOLEAN,
         NEW n \in Nat, Uses(s, n), ~s.out[o].mMixer,
         NEW a, a = OutOpenMixer(s, o, ok)
  PROVE  /\ OutOnly(s, a, o) /\ Uses(a, n)
         /\ a.out[o].mPcm <=> s.out[o].mPcm
         /\ a.out[o].mStandby <=> s.out[o].mStandby
  <1> DEFINE c == OpenMixer(s, ok)
             h == MixerHandle(s, ok)
             q == [s.out[o] EXCEPT !.mMixer = h]
             b == SetOut(c, o, q)
  <1>1. h \in BOOLEAN
    BY HandleType
  <1>2. s.out[o] \in OutState /\ q \in OutState
    BY <1>1, HalFields, OutAssign
  <1>3. /\ (q.mMixer <=> h) /\ (q.mPcm <=> s.out[o].mPcm)
        /\ (q.mStandby <=> s.out[o].mStandby) /\ (q.alive <=> s.out[o].alive)
    <2> HIDE DEF h
    <2> QED BY <1>1, <1>2 DEF OutState
  <1>4. Base(s, c) /\ SamePcm(s, c) /\ Handles(c)
    BY OpenMixerEffect DEF Uses
  <1>5. h => c.mMixerOpenCnt = s.mMixerOpenCnt + 1
    BY OpenMixerEffect DEF Uses
  <1>6. ~h => c.mMixerOpenCnt = s.mMixerOpenCnt
    BY OpenMixerEffect DEF Uses
  <1>7. c \in HalState
    BY <1>4 DEF Base
  <1>8. a = OutRouted(b, o)
    BY DEF OutOpenMixer
  <1> HIDE DEF c, q, h
  <1>9. /\ b \in HalState
        /\ b.out[o] = q /\ \A p \in OutStreams \ {o} : b.out[p] = c.out[p]
        /\ b.in = c.in /\ b.mOutput = c.mOutput /\ b.mInputs = c.mInputs
        /\ SameCall(c, b) /\ SamePcm(c, b) /\ SameMixer(c, b)
    BY <1>2, <1>7, SetOutEffect
  <1> HIDE DEF b
  <1>10. OutOnly(s, b, o)
    BY <1>3, <1>4, <1>9 DEF Base, OutOnly, SameCall
  <1>11. Outs(b) = Outs(s) /\ InMixers(b) = InMixers(s)
    BY <1>3, <1>9, <1>10 DEF OutOnly, Outs, InMixers
  <1>12. OutMixers(b) = IF h THEN OutMixers(s) \cup {o} ELSE OutMixers(s)
    BY <1>3, <1>9, <1>10 DEF OutOnly, OutMixers
  <1>13. o \notin OutMixers(s)
    BY DEF OutMixers
  <1>14. Cardinality(OutMixers(s) \cup {o}) = Cardinality(OutMixers(s)) + 1
    BY <1>13, FiniteStreams, CountChange
  <1>15. Handles(b) /\ PcmCount(b, n)
    BY <1>4, <1>9, <1>11 DEF Uses, Handles, PcmCount, SamePcm, SameMixer
  <1>16. b.mMixerOpenCnt = c.mMixerOpenCnt
    BY <1>9 DEF SameMixer
  <1>17. MixerCount(b, n)
    <2>1. CASE h
      BY <2>1, <1>5, <1>11, <1>12, <1>14, <1>16, FiniteStreams DEF Uses, MixerCount
    <2>2. CASE ~h
      BY <2>2, <1>6, <1>11, <1>12, <1>16 DEF Uses, MixerCount
    <2> QED
      BY <2>1, <2>2
  <1>18. Base(b, a) /\ SamePcm(b, a) /\ SameMixer(b, a)
    <2>1. CASE a = b
      BY <1>9, <2>1 DEF Base, SameCall, SamePcm, SameMixer
    <2>2. CASE a = [b EXCEPT !.playbackPath = OutputRoute(b.out[o].mDevices)]
      BY <1>9, <2>2, PathEffect, RouteType
    <2> QED
      BY <1>8, <2>1, <2>2 DEF OutRouted
  <1>19. Uses(a, n)
    BY <1>15, <1>17, <1>18, SameUses DEF Uses
  <1>20. OutOnly(s, a, o)
    BY <1>10, <1>18, BaseOnly, OnlyTrans
  <1> QED
    BY <1>3, <1>9, <1>18, <1>19, <1>20 DEF Base

LEMMA OutOpenEffect ==
  ASSUME NEW s \in HalState, NEW o \in OutStreams, NEW okPcm \in BOOLEAN,
         NEW okMixer \in BOOLEAN, NEW n \in Nat, Uses(s, n), Off(s.out[o]),
         NEW a, a = OutOpen(s, o, okPcm, okMixer)
  PROVE  /\ OutOnly(s, a, o) /\ Uses(a, n)
         /\ a.out[o].mMixer => a.out[o].mPcm
         /\ a.out[o].mStandby <=> s.out[o].mStandby
  <1> DEFINE c == OpenPcmOut(s, okPcm)
             h == PcmHandle(s, okPcm)
             q == [s.out[o] EXCEPT !.mPcm = TRUE]
             b == SetOut(c, o, q)
  <1>1. Base(s, c) /\ SameMixer(s, c) /\ Handles(c)
    BY OpenPcmEffect DEF Uses
  <1>2. h => c.mPcmOpenCnt = s.mPcmOpenCnt + 1
    BY OpenPcmEffect DEF Uses
  <1>3. ~h => c.mPcmOpenCnt = s.mPcmOpenCnt
    BY OpenPcmEffect DEF Uses
  <1>4. s.out[o] \in OutState /\ q \in OutState
    BY HalFields, OutAssign
  <1>5. /\ q.mPcm /\ (q.mMixer <=> s.out[o].mMixer)
        /\ (q.mStandby <=> s.out[o].mStandby) /\ (q.alive <=> s.out[o].alive)
    BY <1>4 DEF OutState
  <1>6. c \in HalState
    BY <1>1 DEF Base
  <1>7. Outs(c) = Outs(s) /\ OutMixers(c) = OutMixers(s) /\ InMixers(c) = InMixers(s)
    BY <1>1, SameCounts
  <1>8. a = IF h THEN OutOpenMixer(b, o, okMixer) ELSE c
    BY DEF OutOpen
  <1> HIDE DEF c, q, h
  <1>9. MixerCount(c, n)
    BY <1>1, <1>7 DEF Uses, MixerCount, SameMixer
  <1>10. CASE ~h
    <2>1. PcmCount(c, n)
      BY <1>3, <1>7, <1>10 DEF Uses, PcmCount
    <2> QED
      BY <1>1, <1>8, <1>9, <1>10, <2>1, BaseOnly DEF Base, Off, Uses
  <1>11. CASE h
    <2>1. /\ b \in HalState
          /\ b.out[o] = q /\ \A p \in OutStreams \ {o} : b.out[p] = c.out[p]
          /\ b.in = c.in /\ b.mOutput = c.mOutput /\ b.mInputs = c.mInputs
          /\ SameCall(c, b) /\ SamePcm(c, b) /\ SameMixer(c, b)
      BY <1>4, <1>6, SetOutEffect
    <2> HIDE DEF b
    <2>2. OutOnly(s, b, o)
      BY <1>1, <1>5, <2>1 DEF Base, OutOnly, SameCall
    <2>3. /\ OutMixers(b) = OutMixers(s) /\ InMixers(b) = InMixers(s)
          /\ Outs(b) = Outs(s) \cup {o}
      BY <1>5, <2>1, <2>2 DEF OutOnly, Outs, InMixers, OutMixers
    <2>4. o \notin Outs(s)
      BY DEF Outs, Off
    <2>5. Cardinality(Outs(s) \cup {o}) = Cardinality(Outs(s)) + 1
      BY <2>4, FiniteStreams, CountChange
    <2>6. b.mPcmOpenCnt = s.mPcmOpenCnt + 1
      BY <1>2, <1>11, <2>1 DEF SamePcm
    <2>7. PcmCount(b, n)
      BY <2>3, <2>5, <2>6, FiniteStreams DEF Uses, PcmCount
    <2>8. Handles(b) /\ MixerCount(b, n)
      BY <1>1, <1>7, <1>9, <2>1, <2>3 DEF Handles, MixerCount, SamePcm, SameMixer
    <2>9. Uses(b, n) /\ ~b.out[o].mMixer
      BY <1>5, <2>1, <2>7, <2>8 DEF Uses, Off
    <2>10. /\ OutOnly(b, a, o) /\ Uses(a, n)
           /\ a.out[o].mPcm <=> b.out[o].mPcm
           /\ a.out[o].mStandby <=> b.out[o].mStandby
      BY <1>8, <1>11, <2>1, <2>9, OutOpenMixerEffect
    <2> QED
      BY <1>5, <2>1, <2>2, <2>10, OnlyTrans
  <1> QED
    BY <1>10, <1>11

LEMMA OutDoStandbyEffect ==
  ASSUME NEW s \in HalState, NEW o \in OutStreams, NEW n \in Nat, Uses(s, n),
         NEW a, a = OutDoStandby(s, o)
  PROVE  /\ OutOnly(s, a, o) /\ Uses(a, n)
         /\ Off(a.out[o]) /\ a.out[o].mStandby
  <1> DEFINE w == s.wakeLock /\ s.out[o].mStandby
             c == [s EXCEPT !.wakeLock = w]
             q == [s.out[o] EXCEPT !.mStandby = TRUE, !.snap = {}]
             b == SetOut(c, o, q)
  <1>1. w \in BOOLEAN
    OBVIOUS
  <1>2. Base(s, c) /\ SamePcm(s, c) /\ SameMixer(s, c)
    <2> HIDE DEF w
    <2> QED BY <1>1, PathEffect
  <1>3. s.out[o] \in OutState /\ q \in OutState
    BY HalFields, OutAssign
  <1>4. /\ q.mStandby /\ (q.mPcm <=> s.out[o].mPcm)
        /\ (q.mMixer <=> s.out[o].mMixer) /\ (q.alive <=> s.out[o].alive)
    BY <1>3 DEF OutState
  <1>5. a = OutClose(b, o)
    BY DEF OutDoStandby
  <1>6. c \in HalState
    BY <1>2 DEF Base
  <1> HIDE DEF c, q
  <1>7. /\ b \in HalState
        /\ b.out[o] = q /\ \A p \in OutStreams \ {o} : b.out[p] = c.out[p]
        /\ b.in = c.in /\ b.mOutput = c.mOutput /\ b.mInputs = c.mInputs
        /\ SameCall(c, b) /\ SamePcm(c, b) /\ SameMixer(c, b)
    BY <1>3, <1>6, SetOutEffect
  <1> HIDE DEF b
  <1>8. OutOnly(s, b, o)
    BY <1>2, <1>4, <1>7 DEF Base, OutOnly, SameCall
  <1>9. Outs(b) = Outs(s) /\ OutMixers(b) = OutMixers(s) /\ InMixers(b) = InMixers(s)
    BY <1>4, <1>7, <1>8 DEF OutOnly, Outs, InMixers, OutMixers
  <1>10. Uses(b, n)
    BY <1>2, <1>7, <1>9
    DEF Uses, Handles, PcmCount, MixerCount, SamePcm, SameMixer
  <1>11. /\ OutOnly(b, a, o) /\ Uses(a, n) /\ Off(a.out[o])
         /\ a.out[o].mStandby <=> b.out[o].mStandby
    BY <1>5, <1>7, <1>10, OutCloseEffect
  <1> QED
    BY <1>4, <1>7, <1>8, <1>11, OnlyTrans

(* A capture stream gives its use of the mixer back; its pcm is its own.      *)
LEMMA InCloseMixerEffect ==
  ASSUME NEW s \in HalState, NEW i \in InStreams, NEW n \in Nat, Uses(s, n),
         NEW a, a = InCloseMixer(s, i)
  PROVE  /\ InOnly(s, a, i) /\ Uses(a, n)
         /\ ~a.in[i].mMixer /\ (a.in[i].mPcm <=> s.in[i].mPcm)
         /\ a.in[i].mStandby <=> s.in[i].mStandby
  <1>1. CASE ~s.in[i].mMixer
    <2>1. a = s
      BY <1>1 DEF InCloseMixer
    <2> QED
      BY <1>1, <2>1 DEF InOnly, SameCall
  <1>2. CASE s.in[i].mMixer
    <2> DEFINE c == CloseMixer(s)
               q == [s.in[i] EXCEPT !.mMixer = FALSE]
    <2>1. a = SetIn(c, i, q)
      BY <1>2 DEF InCloseMixer
    <2>2. s.in[i] \in InState /\ q \in InState
      BY HalFields, InAssign
    <2>3. /\ ~q.mMixer /\ (q.mPcm <=> s.in[i].mPcm)
          /\ (q.mStandby <=> s.in[i].mStandby) /\ (q.alive <=> s.in[i].alive)
          /\ q.mNeedEchoReference = s.in[i].mNeedEchoReference
          /\ q.mEchoReference = s.in[i].mEchoReference
      BY <2>2 DEF InState
    <2>4. i \in InMixers(s)
      BY <1>2 DEF InMixers
    <2>5. /\ Cardinality(InMixers(s)) > 0
          /\ IsFiniteSet(InMixers(s))
          /\ Cardinality(InMixers(s) \ {i}) = Cardinality(InMixers(s)) - 1
      BY <2>4, FiniteStreams, CountChange
    <2>6. s.mMixerOpenCnt > 0
      BY <2>5, FiniteStreams DEF Uses, MixerCount
    <2>7. Base(s, c) /\ SamePcm(s, c) /\ Handles(c)
      BY <2>6, CloseMixerEffect DEF Uses
    <2>8. c.mMixerOpenCnt = s.mMixerOpenCnt - 1
      BY <2>6, CloseMixerEffect DEF Uses
    <2>9. c \in HalState
      BY <2>7 DEF Base
    <2> HIDE DEF c, q
    <2>10. /\ a \in HalState
           /\ a.in[i] = q /\ \A j \in InStreams \ {i} : a.in[j] = c.in[j]
           /\ a.out = c.out /\ a.mOutput = c.mOutput /\ a.mInputs = c.mInputs
           /\ SameCall(c, a) /\ SamePcm(c, a) /\ SameMixer(c, a)
      BY <2>1, <2>2, <2>9, SetInEffect
    <2>11. InOnly(s, a, i)
      BY <2>3, <2>7, <2>10 DEF Base, InOnly, SameCall
    <2>12. /\ Outs(a) = Outs(s) /\ OutMixers(a) = OutMixers(s)
           /\ InMixers(a) = InMixers(s) \ {i}
      BY <2>3, <2>10, <2>11 DEF InOnly, Outs, InMixers, OutMixers
    <2>13. Handles(a)
      BY <2>7, <2>10 DEF Handles, SamePcm, SameMixer
    <2>14. PcmCount(a, n)
      BY <2>7, <2>10, <2>12 DEF Uses, PcmCount, SamePcm
    <2>15. a.mMixerOpenCnt = s.mMixerOpenCnt - 1
      BY <2>8, <2>10 DEF SameMixer
    <2>16. MixerCount(a, n)
      BY <2>5, <2>12, <2>15, FiniteStreams DEF Uses, MixerCount
    <2> QED
      BY <2>3, <2>10, <2>11, <2>13, <2>14, <2>16 DEF Uses
  <1> QED
    BY <1>1, <1>2

LEMMA InCloseEffect ==
  ASSUME NEW s \in HalState, NEW i \in InStreams, NEW n \in Nat, Uses(s, n),
         NEW a, a = InClose(s, i)
  PROVE  /\ InOnly(s, a, i) /\ Uses(a, n) /\ Off(a.in[i])
         /\ a.in[i].mStandby <=> s.in[i].mStandby
  <1> DEFINE c == InCloseMixer(s, i)
             q == [c.in[i] EXCEPT !.mPcm = FALSE]
             b == SetIn(c, i, q)
  <1>1. /\ InOnly(s, c, i) /\ Uses(c, n) /\ ~c.in[i].mMixer
        /\ c.in[i].mStandby <=> s.in[i].mStandby
    BY InCloseMixerEffect
  <1>2. c \in HalState /\ a = SetIdleMode(b)
    BY <1>1 DEF InOnly, InClose, InClosePcm
  <1> HIDE DEF c
  <1>3. c.in[i] \in InState /\ q \in InState
    BY <1>2, HalFields, InAssign
  <1>4. /\ ~q.mPcm /\ (q.mMixer <=> c.in[i].mMixer)
        /\ (q.mStandby <=> c.in[i].mStandby) /\ (q.alive <=> c.in[i].alive)
        /\ q.mNeedEchoReference = c.in[i].mNeedEchoReference
        /\ q.mEchoReference = c.in[i].mEchoReference
    BY <1>3 DEF InState
  <1> HIDE DEF q
  <1>5. /\ b \in HalState
        /\ b.in[i] = q /\ \A j \in InStreams \ {i} : b.in[j] = c.in[j]
        /\ b.out = c.out /\ b.mOutput = c.mOutput /\ b.mInputs = c.mInputs
        /\ SameCall(c, b) /\ SamePcm(c, b) /\ SameMixer(c, b)
    BY <1>2, <1>3, SetInEffect
  <1> HIDE DEF b
  <1>6. InOnly(c, b, i)
    BY <1>4, <1>5 DEF InOnly
  <1>7. Outs(b) = Outs(c) /\ OutMixers(b) = OutMixers(c) /\ InMixers(b) = InMixers(c)
    BY <1>4, <1>5 DEF Outs, OutMixers, InMixers
  <1>8. Uses(b, n)
    BY <1>1, <1>5, <1>7
    DEF Uses, Handles, PcmCount, MixerCount, SamePcm, SameMixer
  <1>9. Base(b, a) /\ SamePcm(b, a) /\ SameMixer(b, a)
    BY <1>2, <1>5, <1>8, SetIdleModeEffect DEF Uses
  <1>10. Uses(a, n)
    BY <1>8, <1>9, SameUses
  <1>11. InOnly(s, a, i)
    BY <1>1, <1>6, <1>9, BaseOnly, OnlyTrans
  <1> QED
    BY <1>1, <1>4, <1>5, <1>9, <1>10, <1>11 DEF Base, Off

LEMMA InOpenEffect ==
  ASSUME NEW s \in HalState, NEW i \in InStreams, NEW okPcm \in BOOLEAN,
         NEW okMixer \in BOOLEAN, NEW n \in Nat, Uses(s, n), Off(s.in[i]),
         NEW a, a = InOpen(s, i, okPcm, okMixer)
  PROVE  /\ InOnly(s, a, i) /\ Uses(a, n)
         /\ a.in[i].mMixer => a.in[i].mPcm
         /\ a.in[i].mStandby <=> s.in[i].mStandby
         /\ a.in[i].mPcm => ~CaptureBusy(s, i)
  <1>1. CASE ~(okPcm /\ ~CaptureBusy(s, i))
    <2>1. a = s
      BY <1>1 DEF InOpen
    <2> QED
      BY <2>1 DEF InOnly, SameCall, Off
  <1>2. CASE okPcm /\ ~CaptureBusy(s, i)
    <2> DEFINE c == OpenMixer(s, okMixer)
               h == MixerHandle(s, okMixer)
               q == [s.in[i] EXCEPT !.mPcm = TRUE, !.mMixer = h]
               b == SetIn(c, i, q)
    <2>1. h \in BOOLEAN
      BY HandleType
    <2>2. s.in[i] \in InState /\ q \in InState
      BY <2>1, HalFields, InAssign
    <2>3. /\ (q.mMixer <=> h) /\ q.mPcm
          /\ (q.mStandby <=> s.in[i].mStandby) /\ (q.alive <=> s.in[i].alive)
          /\ q.mNeedEchoReference = s.in[i].mNeedEchoReference
          /\ q.mEchoReference = s.in[i].mEchoReference
      <3> HIDE DEF h
      <3> QED BY <2>1, <2>2 DEF InState
    <2>4. Base(s, c) /\ SamePcm(s, c) /\ Handles(c)
      BY OpenMixerEffect DEF Uses
    <2>5. h => c.mMixerOpenCnt = s.mMixerOpenCnt + 1
      BY OpenMixerEffect DEF Uses
    <2>6. ~h => c.mMixerOpenCnt = s.mMixerOpenCnt
      BY OpenMixerEffect DEF Uses
    <2>7. c \in HalState
      BY <2>4 DEF Base
    <2>8. a = InRouted(b, i)
      BY <1>2 DEF InOpen
    <2> HIDE DEF c, q, h
    <2>9. /\ b \in HalState
          /\ b.in[i] = q /\ \A j \in InStreams \ {i} : b.in[j] = c.in[j]
          /\ b.out = c.out /\ b.mOutput = c.mOutput /\ b.mInputs = c.mInputs
          /\ SameCall(c, b) /\ SamePcm(c, b) /\ SameMixer(c, b)
      BY <2>2, <2>7, SetInEffect
    <2> HIDE DEF b
    <2>10. InOnly(s, b, i)
      BY <2>3, <2>4, <2>9 DEF Base, InOnly, SameCall
    <2>11. Outs(b) = Outs(s) /\ OutMixers(b) = OutMixers(s)
      BY <2>10 DEF InOnly, Outs, OutMixers
    <2>12. InMixers(b) = IF h THEN InMixers(s) \cup {i} ELSE InMixers(s)
      BY <2>3, <2>9, <2>10 DEF InOnly, InMixers, Off
    <2>13. i \notin InMixers(s)
      BY DEF InMixers, Off
    <2>14. Cardinality(InMixers(s) \cup {i}) = Cardinality(InMixers(s)) + 1
      BY <2>13, FiniteStreams, CountChange
    <2>15. Handles(b) /\ PcmCount(b, n)
      BY <2>4, <2>9, <2>11 DEF Uses, Handles, PcmCount, SamePcm, SameMixer
    <2>16. b.mMixerOpenCnt = c.mMixerOpenCnt
      BY <2>9 DEF SameMixer
    <2>17. MixerCount(b, n)
      <3>1. CASE h
        BY <3>1, <2>5, <2>11, <2>12, <2>14, <2>16, FiniteStreams DEF Uses, MixerCount
      <3>2. CASE ~h
        BY <3>2, <2>6, <2>11, <2>12, <2>16 DEF Uses, MixerCount
      <3> QED
        BY <3>1, <3>2
    <2>18. Base(b, a) /\ SamePcm(b, a) /\ SameMixer(b, a)
      <3>1. CASE a = b
        BY <2>9, <3>1 DEF Base, SameCall, SamePcm, SameMixer
      <3>2. CASE a = [b EXCEPT !.memoPath = InputRoute(b.mMicMute, b.in[i].mDevices)]
        <4>1. InputRoute(b.mMicMute, b.in[i].mDevices) \in {"MAIN", "HP", "BT", "off"}
          BY <2>9, HalFields, RouteType
        <4> QED
          BY <2>9, <3>2, <4>1, PathEffect
      <3> QED
        BY <2>8, <3>1, <3>2 DEF InRouted
    <2>19. Uses(a, n)
      BY <2>15, <2>17, <2>18, SameUses DEF Uses
    <2>20. InOnly(s, a, i)
      BY <2>10, <2>18, BaseOnly, OnlyTrans
    <2> QED
      BY <1>2, <2>3, <2>9, <2>18, <2>19, <2>20 DEF Base
  <1> QED
    BY <1>1, <1>2

LEMMA InDoStandbyEffect ==
  ASSUME NEW s \in HalState, NEW i \in InStreams, NEW n \in Nat, Uses(s, n),
         NEW a, a = InDoStandby(s, i)
  PROVE  /\ InOnly(s, a, i) /\ Uses(a, n)
         /\ Off(a.in[i]) /\ a.in[i].mStandby
  <1> DEFINE e == IF s.in[i].mStandby THEN s.in[i].mEchoReference ELSE None
             q == [s.in[i] EXCEPT !.mStandby = TRUE, !.snap = {},
                                  !.mEchoReference = e]
             b == SetIn(s, i, q)
  <1>1. e \in EchoRefs \cup {None}
    BY StreamFields
  <1>2. s.in[i].mEchoReference = None => e = None
    OBVIOUS
  <1>3. a = InClose(b, i)
    BY DEF InDoStandby
  <1> HIDE DEF e
  <1>4. s.in[i] \in InState /\ q \in InState
    BY <1>1, HalFields, InAssign
  <1>5. /\ q.mStandby /\ (q.mPcm <=> s.in[i].mPcm)
        /\ (q.mMixer <=> s.in[i].mMixer) /\ (q.alive <=> s.in[i].alive)
        /\ q.mNeedEchoReference = s.in[i].mNeedEchoReference
        /\ q.mEchoReference = e
    BY <1>4 DEF InState
  <1> HIDE DEF q
  <1>6. /\ b \in HalState
        /\ b.in[i] = q /\ \A j \in InStreams \ {i} : b.in[j] = s.in[j]
        /\ b.out = s.out /\ b.mOutput = s.mOutput /\ b.mInputs = s.mInputs
        /\ SameCall(s, b) /\ SamePcm(s, b) /\ SameMixer(s, b)
    BY <1>4, SetInEffect
  <1> HIDE DEF b
  <1>7. InOnly(s, b, i)
    BY <1>2, <1>5, <1>6 DEF InOnly
  <1>8. Outs(b) = Outs(s) /\ OutMixers(b) = OutMixers(s) /\ InMixers(b) = InMixers(s)
    BY <1>5, <1>6 DEF Outs, OutMixers, InMixers
  <1>9. Uses(b, n)
    BY <1>6, <1>8 DEF Uses, Handles, PcmCount, MixerCount, SamePcm, SameMixer
  <1>10. /\ InOnly(b, a, i) /\ Uses(a, n) /\ Off(a.in[i])
         /\ a.in[i].mStandby <=> b.in[i].mStandby
    BY <1>3, <1>6, <1>9, InCloseEffect
  <1> QED
    BY <1>5, <1>6, <1>7, <1>10, OnlyTrans

-----------------------------------------------------------------------------
(* Assignments that open and close nothing.                                  *)
Calm(s, a) == Frame(s, a, {}) /\ SamePcm(s, a) /\ SameMixer(s, a)

LEMMA CalmUses ==
  ASSUME NEW s, NEW a, NEW n, Calm(s, a)
  PROVE  Uses(s, n) => Uses(a, n)
  <1>1. Outs(a) = Outs(s) /\ OutMixers(a) = OutMixers(s) /\ InMixers(a) = InMixers(s)
    BY DEF Calm, Frame, SameDev, Outs, OutMixers, InMixers
  <1> QED
    BY <1>1 DEF Calm, Uses, Handles, PcmCount, MixerCount, SamePcm, SameMixer

LEMMA BaseCalm ==
  ASSUME NEW s, NEW a, Base(s, a), SamePcm(s, a), SameMixer(s, a)
  PROVE  Calm(s, a) /\ SameCall(s, a)
  BY BaseFrame DEF Calm, Base

LEMMA SameStreamsCalm ==
  ASSUME NEW s, NEW a, a \in HalState, a.out = s.out, a.in = s.in,
         a.mOutput = s.mOutput, a.mInputs = s.mInputs,
         SamePcm(s, a), SameMixer(s, a)
  PROVE  Calm(s, a)
  BY DEF Calm, Frame, SameDev, NoEchoRefs

LEMMA SetFmFd ==
  ASSUME NEW s \in HalState, NEW b \in BOOLEAN, NEW a, a = [s EXCEPT !.mFmFd = b]
  PROVE  /\ Calm(s, a)
         /\ a.mMode = s.mMode /\ a.mInCallAudioMode = s.mInCallAudioMode
         /\ a.mFmFd = b /\ a.mFmResumeAfterCall = s.mFmResumeAfterCall
  <1>1. a \in HalState
    BY HalAssign
  <1>2. /\ a.out = s.out /\ a.in = s.in /\ a.mOutput = s.mOutput
        /\ a.mInputs = s.mInputs /\ SamePcm(s, a) /\ SameMixer(s, a)
    BY DEF HalState, SamePcm, SameMixer
  <1> QED
    BY <1>1, <1>2, SameStreamsCalm DEF HalState

LEMMA SetResume ==
  ASSUME NEW s \in HalState, NEW b \in BOOLEAN, NEW a,
         a = [s EXCEPT !.mFmResumeAfterCall = b]
  PROVE  /\ Calm(s, a)
         /\ a.mMode = s.mMode /\ a.mInCallAudioMode = s.mInCallAudioMode
         /\ a.mFmFd = s.mFmFd /\ a.mFmResumeAfterCall = b
  <1>1. a \in HalState
    BY HalAssign
  <1>2. /\ a.out = s.out /\ a.in = s.in /\ a.mOutput = s.mOutput
        /\ a.mInputs = s.mInputs /\ SamePcm(s, a) /\ SameMixer(s, a)
    BY DEF HalState, SamePcm, SameMixer
  <1> QED
    BY <1>1, <1>2, SameStreamsCalm DEF HalState

LEMMA SetInCall ==
  ASSUME NEW s \in HalState, NEW b \in BOOLEAN, NEW a,
         a = [s EXCEPT !.mInCallAudioMode = b]
  PROVE  /\ Calm(s, a)
         /\ a.mMode = s.mMode /\ a.mInCallAudioMode = b
         /\ a.mFmFd = s.mFmFd /\ a.mFmResumeAfterCall = s.mFmResumeAfterCall
  <1>1. a \in HalState
    BY HalAssign
  <1>2. /\ a.out = s.out /\ a.in = s.in /\ a.mOutput = s.mOutput
        /\ a.mInputs = s.mInputs /\ SamePcm(s, a) /\ SameMixer(s, a)
    BY DEF HalState, SamePcm, SameMixer
  <1> QED
    BY <1>1, <1>2, SameStreamsCalm DEF HalState

LEMMA SetMute ==
  ASSUME NEW s \in HalState, NEW b \in BOOLEAN, NEW a,
         a = [s EXCEPT !.mMicMute = b]
  PROVE  Calm(s, a) /\ SameCall(s, a)
  <1>1. a \in HalState
    BY HalAssign
  <1>2. /\ a.out = s.out /\ a.in = s.in /\ a.mOutput = s.mOutput
        /\ a.mInputs = s.mInputs /\ SamePcm(s, a) /\ SameMixer(s, a)
    BY DEF HalState, SamePcm, SameMixer
  <1> QED
    BY <1>1, <1>2, SameStreamsCalm DEF HalState, SameCall

LEMMA SetMMode ==
  ASSUME NEW s \in HalState, NEW m \in AllModes, NEW b \in BOOLEAN, NEW a,
         a = [s EXCEPT !.mMode = m, !.mActivatedCP = b]
  PROVE  /\ Calm(s, a)
         /\ a.mMode = m /\ a.mInCallAudioMode = s.mInCallAudioMode
         /\ a.mFmFd = s.mFmFd /\ a.mFmResumeAfterCall = s.mFmResumeAfterCall
  <1>1. a \in HalState
    BY DEF HalState
  <1>2. /\ a.out = s.out /\ a.in = s.in /\ a.mOutput = s.mOutput
        /\ a.mInputs = s.mInputs /\ SamePcm(s, a) /\ SameMixer(s, a)
    BY DEF HalState, SamePcm, SameMixer
  <1> QED
    BY <1>1, <1>2, SameStreamsCalm DEF HalState

(* One field of a stream that is no device.                                  *)
LEMMA SetOutField ==
  ASSUME NEW s \in HalState, NEW o \in OutStreams, NEW a
  PROVE  /\ \A T \in SUBSET Threads : a = [s EXCEPT !.out[o].snap = T]
              => Calm(s, a) /\ SameCall(s, a)
         /\ \A d \in AllOutDevices : a = [s EXCEPT !.out[o].mDevices = d]
              => Calm(s, a) /\ SameCall(s, a)
  <1>0. s.out[o] \in OutState
    BY HalFields
  <1>1. ASSUME NEW q \in OutState, a = SetOut(s, o, q), SameDev(q, s.out[o]),
               q.alive <=> s.out[o].alive
        PROVE  Calm(s, a) /\ SameCall(s, a)
    <2>1. /\ a \in HalState
          /\ a.out[o] = q /\ \A p \in OutStreams \ {o} : a.out[p] = s.out[p]
          /\ a.in = s.in /\ a.mOutput = s.mOutput /\ a.mInputs = s.mInputs
          /\ SameCall(s, a) /\ SamePcm(s, a) /\ SameMixer(s, a)
      BY <1>1, SetOutEffect
    <2> QED
      BY <1>1, <2>1 DEF Calm, Frame, SameDev, NoEchoRefs
  <1>2. ASSUME NEW T \in SUBSET Threads, a = [s EXCEPT !.out[o].snap = T]
        PROVE  Calm(s, a) /\ SameCall(s, a)
    <2> DEFINE q == [s.out[o] EXCEPT !.snap = T]
    <2>1. q \in OutState /\ SameDev(q, s.out[o]) /\ (q.alive <=> s.out[o].alive)
      BY <1>0, OutAssign DEF OutState, SameDev
    <2>2. a = SetOut(s, o, q)
      BY <1>2 DEF SetOut
    <2> HIDE DEF q
    <2> QED
      BY <1>1, <2>1, <2>2
  <1>3. ASSUME NEW d \in AllOutDevices, a = [s EXCEPT !.out[o].mDevices = d]
        PROVE  Calm(s, a) /\ SameCall(s, a)
    <2> DEFINE q == [s.out[o] EXCEPT !.mDevices = d]
    <2>1. q \in OutState /\ SameDev(q, s.out[o]) /\ (q.alive <=> s.out[o].alive)
      BY <1>0, OutAssign DEF OutState, SameDev
    <2>2. a = SetOut(s, o, q)
      BY <1>3 DEF SetOut
    <2> HIDE DEF q
    <2> QED
      BY <1>1, <2>1, <2>2
  <1> QED
    BY <1>2, <1>3

LEMMA SetInField ==
  ASSUME NEW s \in HalState, NEW i \in InStreams, NEW a
  PROVE  /\ \A T \in SUBSET Threads : a = [s EXCEPT !.in[i].snap = T]
              => Calm(s, a) /\ SameCall(s, a)
         /\ \A d \in AllInDevices : a = [s EXCEPT !.in[i].mDevices = d]
              => Calm(s, a) /\ SameCall(s, a)
  <1>0. s.in[i] \in InState
    BY HalFields
  <1>1. ASSUME NEW q \in InState, a = SetIn(s, i, q), SameDev(q, s.in[i]),
               q.alive <=> s.in[i].alive,
               q.mNeedEchoReference = s.in[i].mNeedEchoReference,
               q.mEchoReference = s.in[i].mEchoReference
        PROVE  Calm(s, a) /\ SameCall(s, a)
    <2>1. /\ a \in HalState
          /\ a.in[i] = q /\ \A j \in InStreams \ {i} : a.in[j] = s.in[j]
          /\ a.out = s.out /\ a.mOutput = s.mOutput /\ a.mInputs = s.mInputs
          /\ SameCall(s, a) /\ SamePcm(s, a) /\ SameMixer(s, a)
      BY <1>1, SetInEffect
    <2>2. NoEchoRefs(s) => NoEchoRefs(a)
      BY <1>1, <2>1 DEF NoEchoRefs
    <2>3. \A j \in InStreams : /\ a.in[j].alive <=> s.in[j].alive
                               /\ SameDev(a.in[j], s.in[j])
      BY <1>1, <2>1 DEF SameDev
    <2>4. \A o \in OutStreams : /\ a.out[o].alive <=> s.out[o].alive
                                /\ SameDev(a.out[o], s.out[o])
      BY <2>1 DEF SameDev
    <2> QED
      BY <2>1, <2>2, <2>3, <2>4 DEF Calm, Frame
  <1>2. ASSUME NEW T \in SUBSET Threads, a = [s EXCEPT !.in[i].snap = T]
        PROVE  Calm(s, a) /\ SameCall(s, a)
    <2> DEFINE q == [s.in[i] EXCEPT !.snap = T]
    <2>0. q \in InState
      BY <1>0 DEF InState
    <2>1. /\ SameDev(q, s.in[i]) /\ (q.alive <=> s.in[i].alive)
          /\ q.mNeedEchoReference = s.in[i].mNeedEchoReference
          /\ q.mEchoReference = s.in[i].mEchoReference
      BY <1>0 DEF InState, SameDev
    <2>2. a = SetIn(s, i, q)
      BY <1>2 DEF SetIn
    <2> HIDE DEF q
    <2> QED
      BY <1>1, <2>0, <2>1, <2>2
  <1>3. ASSUME NEW d \in AllInDevices, a = [s EXCEPT !.in[i].mDevices = d]
        PROVE  Calm(s, a) /\ SameCall(s, a)
    <2> DEFINE q == [s.in[i] EXCEPT !.mDevices = d]
    <2>0. q \in InState
      BY <1>0 DEF InState
    <2>1. /\ SameDev(q, s.in[i]) /\ (q.alive <=> s.in[i].alive)
          /\ q.mNeedEchoReference = s.in[i].mNeedEchoReference
          /\ q.mEchoReference = s.in[i].mEchoReference
      BY <1>0 DEF InState, SameDev
    <2>2. a = SetIn(s, i, q)
      BY <1>3 DEF SetIn
    <2> HIDE DEF q
    <2> QED
      BY <1>1, <2>0, <2>1, <2>2
  <1> QED
    BY <1>2, <1>3

(* A stream leaves standby: nothing else of it changes.                      *)
LEMMA LeaveStandby ==
  ASSUME NEW s \in HalState, NEW n, Uses(s, n), NEW a
  PROVE  /\ \A o \in OutStreams : a = [s EXCEPT !.out[o].mStandby = FALSE]
              => /\ OutOnly(s, a, o) /\ Uses(a, n)
                 /\ ~a.out[o].mStandby
                 /\ (a.out[o].mPcm <=> s.out[o].mPcm)
                 /\ (a.out[o].mMixer <=> s.out[o].mMixer)
         /\ \A i \in InStreams : a = [s EXCEPT !.in[i].mStandby = FALSE]
              => /\ InOnly(s, a, i) /\ Uses(a, n)
                 /\ ~a.in[i].mStandby
                 /\ (a.in[i].mPcm <=> s.in[i].mPcm)
                 /\ (a.in[i].mMixer <=> s.in[i].mMixer)
  <1>1. ASSUME NEW o \in OutStreams, a = [s EXCEPT !.out[o].mStandby = FALSE]
        PROVE  /\ OutOnly(s, a, o) /\ Uses(a, n)
               /\ ~a.out[o].mStandby
               /\ (a.out[o].mPcm <=> s.out[o].mPcm)
               /\ (a.out[o].mMixer <=> s.out[o].mMixer)
    <2> DEFINE q == [s.out[o] EXCEPT !.mStandby = FALSE]
    <2>1. s.out[o] \in OutState /\ q \in OutState
      BY HalFields, OutAssign
    <2>2. /\ ~q.mStandby /\ (q.mPcm <=> s.out[o].mPcm)
          /\ (q.mMixer <=> s.out[o].mMixer) /\ (q.alive <=> s.out[o].alive)
      BY <2>1 DEF OutState
    <2>3. a = SetOut(s, o, q)
      BY <1>1 DEF SetOut
    <2> HIDE DEF q
    <2>4. /\ a \in HalState
          /\ a.out[o] = q /\ \A p \in OutStreams \ {o} : a.out[p] = s.out[p]
          /\ a.in = s.in /\ a.mOutput = s.mOutput /\ a.mInputs = s.mInputs
          /\ SameCall(s, a) /\ SamePcm(s, a) /\ SameMixer(s, a)
      BY <2>1, <2>3, SetOutEffect
    <2>5. Outs(a) = Outs(s) /\ OutMixers(a) = OutMixers(s) /\ InMixers(a) = InMixers(s)
      BY <2>2, <2>4 DEF Outs, OutMixers, InMixers
    <2>6. Uses(a, n)
      BY <2>4, <2>5 DEF Uses, Handles, PcmCount, MixerCount, SamePcm, SameMixer
    <2> QED
      BY <2>2, <2>4, <2>6 DEF OutOnly
  <1>2. ASSUME NEW i \in InStreams, a = [s EXCEPT !.in[i].mStandby = FALSE]
        PROVE  /\ InOnly(s, a, i) /\ Uses(a, n)
               /\ ~a.in[i].mStandby
               /\ (a.in[i].mPcm <=> s.in[i].mPcm)
               /\ (a.in[i].mMixer <=> s.in[i].mMixer)
    <2> DEFINE q == [s.in[i] EXCEPT !.mStandby = FALSE]
    <2>1. s.in[i] \in InState /\ q \in InState
      BY HalFields, InAssign
    <2>2. /\ ~q.mStandby /\ (q.mPcm <=> s.in[i].mPcm)
          /\ (q.mMixer <=> s.in[i].mMixer) /\ (q.alive <=> s.in[i].alive)
          /\ q.mNeedEchoReference = s.in[i].mNeedEchoReference
          /\ q.mEchoReference = s.in[i].mEchoReference
      BY <2>1 DEF InState
    <2>3. a = SetIn(s, i, q)
      BY <1>2 DEF SetIn
    <2> HIDE DEF q
    <2>4. /\ a \in HalState
          /\ a.in[i] = q /\ \A j \in InStreams \ {i} : a.in[j] = s.in[j]
          /\ a.out = s.out /\ a.mOutput = s.mOutput /\ a.mInputs = s.mInputs
          /\ SameCall(s, a) /\ SamePcm(s, a) /\ SameMixer(s, a)
      BY <2>1, <2>3, SetInEffect
    <2>5. Outs(a) = Outs(s) /\ OutMixers(a) = OutMixers(s) /\ InMixers(a) = InMixers(s)
      BY <2>2, <2>4 DEF Outs, OutMixers, InMixers
    <2>6. Uses(a, n)
      BY <2>4, <2>5 DEF Uses, Handles, PcmCount, MixerCount, SamePcm, SameMixer
    <2> QED
      BY <2>2, <2>4, <2>6 DEF InOnly
  <1> QED
    BY <1>1, <1>2

-----------------------------------------------------------------------------
(* A call, or FM, opens both devices and gives both back.                    *)
LEMMA OneMore ==
  ASSUME NEW s, NEW a, NEW n \in Nat, Uses(s, n), Handles(a),
         Outs(a) = Outs(s), OutMixers(a) = OutMixers(s), InMixers(a) = InMixers(s),
         a.mPcmOpenCnt = s.mPcmOpenCnt + 1, a.mMixerOpenCnt = s.mMixerOpenCnt + 1
  PROVE  Uses(a, n + 1)
  <1>1. PcmCount(a, n + 1)
    BY FiniteStreams DEF Uses, PcmCount
  <1>2. MixerCount(a, n + 1)
    BY FiniteStreams DEF Uses, MixerCount
  <1> QED
    BY <1>1, <1>2 DEF Uses

LEMMA OpenBothEffect ==
  ASSUME NEW s \in HalState, NEW n \in Nat, Uses(s, n),
         NEW a, a = OpenMixer(OpenPcmOut(s, TRUE), TRUE)
  PROVE  Base(s, a) /\ Uses(a, n + 1)
  <1> DEFINE c == OpenPcmOut(s, TRUE)
  <1>0. PcmHandle(s, TRUE)
    BY OpenPcmEffect DEF Uses
  <1>1. Base(s, c) /\ SameMixer(s, c) /\ Handles(c)
    BY OpenPcmEffect DEF Uses
  <1>2. c.mPcmOpenCnt = s.mPcmOpenCnt + 1
    BY <1>0, OpenPcmEffect DEF Uses
  <1>3. c \in HalState /\ a = OpenMixer(c, TRUE)
    BY <1>1 DEF Base
  <1> HIDE DEF c
  <1>4. MixerHandle(c, TRUE)
    BY <1>1, <1>3, OpenMixerEffect
  <1>5. Base(c, a) /\ SamePcm(c, a) /\ Handles(a)
    BY <1>1, <1>3, OpenMixerEffect
  <1>6. a.mMixerOpenCnt = c.mMixerOpenCnt + 1
    BY <1>1, <1>3, <1>4, OpenMixerEffect
  <1>7. Base(s, a)
    BY <1>1, <1>5, BaseTrans
  <1>8. Outs(a) = Outs(s) /\ OutMixers(a) = OutMixers(s) /\ InMixers(a) = InMixers(s)
    BY <1>7, SameCounts
  <1>9. a.mPcmOpenCnt = s.mPcmOpenCnt + 1 /\ a.mMixerOpenCnt = s.mMixerOpenCnt + 1
    BY <1>1, <1>2, <1>5, <1>6 DEF SamePcm, SameMixer
  <1>10. Uses(a, n + 1)
    BY <1>5, <1>8, <1>9, OneMore
  <1> QED
    BY <1>7, <1>10

LEMMA CloseBothEffect ==
  ASSUME NEW s \in HalState, NEW n \in Nat, Uses(s, n + 1),
         NEW a, a = ClosePcmOut(CloseMixer(s))
  PROVE  Base(s, a) /\ Uses(a, n)
  <1> DEFINE c == CloseMixer(s)
  <1>0. s.mMixerOpenCnt > 0 /\ s.mPcmOpenCnt > 0
    BY FiniteStreams DEF Uses, PcmCount, MixerCount
  <1>1. Base(s, c) /\ SamePcm(s, c) /\ Handles(c)
    BY <1>0, CloseMixerEffect DEF Uses
  <1>2. c.mMixerOpenCnt = s.mMixerOpenCnt - 1
    BY <1>0, CloseMixerEffect DEF Uses
  <1>3. c \in HalState /\ a = ClosePcmOut(c) /\ c.mPcmOpenCnt > 0
    BY <1>0, <1>1 DEF Base, SamePcm
  <1> HIDE DEF c
  <1>4. Base(c, a) /\ SameMixer(c, a) /\ Handles(a)
    BY <1>1, <1>3, ClosePcmEffect
  <1>5. a.mPcmOpenCnt = c.mPcmOpenCnt - 1
    BY <1>1, <1>3, ClosePcmEffect
  <1>6. Base(s, a)
    BY <1>1, <1>4, BaseTrans
  <1>7. Outs(a) = Outs(s) /\ OutMixers(a) = OutMixers(s) /\ InMixers(a) = InMixers(s)
    BY <1>6, SameCounts
  <1>8. a.mPcmOpenCnt = s.mPcmOpenCnt - 1 /\ a.mMixerOpenCnt = s.mMixerOpenCnt - 1
    BY <1>1, <1>2, <1>4, <1>5 DEF SamePcm, SameMixer
  <1>9. PcmCount(a, n)
    BY <1>7, <1>8, FiniteStreams DEF Uses, PcmCount
  <1>10. MixerCount(a, n)
    BY <1>7, <1>8, FiniteStreams DEF Uses, MixerCount
  <1> QED
    BY <1>4, <1>6, <1>9, <1>10 DEF Uses

(* enableFMRadio when both devices open, and disableFMRadio.                 *)
LEMMA EnableFmEffect ==
  ASSUME NEW s \in HalState, NEW n \in Nat, Uses(s, n),
         NEW a, a = EnableFm(s, TRUE, TRUE)
  PROVE  /\ Frame(s, a, {})
         /\ a.mMode = s.mMode /\ a.mInCallAudioMode = s.mInCallAudioMode
         /\ s.mMode = "IN_CALL" =>
              Uses(a, n) /\ a.mFmFd = s.mFmFd /\ a.mFmResumeAfterCall
         /\ s.mMode # "IN_CALL" =>
              /\ Uses(a, n + 1) /\ a.mFmFd
              /\ a.mFmResumeAfterCall = s.mFmResumeAfterCall
  <1>1. CASE s.mMode = "IN_CALL"
    <2>1. a = [s EXCEPT !.mFmResumeAfterCall = TRUE]
      BY <1>1 DEF EnableFm
    <2>2. /\ Calm(s, a)
          /\ a.mMode = s.mMode /\ a.mInCallAudioMode = s.mInCallAudioMode
          /\ a.mFmFd = s.mFmFd /\ a.mFmResumeAfterCall = TRUE
      BY <2>1, SetResume
    <2> QED
      BY <1>1, <2>2, CalmUses DEF Calm
  <1>2. CASE s.mMode # "IN_CALL"
    <2> DEFINE b == OpenMixer(OpenPcmOut(s, TRUE), TRUE)
               c == [b EXCEPT !.mFmFd = TRUE]
    <2>1. Base(s, b) /\ Uses(b, n + 1)
      BY OpenBothEffect
    <2>2. b \in HalState
      BY <2>1 DEF Base
    <2>3. a = FmRouted(c)
      BY <1>2 DEF EnableFm
    <2> HIDE DEF b
    <2>4. /\ Calm(b, c)
          /\ c.mMode = b.mMode /\ c.mInCallAudioMode = b.mInCallAudioMode
          /\ c.mFmFd = TRUE /\ c.mFmResumeAfterCall = b.mFmResumeAfterCall
      BY <2>2, SetFmFd
    <2>5. c \in HalState
      BY <2>4 DEF Calm, Frame
    <2> HIDE DEF c
    <2>6. Base(c, a) /\ SamePcm(c, a) /\ SameMixer(c, a)
      <3>1. CASE a = c
        BY <2>5, <3>1 DEF Base, SameCall, SamePcm, SameMixer
      <3>2. CASE a = [c EXCEPT !.playbackPath = OutputRoute(c.out[c.mOutput].mDevices)]
        BY <2>5, <3>2, PathEffect, RouteType
      <3> QED
        BY <2>3, <3>1, <3>2 DEF FmRouted
    <2>7. Calm(c, a) /\ SameCall(c, a)
      BY <2>6, BaseCalm
    <2>8. Uses(c, n + 1)
      BY <2>1, <2>4, CalmUses
    <2>9. Uses(a, n + 1)
      BY <2>7, <2>8, CalmUses
    <2>10. Frame(s, b, {})
      BY <2>1, BaseFrame
    <2>11. Frame(s, a, {})
      BY <2>4, <2>7, <2>10, FrameTrans DEF Calm
    <2> QED
      BY <1>2, <2>1, <2>4, <2>7, <2>9, <2>11 DEF Base, SameCall
  <1> QED
    BY <1>1, <1>2

LEMMA DisableFmEffect ==
  ASSUME NEW s \in HalState, NEW n \in Nat, Uses(s, n + 1),
         NEW a, a = DisableFm(s)
  PROVE  /\ Frame(s, a, {}) /\ Uses(a, n)
         /\ a.mMode = s.mMode /\ a.mInCallAudioMode = s.mInCallAudioMode
         /\ ~a.mFmFd /\ a.mFmResumeAfterCall = s.mFmResumeAfterCall
  <1> DEFINE b == ClosePcmOut(CloseMixer(s))
  <1>1. s.mMixerOpenCnt > 0
    BY FiniteStreams DEF Uses, MixerCount
  <1>2. s.mMixer
    BY <1>1 DEF Uses, Handles
  <1>3. a = [b EXCEPT !.mFmFd = FALSE]
    BY <1>2 DEF DisableFm
  <1>4. Base(s, b) /\ Uses(b, n)
    BY CloseBothEffect
  <1>5. b \in HalState
    BY <1>4 DEF Base
  <1> HIDE DEF b
  <1>6. /\ Calm(b, a)
        /\ a.mMode = b.mMode /\ a.mInCallAudioMode = b.mInCallAudioMode
        /\ a.mFmFd = FALSE /\ a.mFmResumeAfterCall = b.mFmResumeAfterCall
    BY <1>3, <1>5, SetFmFd
  <1>7. Uses(a, n)
    BY <1>4, <1>6, CalmUses
  <1>8. Frame(s, b, {})
    BY <1>4, BaseFrame
  <1>9. Frame(s, a, {})
    BY <1>6, <1>8, FrameTrans DEF Calm
  <1> QED
    BY <1>4, <1>6, <1>7, <1>9 DEF Base, SameCall

-----------------------------------------------------------------------------
(* Streams that come and go.                                                 *)
LEMMA ReplaceOut ==
  ASSUME NEW s \in HalState, NEW o \in OutStreams, NEW q \in OutState, NEW n,
         Uses(s, n), Off(q), Off(s.out[o]), NEW a, a = SetOut(s, o, q)
  PROVE  /\ a \in HalState /\ Uses(a, n)
         /\ a.out[o] = q /\ \A p \in OutStreams \ {o} : a.out[p] = s.out[p]
         /\ a.in = s.in /\ a.mOutput = s.mOutput /\ a.mInputs = s.mInputs
         /\ SameCall(s, a)
  <1>1. /\ a \in HalState
        /\ a.out[o] = q /\ \A p \in OutStreams \ {o} : a.out[p] = s.out[p]
        /\ a.in = s.in /\ a.mOutput = s.mOutput /\ a.mInputs = s.mInputs
        /\ SameCall(s, a) /\ SamePcm(s, a) /\ SameMixer(s, a)
    BY SetOutEffect
  <1>2. Outs(a) = Outs(s) /\ OutMixers(a) = OutMixers(s) /\ InMixers(a) = InMixers(s)
    BY <1>1 DEF Outs, OutMixers, InMixers, Off
  <1>3. Uses(a, n)
    BY <1>1, <1>2 DEF Uses, Handles, PcmCount, MixerCount, SamePcm, SameMixer
  <1> QED
    BY <1>1, <1>3

LEMMA ReplaceIn ==
  ASSUME NEW s \in HalState, NEW i \in InStreams, NEW q \in InState, NEW n,
         Uses(s, n), Off(q), Off(s.in[i]), NEW a, a = SetIn(s, i, q)
  PROVE  /\ a \in HalState /\ Uses(a, n)
         /\ a.in[i] = q /\ \A j \in InStreams \ {i} : a.in[j] = s.in[j]
         /\ a.out = s.out /\ a.mOutput = s.mOutput /\ a.mInputs = s.mInputs
         /\ SameCall(s, a)
  <1>1. /\ a \in HalState
        /\ a.in[i] = q /\ \A j \in InStreams \ {i} : a.in[j] = s.in[j]
        /\ a.out = s.out /\ a.mOutput = s.mOutput /\ a.mInputs = s.mInputs
        /\ SameCall(s, a) /\ SamePcm(s, a) /\ SameMixer(s, a)
    BY SetInEffect
  <1>2. Outs(a) = Outs(s) /\ OutMixers(a) = OutMixers(s) /\ InMixers(a) = InMixers(s)
    BY <1>1 DEF Outs, OutMixers, InMixers, Off
  <1>3. Uses(a, n)
    BY <1>1, <1>2 DEF Uses, Handles, PcmCount, MixerCount, SamePcm, SameMixer
  <1> QED
    BY <1>1, <1>3

(* mOutput or mInputs is assigned.                                           *)
LEMMA SetMembers ==
  ASSUME NEW s \in HalState, NEW n, Uses(s, n), NEW a
  PROVE  /\ \A o \in OutStreams \cup {None} : a = [s EXCEPT !.mOutput = o]
              => /\ a \in HalState /\ Uses(a, n) /\ SameCall(s, a)
                 /\ a.out = s.out /\ a.in = s.in
                 /\ a.mOutput = o /\ a.mInputs = s.mInputs
         /\ \A I \in SUBSET InStreams : a = [s EXCEPT !.mInputs = I]
              => /\ a \in HalState /\ Uses(a, n) /\ SameCall(s, a)
                 /\ a.out = s.out /\ a.in = s.in
                 /\ a.mOutput = s.mOutput /\ a.mInputs = I
  <1>1. ASSUME a.out = s.out, a.in = s.in, SamePcm(s, a), SameMixer(s, a)
        PROVE  Uses(a, n)
    <2>1. Outs(a) = Outs(s) /\ OutMixers(a) = OutMixers(s) /\ InMixers(a) = InMixers(s)
      BY <1>1 DEF Outs, OutMixers, InMixers
    <2> QED
      BY <1>1, <2>1 DEF Uses, Handles, PcmCount, MixerCount, SamePcm, SameMixer
  <1>2. ASSUME NEW o \in OutStreams \cup {None}, a = [s EXCEPT !.mOutput = o]
        PROVE  /\ a \in HalState /\ SameCall(s, a)
               /\ a.out = s.out /\ a.in = s.in
               /\ a.mOutput = o /\ a.mInputs = s.mInputs
               /\ SamePcm(s, a) /\ SameMixer(s, a)
    <2>1. a \in HalState
      BY <1>2, HalAssign
    <2> QED
      BY <1>2, <2>1 DEF HalState, SameCall, SamePcm, SameMixer
  <1>3. ASSUME NEW I \in SUBSET InStreams, a = [s EXCEPT !.mInputs = I]
        PROVE  /\ a \in HalState /\ SameCall(s, a)
               /\ a.out = s.out /\ a.in = s.in
               /\ a.mOutput = s.mOutput /\ a.mInputs = I
               /\ SamePcm(s, a) /\ SameMixer(s, a)
    <2>1. a \in HalState
      BY <1>3, HalAssign
    <2> QED
      BY <1>3, <2>1 DEF HalState, SameCall, SamePcm, SameMixer
  <1> QED
    BY <1>1, <1>2, <1>3

=============================================================================
