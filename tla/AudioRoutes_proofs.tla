-------------------------- MODULE AudioRoutes_proofs --------------------------
(* Theorems about what AudioHardware sets in the codec and the kernel: the   *)
(* route of playback, the route of the microphone and the wake lock are what *)
(* the streams and the clients ask for, and the call route is switched while *)
(* no other thread uses a device.                                            *)
EXTENDS AudioSafety_proofs

(* What is assumed of the clients, theorem by theorem: nobody records where  *)
(* the mode is set; the thread that opens an output is the one that closes   *)
(* it, so that it opens one only after the destructor of the last is done.   *)
CaptureApart ==
  \A t, u \in Threads : ~("openIn" \in Calls[t] /\ "setMode" \in Calls[u])

OneOpener ==
  \A t, u \in Threads : "openOut" \in Calls[t] /\ "closeOut" \in Calls[u] => t = u

-----------------------------------------------------------------------------
(* What is kept true of the routes in a state s of the object.               *)
CallMode(s) == s.mMode = "IN_CALL" => s.mInCallAudioMode

(* An open output, or input, is routed to its device but in a call; V are    *)
(* the inputs about to be put in standby.                                    *)
Open(p) == p.mPcm /\ p.mMixer

OutFollows(s) ==
  LET o == s.mOutput
  IN  o # None /\ ~s.mInCallAudioMode /\ Open(s.out[o])
        => s.playbackPath = OutputRoute(s.out[o].mDevices)

MicFollows(s, V) ==
  ~s.mInCallAudioMode =>
    \A i \in s.mInputs \ V :
      Open(s.in[i]) => s.memoPath = InputRoute(s.mMicMute, s.in[i].mDevices)

(* From s to a nothing is routed or opened, no control is set, and no output *)
(* leaves standby, enters it, comes or goes.                                 *)
OutQuiet(s, a) ==
  /\ a.playbackPath = s.playbackPath
  /\ \A o \in OutStreams : /\ a.out[o].mDevices = s.out[o].mDevices
                           /\ Open(a.out[o]) => Open(s.out[o])

InQuiet(s, a) ==
  /\ a.memoPath = s.memoPath /\ a.mMicMute = s.mMicMute
  /\ \A i \in InStreams : /\ a.in[i].mDevices = s.in[i].mDevices
                          /\ Open(a.in[i]) => Open(s.in[i])

SameMode(s, a) == Keeps(s, a) /\ a.mMode = s.mMode

Quiet(s, a) == SameMode(s, a) /\ OutQuiet(s, a) /\ InQuiet(s, a)

Awake(s, a) ==
  /\ a.wakeLock = s.wakeLock
  /\ \A o \in OutStreams : /\ a.out[o].mStandby <=> s.out[o].mStandby
                           /\ a.out[o].alive <=> s.out[o].alive

(* From s to a the routes stay right.                                        *)
Follows(s, a) ==
  /\ SameMode(s, a)
  /\ CallMode(s) => /\ OutFollows(s) => OutFollows(a)
                    /\ \A V : MicFollows(s, V) => MicFollows(a, V)

LEMMA QuietTrans ==
  ASSUME NEW s, NEW a, NEW b
  PROVE  /\ SameMode(s, a) /\ SameMode(a, b) => SameMode(s, b)
         /\ Quiet(s, a) /\ Quiet(a, b) => Quiet(s, b)
         /\ Awake(s, a) /\ Awake(a, b) => Awake(s, b)
         /\ Follows(s, a) /\ Follows(a, b) => Follows(s, b)
  <1>1. SameMode(s, a) /\ SameMode(a, b) => SameMode(s, b)
    BY KeepsTrans DEF SameMode
  <1>2. ASSUME Quiet(s, a), Quiet(a, b) PROVE Quiet(s, b)
    BY <1>1, <1>2 DEF Quiet, OutQuiet, InQuiet
  <1>3. Awake(s, a) /\ Awake(a, b) => Awake(s, b)
    BY DEF Awake
  <1>4. ASSUME Follows(s, a), Follows(a, b) PROVE Follows(s, b)
    <2>1. SameMode(s, b) /\ (CallMode(s) => CallMode(a))
      BY <1>1, <1>4 DEF Follows, SameMode, CallMode, Keeps, SameSwitch
    <2> QED
      BY <1>4, <2>1 DEF Follows
  <1> QED
    BY <1>1, <1>2, <1>3, <1>4

LEMMA QuietSame ==
  ASSUME NEW s \in HalState
  PROVE  Quiet(s, s) /\ Awake(s, s) /\ Follows(s, s)
  BY KeepsSame DEF Quiet, SameMode, OutQuiet, InQuiet, Awake, Follows

LEMMA MicQuiet ==
  ASSUME NEW s \in HalState, NEW a, SameMode(s, a), InQuiet(s, a),
         NEW V, MicFollows(s, V)
  PROVE  MicFollows(a, V)
  <1>1. /\ a.mInputs = s.mInputs /\ s.mInputs \subseteq InStreams
        /\ a.mInCallAudioMode <=> s.mInCallAudioMode
    BY HalFields DEF SameMode, Keeps, Still, SameSwitch
  <1> QED
    BY <1>1 DEF MicFollows, InQuiet

LEMMA QuietFollows ==
  ASSUME NEW s \in HalState, NEW a, Quiet(s, a)
  PROVE  Follows(s, a)
  <1>1. OutFollows(s) => OutFollows(a)
    <2>1. /\ a.mOutput = s.mOutput /\ s.mOutput \in OutStreams \cup {None}
          /\ a.mInCallAudioMode <=> s.mInCallAudioMode
      BY HalFields DEF Quiet, SameMode, Keeps, Still, SameSwitch
    <2> QED
      BY <2>1 DEF OutFollows, Quiet, OutQuiet
  <1> QED
    BY <1>1, MicQuiet DEF Quiet, Follows

-----------------------------------------------------------------------------
(* Assignments.                                                              *)
LEMMA SetQuiet ==
  ASSUME NEW s \in HalState, NEW n \in Nat, NEW b \in BOOLEAN
  PROVE  /\ Quiet(s, SetMixer(s, n, b)) /\ Awake(s, SetMixer(s, n, b))
         /\ Quiet(s, SetPcm(s, n, b)) /\ Awake(s, SetPcm(s, n, b))
  <1>1. ASSUME NEW a, a \in {SetMixer(s, n, b), SetPcm(s, n, b)}
        PROVE  Quiet(s, a) /\ Awake(s, a)
    <2>1. Keeps(s, a)
      BY <1>1, SetKeeps
    <2>2. /\ a.out = s.out /\ a.in = s.in /\ a.mMode = s.mMode
          /\ a.playbackPath = s.playbackPath /\ a.memoPath = s.memoPath
          /\ a.mMicMute = s.mMicMute /\ a.wakeLock = s.wakeLock
      BY <1>1 DEF SetMixer, SetPcm, HalState
    <2> QED
      BY <2>1, <2>2 DEF Quiet, SameMode, OutQuiet, InQuiet, Awake
  <1> QED
    BY <1>1

LEMMA FieldQuiet ==
  ASSUME NEW s \in HalState, NEW b \in BOOLEAN
  PROVE  /\ Quiet(s, [s EXCEPT !.mFmFd = b]) /\ Awake(s, [s EXCEPT !.mFmFd = b])
         /\ Quiet(s, [s EXCEPT !.mFmResumeAfterCall = b])
         /\ Awake(s, [s EXCEPT !.mFmResumeAfterCall = b])
         /\ Quiet(s, [s EXCEPT !.wakeLock = b])
  <1>1. ASSUME NEW a, a \in {[s EXCEPT !.mFmFd = b],
                             [s EXCEPT !.mFmResumeAfterCall = b]}
        PROVE  Quiet(s, a) /\ Awake(s, a)
    <2>1. Keeps(s, a)
      BY <1>1, FieldKeeps
    <2>2. /\ a.out = s.out /\ a.in = s.in /\ a.mMode = s.mMode
          /\ a.playbackPath = s.playbackPath /\ a.memoPath = s.memoPath
          /\ a.mMicMute = s.mMicMute /\ a.wakeLock = s.wakeLock
      BY <1>1 DEF HalState
    <2> QED
      BY <2>1, <2>2 DEF Quiet, SameMode, OutQuiet, InQuiet, Awake
  <1>2. ASSUME NEW a, a = [s EXCEPT !.wakeLock = b]
        PROVE  Quiet(s, a)
    <2>1. Keeps(s, a)
      BY <1>2, FieldKeeps
    <2>2. /\ a.out = s.out /\ a.in = s.in /\ a.mMode = s.mMode
          /\ a.playbackPath = s.playbackPath /\ a.memoPath = s.memoPath
          /\ a.mMicMute = s.mMicMute
      BY <1>2 DEF HalState
    <2> QED
      BY <2>1, <2>2 DEF Quiet, SameMode, OutQuiet, InQuiet
  <1> QED
    BY <1>1, <1>2

(* A stream's record is replaced.                                            *)
LEMMA SetOutQuiet ==
  ASSUME NEW s \in HalState, NEW o \in OutStreams, NEW q \in OutState,
         q.mDevices = s.out[o].mDevices, Open(q) => Open(s.out[o])
  PROVE  /\ Quiet(s, SetOut(s, o, q))
         /\ (q.mStandby <=> s.out[o].mStandby) /\ (q.alive <=> s.out[o].alive)
              => Awake(s, SetOut(s, o, q))
  <1> DEFINE a == SetOut(s, o, q)
  <1>1. Keeps(s, a)
    BY SetOutKeeps
  <1>2. /\ a.in = s.in /\ a.mMode = s.mMode
        /\ a.playbackPath = s.playbackPath /\ a.memoPath = s.memoPath
        /\ a.mMicMute = s.mMicMute /\ a.wakeLock = s.wakeLock
        /\ \A p \in OutStreams : a.out[p] = IF p = o THEN q ELSE s.out[p]
    BY DEF SetOut, HalState
  <1> HIDE DEF a
  <1>3. Quiet(s, a)
    BY <1>1, <1>2 DEF Quiet, SameMode, OutQuiet, InQuiet
  <1>4. (q.mStandby <=> s.out[o].mStandby) /\ (q.alive <=> s.out[o].alive)
          => Awake(s, a)
    BY <1>2 DEF Awake
  <1> QED
    BY <1>3, <1>4 DEF a

LEMMA SetInQuiet ==
  ASSUME NEW s \in HalState, NEW i \in InStreams, NEW q \in InState,
         q.mDevices = s.in[i].mDevices, Open(q) => Open(s.in[i]),
         q.mNeedEchoReference = s.in[i].mNeedEchoReference,
         q.mEchoReference \in {s.in[i].mEchoReference, None}
  PROVE  Quiet(s, SetIn(s, i, q)) /\ Awake(s, SetIn(s, i, q))
  <1> DEFINE a == SetIn(s, i, q)
  <1>1. Keeps(s, a)
    BY SetInKeeps
  <1>2. /\ a.out = s.out /\ a.mMode = s.mMode
        /\ a.playbackPath = s.playbackPath /\ a.memoPath = s.memoPath
        /\ a.mMicMute = s.mMicMute /\ a.wakeLock = s.wakeLock
        /\ \A j \in InStreams : a.in[j] = IF j = i THEN q ELSE s.in[j]
    BY DEF SetIn, HalState
  <1> HIDE DEF a
  <1>3. Quiet(s, a) /\ Awake(s, a)
    BY <1>1, <1>2 DEF Quiet, SameMode, OutQuiet, InQuiet, Awake
  <1> QED
    BY <1>3 DEF a

-----------------------------------------------------------------------------
(* The functions called with the hardware mutex held.                        *)
Unheard(s, a) == Quiet(s, a) /\ Awake(s, a)

LEMMA UnheardTrans ==
  ASSUME NEW s \in HalState, NEW a, Unheard(s, a)
  PROVE  /\ a \in HalState /\ Follows(s, a)
         /\ \A b : Unheard(a, b) => Unheard(s, b)
         /\ a.mOutput = s.mOutput /\ a.mInputs = s.mInputs /\ a.mMode = s.mMode
  BY QuietTrans, QuietFollows DEF Unheard, Quiet, SameMode, Keeps, Still

LEMMA DevicesUnheard ==
  ASSUME NEW s \in HalState, NEW ok \in BOOLEAN
  PROVE  /\ Unheard(s, OpenMixer(s, ok)) /\ Unheard(s, CloseMixer(s))
         /\ Unheard(s, SetIdleMode(s))
         /\ Unheard(s, OpenPcmOut(s, ok)) /\ Unheard(s, ClosePcmOut(s))
  <1>0. ASSUME NEW a \in HalState PROVE Unheard(a, a)
    BY QuietSame DEF Unheard
  <1>1. ASSUME NEW a \in HalState, NEW b \in BOOLEAN PROVE Unheard(a, OpenMixer(a, b))
    BY <1>0, <1>1, SetQuiet, HandleType, HalFields DEF OpenMixer, Unheard
  <1>2. ASSUME NEW a \in HalState PROVE Unheard(a, CloseMixer(a))
    <2>1. (a.mMixer /\ a.mMixerOpenCnt # 1) \in BOOLEAN
      OBVIOUS
    <2>2. a.mMixerOpenCnt # 0 => a.mMixerOpenCnt - 1 \in Nat
      BY HalFields
    <2> QED
      BY <1>0, <2>1, <2>2, SetQuiet DEF CloseMixer, Unheard
  <1>3. ASSUME NEW a \in HalState PROVE Unheard(a, SetIdleMode(a))
    <2>1. Unheard(a, OpenMixer(a, TRUE)) /\ OpenMixer(a, TRUE) \in HalState
      BY <1>1, OpenMixerType
    <2>2. Unheard(a, CloseMixer(OpenMixer(a, TRUE)))
      BY <1>2, <2>1, UnheardTrans
    <2> QED
      BY <1>0, <2>2 DEF SetIdleMode
  <1>4. Unheard(s, OpenPcmOut(s, ok))
    BY <1>0, SetQuiet, HandleType, HalFields DEF OpenPcmOut, Unheard
  <1>5. Unheard(s, ClosePcmOut(s))
    <2>1. (s.mPcm /\ s.mPcmOpenCnt # 1) \in BOOLEAN
      OBVIOUS
    <2>2. CASE s.mPcmOpenCnt = 0
      BY <1>0, <2>2 DEF ClosePcmOut
    <2>3. CASE s.mPcmOpenCnt # 0
      <3> DEFINE a == SetPcm(s, s.mPcmOpenCnt - 1, s.mPcm /\ s.mPcmOpenCnt # 1)
      <3>1. s.mPcmOpenCnt - 1 \in Nat
        BY <2>3, HalFields
      <3>2. Unheard(s, a)
        BY <2>1, <3>1, SetQuiet DEF Unheard
      <3>3. ClosePcmOut(s) = SetIdleMode(a)
        BY <2>3 DEF ClosePcmOut
      <3> HIDE DEF a
      <3> QED
        BY <1>3, <3>2, <3>3, UnheardTrans
    <2> QED
      BY <2>2, <2>3
  <1> QED
    BY <1>1, <1>2, <1>3, <1>4, <1>5

(* Fields of a playback stream.                                              *)
LEMMA OutFields ==
  ASSUME NEW q \in OutState, NEW b \in BOOLEAN, NEW T
  PROVE  /\ LET p == [q EXCEPT !.mMixer = b]
            IN  /\ p.mDevices = q.mDevices /\ p.mStandby = q.mStandby
                /\ p.alive = q.alive /\ p.mPcm = q.mPcm /\ p.mMixer = b
         /\ LET p == [q EXCEPT !.mPcm = b]
            IN  /\ p.mDevices = q.mDevices /\ p.mStandby = q.mStandby
                /\ p.alive = q.alive /\ p.mPcm = b /\ p.mMixer = q.mMixer
         /\ LET p == [q EXCEPT !.mStandby = b]
            IN  /\ p.mDevices = q.mDevices /\ p.mStandby = b
                /\ p.alive = q.alive /\ p.mPcm = q.mPcm /\ p.mMixer = q.mMixer
         /\ LET p == [q EXCEPT !.mStandby = b, !.snap = {}]
            IN  /\ p.mDevices = q.mDevices /\ p.mStandby = b
                /\ p.alive = q.alive /\ p.mPcm = q.mPcm /\ p.mMixer = q.mMixer
         /\ LET p == [q EXCEPT !.snap = T]
            IN  /\ p.mDevices = q.mDevices /\ p.mStandby = q.mStandby
                /\ p.alive = q.alive /\ p.mPcm = q.mPcm /\ p.mMixer = q.mMixer
  BY DEF OutState

(* Fields of a capture stream.                                               *)
LEMMA InRecord ==
  ASSUME NEW q \in InState, NEW b \in BOOLEAN, NEW c \in BOOLEAN, NEW T, NEW e
  PROVE  /\ LET p == [q EXCEPT !.mMixer = b]
            IN  p.mDevices = q.mDevices /\ p.mPcm = q.mPcm /\ p.mMixer = b
         /\ LET p == [q EXCEPT !.mPcm = b]
            IN  p.mDevices = q.mDevices /\ p.mPcm = b /\ p.mMixer = q.mMixer
         /\ LET p == [q EXCEPT !.mPcm = b, !.mMixer = c]
            IN  p.mDevices = q.mDevices /\ p.mPcm = b /\ p.mMixer = c
         /\ LET p == [q EXCEPT !.mStandby = b]
            IN  /\ p.mDevices = q.mDevices /\ p.mPcm = q.mPcm /\ p.mMixer = q.mMixer
                /\ p.mNeedEchoReference = q.mNeedEchoReference
                /\ p.mEchoReference = q.mEchoReference
         /\ LET p == [q EXCEPT !.snap = T]
            IN  /\ p.mDevices = q.mDevices /\ p.mPcm = q.mPcm /\ p.mMixer = q.mMixer
                /\ p.mNeedEchoReference = q.mNeedEchoReference
                /\ p.mEchoReference = q.mEchoReference
         /\ LET p == [q EXCEPT !.mStandby = b, !.snap = T, !.mEchoReference = e]
            IN  p.mDevices = q.mDevices /\ p.mPcm = q.mPcm /\ p.mMixer = q.mMixer
  BY DEF InState

LEMMA OutCloseUnheard ==
  ASSUME NEW s \in HalState, NEW o \in OutStreams
  PROVE  Unheard(s, OutClose(s, o)) /\ Off(OutClose(s, o).out[o])
  <1> DEFINE a == OutCloseMixer(s, o)
             b == OutClosePcm(a, o)
  <1>1. Unheard(s, a) /\ ~a.out[o].mMixer
    <2>1. CASE ~s.out[o].mMixer
      BY <2>1, QuietSame DEF OutCloseMixer, Unheard
    <2>2. CASE s.out[o].mMixer
      <3> DEFINE c == CloseMixer(s)
                 q == [s.out[o] EXCEPT !.mMixer = FALSE]
      <3>1. Unheard(s, c) /\ c \in HalState /\ c.out = s.out
        <4>1. Unheard(s, c) /\ c \in HalState
          BY DevicesUnheard, CloseMixerType
        <4>2. \A n, h : SetMixer(s, n, h).out = s.out
          BY DEF SetMixer, HalState
        <4> QED
          BY <4>1, <4>2 DEF CloseMixer
      <3>2. s.out[o] \in OutState /\ q \in OutState
        BY OutAssign, HalFields
      <3>3. /\ q.mDevices = s.out[o].mDevices /\ q.mStandby = s.out[o].mStandby
            /\ q.alive = s.out[o].alive /\ ~Open(q) /\ ~q.mMixer
        BY <3>2, OutFields DEF Open
      <3>4. a = SetOut(c, o, q)
        BY <2>2 DEF OutCloseMixer
      <3> HIDE DEF c, q, a
      <3>5. Unheard(c, a) /\ a.out[o] = q
        BY <3>1, <3>2, <3>3, <3>4, SetOutQuiet, SetOutEffect DEF Unheard
      <3> QED
        BY <3>1, <3>3, <3>5, UnheardTrans
    <2> QED
      BY <2>1, <2>2
  <1> HIDE DEF a
  <1>2. a \in HalState
    BY <1>1, UnheardTrans
  <1>3. Unheard(a, b) /\ Off(b.out[o])
    <2>1. CASE ~a.out[o].mPcm
      BY <1>1, <1>2, <2>1, QuietSame DEF OutClosePcm, Unheard, Off
    <2>2. CASE a.out[o].mPcm
      <3> DEFINE c == ClosePcmOut(a)
                 q == [a.out[o] EXCEPT !.mPcm = FALSE]
      <3>1. Unheard(a, c) /\ c \in HalState
        BY <1>2, DevicesUnheard, ClosePcmOutType
      <3>2. a.out[o] \in OutState /\ q \in OutState
        BY <1>2, OutAssign, HalFields
      <3>3. /\ q.mDevices = a.out[o].mDevices /\ q.mStandby = a.out[o].mStandby
            /\ q.alive = a.out[o].alive /\ ~Open(q) /\ ~q.mMixer /\ ~q.mPcm
        BY <1>1, <3>2, OutFields DEF Open
      <3>4. b = SetOut(c, o, q)
        BY <2>2 DEF OutClosePcm
      <3>5. /\ c.out[o].mDevices = a.out[o].mDevices
            /\ (c.out[o].mStandby <=> a.out[o].mStandby)
            /\ (c.out[o].alive <=> a.out[o].alive)
        BY <3>1 DEF Unheard, Quiet, OutQuiet, Awake
      <3> HIDE DEF c, q, b
      <3>6. Unheard(c, b) /\ b.out[o] = q
        BY <3>1, <3>2, <3>3, <3>4, <3>5, SetOutQuiet, SetOutEffect DEF Unheard
      <3> QED
        BY <1>2, <3>1, <3>3, <3>6, UnheardTrans DEF Off
    <2> QED
      BY <2>1, <2>2
  <1>4. OutClose(s, o) = b
    BY DEF OutClose, a
  <1> HIDE DEF b
  <1> QED
    BY <1>1, <1>3, <1>4, UnheardTrans

LEMMA InCloseUnheard ==
  ASSUME NEW s \in HalState, NEW i \in InStreams
  PROVE  Unheard(s, InClose(s, i)) /\ ~InClose(s, i).in[i].mPcm
  <1> DEFINE a == InCloseMixer(s, i)
             b == InClosePcm(a, i)
  <1>1. Unheard(s, a)
    <2> DEFINE c == CloseMixer(s)
               q == [s.in[i] EXCEPT !.mMixer = FALSE]
    <2>1. Unheard(s, c) /\ c \in HalState /\ c.in = s.in
      BY DevicesUnheard, CloseMixerType, SameIn
    <2>2. s.in[i] \in InState /\ q \in InState
      BY InAssign, HalFields
    <2>3. /\ q.mDevices = s.in[i].mDevices /\ ~Open(q)
          /\ q.mNeedEchoReference = s.in[i].mNeedEchoReference
          /\ q.mEchoReference = s.in[i].mEchoReference
      BY <2>2, InRecord, InFields DEF Open
    <2>4. a = IF s.in[i].mMixer THEN SetIn(c, i, q) ELSE s
      BY DEF InCloseMixer
    <2> HIDE DEF c, q, a
    <2>5. Unheard(c, SetIn(c, i, q))
      BY <2>1, <2>2, <2>3, SetInQuiet DEF Unheard
    <2> QED
      BY <2>1, <2>4, <2>5, UnheardTrans, QuietSame DEF Unheard
  <1> HIDE DEF a
  <1>2. a \in HalState
    BY <1>1, UnheardTrans
  <1>3. Unheard(a, b) /\ b \in HalState /\ ~b.in[i].mPcm
    <2> DEFINE q == [a.in[i] EXCEPT !.mPcm = FALSE]
    <2>1. a.in[i] \in InState /\ q \in InState
      BY <1>2, InAssign, HalFields
    <2>2. /\ q.mDevices = a.in[i].mDevices /\ ~q.mPcm
          /\ q.mNeedEchoReference = a.in[i].mNeedEchoReference
          /\ q.mEchoReference = a.in[i].mEchoReference
      BY <2>1, InRecord, InFields
    <2>3. b = SetIn(a, i, q)
      BY DEF InClosePcm
    <2> HIDE DEF b, q
    <2>4. Unheard(a, b) /\ b.in[i] = q
      BY <1>2, <2>1, <2>2, <2>3, SetInQuiet, SetInEffect DEF Unheard, Open
    <2> QED
      BY <1>2, <2>2, <2>4, UnheardTrans
  <1>4. InClose(s, i) = SetIdleMode(b)
    BY DEF InClose, a
  <1> HIDE DEF b
  <1>5. SetIdleMode(b).in = b.in
    <2>1. \A c \in HalState : CloseMixer(c).in = c.in /\ OpenMixer(c, TRUE).in = c.in
      BY SameIn
    <2>2. OpenMixer(b, TRUE) \in HalState
      BY <1>3, OpenMixerType
    <2> QED
      BY <1>3, <2>1, <2>2 DEF SetIdleMode
  <1>6. Unheard(b, SetIdleMode(b))
    BY <1>3, DevicesUnheard
  <1> QED
    BY <1>1, <1>2, <1>3, <1>4, <1>5, <1>6, UnheardTrans

(* From s to a the capture side, or the playback side, is left alone.        *)
PlaybackOnly(s, a) == SameMode(s, a) /\ InQuiet(s, a) /\ Awake(s, a)

CaptureOnly(s, a) == SameMode(s, a) /\ OutQuiet(s, a) /\ Awake(s, a)

LEMMA SideTrans ==
  ASSUME NEW s, NEW a, NEW b
  PROVE  /\ PlaybackOnly(s, a) /\ PlaybackOnly(a, b) => PlaybackOnly(s, b)
         /\ CaptureOnly(s, a) /\ CaptureOnly(a, b) => CaptureOnly(s, b)
         /\ Unheard(s, a) => PlaybackOnly(s, a) /\ CaptureOnly(s, a)
         /\ PlaybackOnly(s, a) \/ CaptureOnly(s, a) =>
              /\ a \in HalState /\ a.mOutput = s.mOutput /\ a.mInputs = s.mInputs
              /\ a.mInCallAudioMode <=> s.mInCallAudioMode
  <1>1. PlaybackOnly(s, a) /\ PlaybackOnly(a, b) => PlaybackOnly(s, b)
    <2>1. InQuiet(s, a) /\ InQuiet(a, b) => InQuiet(s, b)
      BY DEF InQuiet
    <2> QED
      BY <2>1, QuietTrans DEF PlaybackOnly
  <1>2. CaptureOnly(s, a) /\ CaptureOnly(a, b) => CaptureOnly(s, b)
    <2>1. OutQuiet(s, a) /\ OutQuiet(a, b) => OutQuiet(s, b)
      BY DEF OutQuiet
    <2> QED
      BY <2>1, QuietTrans DEF CaptureOnly
  <1>3. Unheard(s, a) => PlaybackOnly(s, a) /\ CaptureOnly(s, a)
    BY DEF Unheard, Quiet, PlaybackOnly, CaptureOnly
  <1>4. PlaybackOnly(s, a) \/ CaptureOnly(s, a) =>
              /\ a \in HalState /\ a.mOutput = s.mOutput /\ a.mInputs = s.mInputs
              /\ a.mInCallAudioMode <=> s.mInCallAudioMode
    BY DEF PlaybackOnly, CaptureOnly, SameMode, Keeps, Still, SameSwitch
  <1> QED
    BY <1>1, <1>2, <1>3, <1>4

LEMMA PathSide ==
  ASSUME NEW s \in HalState
  PROVE  /\ \A p \in {"RCV", "SPK", "HP", "BT", "off"} :
              /\ PlaybackOnly(s, [s EXCEPT !.playbackPath = p])
              /\ [s EXCEPT !.playbackPath = p].playbackPath = p
              /\ [s EXCEPT !.playbackPath = p].out = s.out
         /\ \A p \in {"MAIN", "HP", "BT", "off"} :
              /\ CaptureOnly(s, [s EXCEPT !.memoPath = p])
              /\ [s EXCEPT !.memoPath = p].memoPath = p
              /\ [s EXCEPT !.memoPath = p].in = s.in
              /\ [s EXCEPT !.memoPath = p].mMicMute = s.mMicMute
  <1>1. ASSUME NEW p \in {"RCV", "SPK", "HP", "BT", "off"}
        PROVE  /\ PlaybackOnly(s, [s EXCEPT !.playbackPath = p])
               /\ [s EXCEPT !.playbackPath = p].playbackPath = p
               /\ [s EXCEPT !.playbackPath = p].out = s.out
    <2> DEFINE a == [s EXCEPT !.playbackPath = p]
    <2>1. Keeps(s, a)
      BY FieldKeeps
    <2>2. /\ a.out = s.out /\ a.in = s.in /\ a.mMode = s.mMode /\ a.playbackPath = p
          /\ a.memoPath = s.memoPath /\ a.mMicMute = s.mMicMute
          /\ a.wakeLock = s.wakeLock
      BY DEF HalState
    <2> QED
      BY <2>1, <2>2 DEF PlaybackOnly, SameMode, InQuiet, Awake
  <1>2. ASSUME NEW p \in {"MAIN", "HP", "BT", "off"}
        PROVE  /\ CaptureOnly(s, [s EXCEPT !.memoPath = p])
               /\ [s EXCEPT !.memoPath = p].memoPath = p
               /\ [s EXCEPT !.memoPath = p].in = s.in
               /\ [s EXCEPT !.memoPath = p].mMicMute = s.mMicMute
    <2> DEFINE a == [s EXCEPT !.memoPath = p]
    <2>1. Keeps(s, a)
      BY FieldKeeps
    <2>2. /\ a.out = s.out /\ a.in = s.in /\ a.mMode = s.mMode /\ a.memoPath = p
          /\ a.playbackPath = s.playbackPath /\ a.mMicMute = s.mMicMute
          /\ a.wakeLock = s.wakeLock
      BY DEF HalState
    <2> QED
      BY <2>1, <2>2 DEF CaptureOnly, SameMode, OutQuiet, Awake
  <1> QED
    BY <1>1, <1>2

(* A side that was worked on follows, if the streams of that side do.        *)
LEMMA SideFollows ==
  ASSUME NEW s \in HalState, NEW a
  PROVE  /\ PlaybackOnly(s, a) /\ (CallMode(s) => OutFollows(a)) => Follows(s, a)
         /\ CaptureOnly(s, a)
              /\ (CallMode(s) => \A V : MicFollows(s, V) => MicFollows(a, V))
              => Follows(s, a)
  <1>1. ASSUME PlaybackOnly(s, a), CallMode(s) => OutFollows(a) PROVE Follows(s, a)
    BY <1>1, MicQuiet DEF PlaybackOnly, Follows
  <1>2. ASSUME CaptureOnly(s, a),
               CallMode(s) => \A V : MicFollows(s, V) => MicFollows(a, V)
        PROVE  Follows(s, a)
    <2>1. OutFollows(s) => OutFollows(a)
      <3>1. /\ a.mOutput = s.mOutput /\ s.mOutput \in OutStreams \cup {None}
            /\ a.mInCallAudioMode <=> s.mInCallAudioMode
        BY <1>2, SideTrans, HalFields
      <3> QED
        BY <1>2, <3>1 DEF OutFollows, CaptureOnly, OutQuiet
    <2> QED
      BY <1>2, <2>1 DEF CaptureOnly, Follows
  <1> QED
    BY <1>1, <1>2

LEMMA OutOpenFollows ==
  ASSUME NEW s \in HalState, NEW o \in OutStreams, o = s.mOutput,
         NEW okPcm \in BOOLEAN, NEW okMixer \in BOOLEAN
  PROVE  /\ Follows(s, OutOpen(s, o, okPcm, okMixer))
         /\ Awake(s, OutOpen(s, o, okPcm, okMixer))
  <1> DEFINE p == OpenPcmOut(s, okPcm)
             r == OutOpen(s, o, okPcm, okMixer)
  <1>1. Unheard(s, p) /\ p \in HalState
    BY DevicesUnheard, OpenPcmOutType
  <1>2. CASE ~PcmHandle(s, okPcm)
    <2>1. r = p
      BY <1>2 DEF OutOpen
    <2> HIDE DEF p, r
    <2>2. Follows(s, r) /\ Awake(s, r)
      BY <1>1, <2>1, UnheardTrans DEF Unheard
    <2> QED
      BY <2>2 DEF r
  <1>3. CASE PcmHandle(s, okPcm)
    <2> DEFINE q == [s.out[o] EXCEPT !.mPcm = TRUE]
               c == SetOut(p, o, q)
               m == OpenMixer(c, okMixer)
               u == [c.out[o] EXCEPT !.mMixer = MixerHandle(c, okMixer)]
               b == SetOut(m, o, u)
    <2>1. r = OutRouted(b, o)
      BY <1>3 DEF OutOpen, OutOpenMixer
    <2> HIDE DEF r
    <2>2. /\ s.out[o] \in OutState /\ q \in OutState
          /\ q.mStandby = s.out[o].mStandby /\ q.alive = s.out[o].alive
      BY HalFields, OutAssign, OutFields
    <2> HIDE DEF p, q
    <2>3. ASSUME NEW x \in HalState, NEW w \in OutState,
                 (w.mStandby <=> x.out[o].mStandby) /\ (w.alive <=> x.out[o].alive)
          PROVE  PlaybackOnly(x, SetOut(x, o, w)) /\ SetOut(x, o, w).out[o] = w
      <3> DEFINE y == SetOut(x, o, w)
      <3>1. Keeps(x, y) /\ y.out[o] = w /\ \A z \in OutStreams \ {o} : y.out[z] = x.out[z]
        BY SetOutKeeps, SetOutEffect
      <3>2. /\ y.in = x.in /\ y.mMode = x.mMode /\ y.memoPath = x.memoPath
            /\ y.mMicMute = x.mMicMute /\ y.wakeLock = x.wakeLock
        BY DEF SetOut, HalState
      <3> HIDE DEF y
      <3>3. PlaybackOnly(x, y)
        BY <2>3, <3>1, <3>2 DEF PlaybackOnly, SameMode, InQuiet, Awake
      <3> QED
        BY <3>1, <3>3 DEF y
    <2>4. PlaybackOnly(s, c) /\ c \in HalState
      <3>1. (q.mStandby <=> p.out[o].mStandby) /\ (q.alive <=> p.out[o].alive)
        BY <1>1, <2>2 DEF Unheard, Awake
      <3>2. PlaybackOnly(p, c)
        BY <1>1, <2>2, <2>3, <3>1
      <3> HIDE DEF c
      <3> QED
        BY <1>1, <3>2, SideTrans
    <2> HIDE DEF c
    <2>5. Unheard(c, m) /\ m \in HalState
      BY <2>4, DevicesUnheard, OpenMixerType
    <2>6. u \in OutState /\ u.mStandby = c.out[o].mStandby /\ u.alive = c.out[o].alive
      <3> DEFINE w == c.out[o]
                 h == MixerHandle(c, okMixer)
      <3>1. w \in OutState /\ h \in BOOLEAN
        BY <2>4, HalFields, HandleType
      <3> HIDE DEF w, h
      <3>2. /\ [w EXCEPT !.mMixer = h] \in OutState
            /\ [w EXCEPT !.mMixer = h].mStandby = w.mStandby
            /\ [w EXCEPT !.mMixer = h].alive = w.alive
        BY <3>1 DEF OutState
      <3> QED
        BY <3>2 DEF w, h
    <2> HIDE DEF m, u
    <2>7. PlaybackOnly(s, b) /\ b \in HalState
      <3>1. (u.mStandby <=> m.out[o].mStandby) /\ (u.alive <=> m.out[o].alive)
        BY <2>5, <2>6 DEF Unheard, Awake
      <3>2. PlaybackOnly(m, b)
        BY <2>3, <2>5, <2>6, <3>1
      <3> HIDE DEF b
      <3> QED
        BY <2>4, <2>5, <3>2, SideTrans
    <2> HIDE DEF b
    <2>8. OutputRoute(b.out[o].mDevices) \in {"RCV", "SPK", "HP", "BT", "off"}
      BY <2>7, RouteType, HalFields
    <2>9. PlaybackOnly(b, r) /\ r.out = b.out
      <3>1. CASE b.out[o].mMixer /\ b.mMode # "IN_CALL"
        <4>1. r = [b EXCEPT !.playbackPath = OutputRoute(b.out[o].mDevices)]
          BY <2>1, <3>1 DEF OutRouted
        <4> QED
          BY <2>7, <2>8, <4>1, PathSide
      <3>2. CASE ~(b.out[o].mMixer /\ b.mMode # "IN_CALL")
        <4>1. r = b
          BY <2>1, <3>2 DEF OutRouted
        <4> QED
          BY <2>7, <4>1, SideTrans, QuietSame DEF Unheard
      <3> QED
        BY <3>1, <3>2
    <2>10. PlaybackOnly(s, r)
      BY <2>7, <2>9, SideTrans
    <2>11. ASSUME CallMode(s) PROVE OutFollows(r)
      <3>1. /\ r.mOutput = o /\ (r.mInCallAudioMode <=> s.mInCallAudioMode)
            /\ b.mMode = s.mMode
        BY <2>7, <2>10, SideTrans DEF PlaybackOnly, SameMode
      <3>2. CASE b.out[o].mMixer /\ b.mMode # "IN_CALL"
        <4>1. r.playbackPath = OutputRoute(b.out[o].mDevices)
          BY <2>1, <2>7, <2>8, <3>2, PathSide DEF OutRouted
        <4> QED
          BY <2>9, <3>1, <4>1 DEF OutFollows
      <3>3. CASE ~b.out[o].mMixer
        BY <2>9, <3>1, <3>3 DEF OutFollows, Open
      <3>4. CASE b.mMode = "IN_CALL"
        BY <2>11, <3>1, <3>4 DEF OutFollows, CallMode
      <3> QED
        BY <3>2, <3>3, <3>4
    <2>12. Follows(s, r) /\ Awake(s, r)
      BY <2>10, <2>11, SideFollows DEF PlaybackOnly
    <2> QED
      BY <2>12 DEF r
  <1> QED
    BY <1>2, <1>3

(* doStandby_l of an output: it goes silent, and lets the wake lock go if it *)
(* held it.                                                                  *)
Sleeps(s, a, o) ==
  /\ a.wakeLock <=> (s.wakeLock /\ s.out[o].mStandby)
  /\ \A p \in OutStreams : /\ a.out[p].mStandby <=> s.out[p].mStandby \/ p = o
                           /\ a.out[p].alive <=> s.out[p].alive

LEMMA OutDoStandbyQuiet ==
  ASSUME NEW s \in HalState, NEW o \in OutStreams
  PROVE  LET a == OutDoStandby(s, o)
         IN  Quiet(s, a) /\ Sleeps(s, a, o) /\ Off(a.out[o])
  <1> DEFINE w == s.wakeLock /\ s.out[o].mStandby
             c == [s EXCEPT !.wakeLock = w]
             q == [s.out[o] EXCEPT !.mStandby = TRUE, !.snap = {}]
             b == SetOut(c, o, q)
             a == OutDoStandby(s, o)
  <1>1. w \in BOOLEAN
    OBVIOUS
  <1>2. a = OutClose(b, o)
    BY DEF OutDoStandby
  <1> HIDE DEF a
  <1>3. Quiet(s, c) /\ c \in HalState /\ c.out = s.out /\ c.wakeLock = w
    <2> HIDE DEF w
    <2>1. Quiet(s, c) /\ c \in HalState
      BY <1>1, FieldQuiet, HalAssign
    <2> QED
      BY <2>1 DEF HalState
  <1> HIDE DEF c
  <1>4. /\ s.out[o] \in OutState /\ q \in OutState
        /\ q.mDevices = s.out[o].mDevices /\ q.mStandby
        /\ q.alive = s.out[o].alive /\ q.mPcm = s.out[o].mPcm
        /\ q.mMixer = s.out[o].mMixer
    BY HalFields, OutAssign, OutFields
  <1> HIDE DEF q
  <1>5. Quiet(c, b) /\ b \in HalState
    BY <1>3, <1>4, SetOutQuiet, SetOutType DEF Open
  <1>6. /\ b.wakeLock = c.wakeLock
        /\ b.out[o] = q /\ \A p \in OutStreams \ {o} : b.out[p] = c.out[p]
    <2>1. b.out[o] = q /\ \A p \in OutStreams \ {o} : b.out[p] = c.out[p]
      BY <1>3, <1>4, SetOutEffect
    <2>2. b.wakeLock = c.wakeLock
      BY <1>3 DEF SetOut, HalState
    <2> QED
      BY <2>1, <2>2
  <1> HIDE DEF b
  <1>7. Unheard(b, a) /\ Off(a.out[o])
    BY <1>2, <1>5, OutCloseUnheard
  <1>8. Quiet(s, a)
    BY <1>3, <1>5, <1>7, QuietTrans DEF Unheard
  <1>9. Sleeps(s, a, o)
    BY <1>3, <1>4, <1>6, <1>7 DEF Unheard, Awake, Sleeps
  <1> QED
    BY <1>7, <1>8, <1>9 DEF a

LEMMA InOpenFollows ==
  ASSUME NEW s \in HalState, NEW i \in InStreams,
         NEW okPcm \in BOOLEAN, NEW okMixer \in BOOLEAN
  PROVE  /\ Follows(s, InOpen(s, i, okPcm, okMixer))
         /\ Awake(s, InOpen(s, i, okPcm, okMixer))
  <1> DEFINE r == InOpen(s, i, okPcm, okMixer)
  <1>1. CASE ~(okPcm /\ ~CaptureBusy(s, i))
    <2>1. r = s
      BY <1>1 DEF InOpen
    <2> HIDE DEF r
    <2>2. Follows(s, r) /\ Awake(s, r)
      BY <2>1, QuietSame
    <2> QED
      BY <2>2 DEF r
  <1>2. CASE okPcm /\ ~CaptureBusy(s, i)
    <2> DEFINE h == MixerHandle(s, okMixer)
               w == s.in[i]
               q == [w EXCEPT !.mPcm = TRUE, !.mMixer = h]
               m == OpenMixer(s, okMixer)
               b == SetIn(m, i, q)
    <2>1. r = InRouted(b, i)
      BY <1>2 DEF InOpen
    <2> HIDE DEF r
    <2>2. Unheard(s, m) /\ m \in HalState /\ m.in = s.in
      BY DevicesUnheard, OpenMixerType, SameIn
    <2>3. h \in BOOLEAN /\ w \in InState
      BY HandleType, HalFields
    <2> HIDE DEF m, h, w
    <2>4. q \in InState
      BY <2>3, InAssign
    <2> HIDE DEF q
    <2>5. CaptureOnly(m, b) /\ b \in HalState
      <3>1. Keeps(m, b)
        <4>1. /\ q.mNeedEchoReference = w.mNeedEchoReference
              /\ q.mEchoReference = w.mEchoReference
          BY <2>3 DEF q, InState
        <4>2. m.in[i] = w
          BY <2>2 DEF w
        <4> QED
          BY <2>2, <2>4, <4>1, <4>2, SetInKeeps
      <3>2. /\ b.out = m.out /\ b.mMode = m.mMode
            /\ b.playbackPath = m.playbackPath /\ b.wakeLock = m.wakeLock
        BY <2>2 DEF SetIn, HalState
      <3> QED
        BY <3>1, <3>2 DEF CaptureOnly, SameMode, OutQuiet, Awake, Keeps, Still
    <2>6. \A j \in InStreams \ {i} : b.in[j] = s.in[j]
      BY <2>2, <2>4, SetInEffect
    <2> HIDE DEF b
    <2>7. CaptureOnly(b, r) /\ r.in = b.in /\ r.mMicMute = b.mMicMute
      <3>1. CASE b.in[i].mMixer /\ b.mMode # "IN_CALL"
        <4> DEFINE p == InputRoute(b.mMicMute, b.in[i].mDevices)
        <4>1. p \in {"MAIN", "HP", "BT", "off"}
          BY <2>5, RouteType, HalFields
        <4>2. r = [b EXCEPT !.memoPath = p]
          BY <2>1, <3>1 DEF InRouted
        <4> QED
          BY <2>5, <4>1, <4>2, PathSide
      <3>2. CASE ~(b.in[i].mMixer /\ b.mMode # "IN_CALL")
        <4>1. r = b
          BY <2>1, <3>2 DEF InRouted
        <4> QED
          BY <2>5, <4>1, SideTrans, QuietSame DEF Unheard
      <3> QED
        BY <3>1, <3>2
    <2>8. CaptureOnly(s, r)
      BY <2>2, <2>5, <2>7, SideTrans
    <2>9. ASSUME CallMode(s), NEW V PROVE MicFollows(r, V)
      <3>1. /\ (r.mInCallAudioMode <=> s.mInCallAudioMode) /\ b.mMode = s.mMode
            /\ r.mInputs \subseteq InStreams
        BY <2>2, <2>5, <2>7, <2>8, SideTrans, HalFields
           DEF CaptureOnly, SameMode, Unheard, Quiet
      <3>2. ASSUME ~s.mInCallAudioMode, NEW j \in InStreams, Open(r.in[j])
            PROVE  r.memoPath = InputRoute(r.mMicMute, r.in[j].mDevices)
        <4>1. j = i
          BY <1>2, <2>6, <2>7, <3>2 DEF CaptureBusy, Open
        <4>2. b.in[i].mMixer /\ b.mMode # "IN_CALL"
          BY <2>7, <2>9, <3>1, <3>2, <4>1 DEF Open, CallMode
        <4>3. r = [b EXCEPT !.memoPath = InputRoute(b.mMicMute, b.in[i].mDevices)]
          BY <2>1, <4>2 DEF InRouted
        <4>4. InputRoute(b.mMicMute, b.in[i].mDevices) \in {"MAIN", "HP", "BT", "off"}
          BY <2>5, RouteType, HalFields
        <4> QED
          BY <2>5, <2>7, <4>1, <4>3, <4>4, PathSide
      <3> QED
        BY <3>1, <3>2 DEF MicFollows
    <2>10. Follows(s, r) /\ Awake(s, r)
      BY <2>8, <2>9, SideFollows DEF CaptureOnly
    <2> QED
      BY <2>10 DEF r
  <1> QED
    BY <1>1, <1>2

LEMMA InDoStandbyUnheard ==
  ASSUME NEW s \in HalState, NEW i \in InStreams
  PROVE  LET a == InDoStandby(s, i) IN Unheard(s, a) /\ ~a.in[i].mPcm
  <1> DEFINE w == s.in[i]
             e == IF w.mStandby THEN w.mEchoReference ELSE None
             q == [w EXCEPT !.mStandby = TRUE, !.snap = {}, !.mEchoReference = e]
             b == SetIn(s, i, q)
             a == InDoStandby(s, i)
  <1>1. a = InClose(b, i)
    BY DEF InDoStandby
  <1> HIDE DEF a
  <1>2. w \in InState /\ e \in EchoRefs \cup {None} /\ e \in {w.mEchoReference, None}
    BY HalFields, StreamFields
  <1>3. w = s.in[i]
    OBVIOUS
  <1> HIDE DEF e, w
  <1>4. q \in InState
    BY <1>2, InAssign
  <1>5. /\ q.mDevices = w.mDevices /\ (Open(q) => Open(w))
        /\ q.mNeedEchoReference = w.mNeedEchoReference
        /\ q.mEchoReference = e
    BY <1>2 DEF InState, Open
  <1> HIDE DEF q
  <1>6. Unheard(s, b) /\ b \in HalState
    BY <1>2, <1>3, <1>4, <1>5, SetInQuiet, UnheardTrans DEF Unheard
  <1> HIDE DEF b
  <1>7. Unheard(b, a) /\ ~a.in[i].mPcm
    BY <1>1, <1>6, InCloseUnheard
  <1>8. Unheard(s, a)
    BY <1>6, <1>7, UnheardTrans
  <1> QED
    BY <1>7, <1>8 DEF a

LEMMA EnableFmFollows ==
  ASSUME NEW s \in HalState, NEW okPcm \in BOOLEAN, NEW okMixer \in BOOLEAN
  PROVE  /\ Follows(s, EnableFm(s, okPcm, okMixer))
         /\ Awake(s, EnableFm(s, okPcm, okMixer))
  <1> DEFINE r == EnableFm(s, okPcm, okMixer)
             a == OpenPcmOut(s, okPcm)
             b == OpenMixer(a, okMixer)
             c == [b EXCEPT !.mFmFd = TRUE]
  <1>1. CASE s.mMode = "IN_CALL"
    <2>1. r = [s EXCEPT !.mFmResumeAfterCall = TRUE]
      BY <1>1 DEF EnableFm
    <2> HIDE DEF r
    <2>2. Follows(s, r) /\ Awake(s, r)
      BY <2>1, FieldQuiet, QuietFollows
    <2> QED
      BY <2>2 DEF r
  <1>2. CASE s.mMode # "IN_CALL"
    <2>1. r = FmRouted(c)
      BY <1>2 DEF EnableFm
    <2> HIDE DEF r
    <2>2. Unheard(s, a) /\ a \in HalState
      BY DevicesUnheard, OpenPcmOutType
    <2> HIDE DEF a
    <2>3. Unheard(s, b) /\ b \in HalState
      BY <2>2, DevicesUnheard, OpenMixerType, UnheardTrans
    <2> HIDE DEF b
    <2>4. Unheard(b, c)
      BY <2>3, FieldQuiet DEF Unheard
    <2>5. Unheard(s, c) /\ c \in HalState
      BY <2>3, <2>4, UnheardTrans
    <2> HIDE DEF c
    <2>6. CASE ~c.mMixer
      <3>1. r = c
        BY <2>1, <2>6 DEF FmRouted
      <3>2. Follows(s, r) /\ Awake(s, r)
        BY <2>5, <3>1, UnheardTrans DEF Unheard
      <3> QED
        BY <3>2 DEF r
    <2>7. CASE c.mMixer
      <3> DEFINE p == OutputRoute(c.out[c.mOutput].mDevices)
      <3>1. p \in {"RCV", "SPK", "HP", "BT", "off"}
        BY RouteType
      <3>2. r = [c EXCEPT !.playbackPath = p]
        BY <2>1, <2>7 DEF FmRouted
      <3>3. PlaybackOnly(c, r) /\ r.playbackPath = p /\ r.out = c.out
        <4> HIDE DEF p
        <4> QED BY <2>5, <3>1, <3>2, PathSide
      <3>4. r.mOutput = c.mOutput
        BY <3>3, SideTrans
      <3>5. PlaybackOnly(s, r)
        BY <2>5, <3>3, SideTrans
      <3>6. OutFollows(r)
        BY <3>3, <3>4 DEF OutFollows
      <3>7. Follows(s, r) /\ Awake(s, r)
        BY <3>5, <3>6, SideFollows DEF PlaybackOnly
      <3> QED
        BY <3>7 DEF r
    <2> QED
      BY <2>6, <2>7
  <1> QED
    BY <1>1, <1>2

LEMMA DisableFmUnheard ==
  ASSUME NEW s \in HalState
  PROVE  Unheard(s, DisableFm(s))
  <1> DEFINE c == CloseMixer(s)
             a == IF s.mMixer THEN ClosePcmOut(c) ELSE s
  <1>1. Unheard(s, c) /\ c \in HalState
    BY DevicesUnheard, CloseMixerType
  <1>2. Unheard(s, a) /\ a \in HalState
    <2> HIDE DEF c
    <2>1. Unheard(s, ClosePcmOut(c)) /\ ClosePcmOut(c) \in HalState
      BY <1>1, DevicesUnheard, ClosePcmOutType, UnheardTrans
    <2> QED
      BY <2>1, QuietSame DEF Unheard
  <1>3. DisableFm(s) = [a EXCEPT !.mFmFd = FALSE]
    BY DEF DisableFm
  <1> HIDE DEF a
  <1>4. Unheard(a, [a EXCEPT !.mFmFd = FALSE])
    BY <1>2, FieldQuiet DEF Unheard
  <1> QED
    BY <1>2, <1>3, <1>4, UnheardTrans

(* A stream's memory is given back.                                          *)
LEMMA FreedFollows ==
  ASSUME NEW s \in HalState, NEW x \in Streams
  PROVE  Follows(s, Freed(s, x))
  <1> DEFINE a == Freed(s, x)
  <1>1. Keeps(s, a)
    BY FreedKeeps
  <1>2. ~Open(NoOut) /\ ~Open(NoIn)
    BY DEF Open, NoOut, NoIn
  <1>3. /\ a.mMode = s.mMode /\ a.playbackPath = s.playbackPath
        /\ a.memoPath = s.memoPath /\ a.mMicMute = s.mMicMute
        /\ x \in OutStreams => /\ a.in = s.in
                               /\ \A o \in OutStreams :
                                    a.out[o] = IF o = x THEN NoOut ELSE s.out[o]
        /\ x \notin OutStreams => /\ a.out = s.out
                                  /\ \A i \in InStreams :
                                       a.in[i] = IF i = x THEN NoIn ELSE s.in[i]
    BY DEF Freed, HalState
  <1> HIDE DEF a
  <1>4. /\ a.mOutput = s.mOutput /\ s.mOutput \in OutStreams \cup {None}
        /\ a.mInputs = s.mInputs /\ s.mInputs \subseteq InStreams
        /\ a.mInCallAudioMode <=> s.mInCallAudioMode
    BY <1>1, HalFields DEF Keeps, Still, SameSwitch
  <1>5. SameMode(s, a)
    BY <1>1, <1>3 DEF SameMode
  <1>6. OutFollows(s) => OutFollows(a)
    BY <1>2, <1>3, <1>4 DEF OutFollows
  <1>7. ASSUME NEW V, MicFollows(s, V) PROVE MicFollows(a, V)
    <2>1. ASSUME ~s.mInCallAudioMode, NEW i \in s.mInputs \ V, Open(a.in[i])
          PROVE  a.memoPath = InputRoute(a.mMicMute, a.in[i].mDevices)
      <3>1. a.in[i] = s.in[i]
        BY <1>2, <1>3, <1>4, <2>1
      <3> QED
        BY <1>3, <1>7, <2>1, <3>1 DEF MicFollows
    <2> QED
      BY <1>4, <2>1 DEF MicFollows
  <1>8. Follows(s, a)
    BY <1>5, <1>6, <1>7 DEF Follows
  <1> QED
    BY <1>8 DEF a

-----------------------------------------------------------------------------
(* The wake lock, in a state s of the object and b: a write is leaving       *)
(* standby.  At most one output is out of standby, and none while b.         *)
Lit(s) == \E o \in OutStreams : ~s.out[o].mStandby

Wake(s, b) ==
  /\ \A o, p \in OutStreams : ~s.out[o].mStandby /\ ~s.out[p].mStandby => o = p
  /\ s.wakeLock <=> Lit(s) \/ b
  /\ b => ~Lit(s)

SameLives(s, a) == \A o \in OutStreams : a.out[o].alive <=> s.out[o].alive

Naps(s, a) ==
  SameLives(s, a) /\ \A b \in BOOLEAN : Wake(s, b) => Wake(a, b)

(* From s to a the routes and the wake lock stay right.                      *)
Gentle(s, a) == Follows(s, a) /\ Naps(s, a)

LEMMA GentleTrans ==
  ASSUME NEW s, NEW a, NEW b, Gentle(s, a), Gentle(a, b)
  PROVE  Gentle(s, b)
  <1>1. Naps(s, b)
    BY DEF Gentle, Naps, SameLives
  <1> QED
    BY <1>1, QuietTrans DEF Gentle

LEMMA AwakeNaps ==
  ASSUME NEW s, NEW a, Awake(s, a)
  PROVE  Naps(s, a)
  BY DEF Awake, Naps, SameLives, Wake, Lit

LEMMA SleepsNaps ==
  ASSUME NEW s, NEW a, NEW o \in OutStreams, Sleeps(s, a, o)
  PROVE  Naps(s, a)
  <1>1. SameLives(s, a)
    BY DEF Sleeps, SameLives
  <1>2. ASSUME NEW b \in BOOLEAN, Wake(s, b) PROVE Wake(a, b)
    <2>1. CASE s.out[o].mStandby
      <3>1. Lit(a) <=> Lit(s)
        BY <2>1 DEF Sleeps, Lit
      <3>2. \A p, q \in OutStreams : ~a.out[p].mStandby /\ ~a.out[q].mStandby => p = q
        BY <1>2, <2>1 DEF Sleeps, Wake
      <3>3. a.wakeLock <=> s.wakeLock
        BY <2>1 DEF Sleeps
      <3> QED
        BY <1>2, <3>1, <3>2, <3>3 DEF Wake
    <2>2. CASE ~s.out[o].mStandby
      <3>1. ~Lit(a) /\ ~a.wakeLock
        BY <1>2, <2>2 DEF Sleeps, Lit, Wake
      <3>2. ~b
        BY <1>2, <2>2 DEF Wake, Lit
      <3> QED
        BY <3>1, <3>2 DEF Wake, Lit
    <2> QED
      BY <2>1, <2>2
  <1> QED
    BY <1>1, <1>2 DEF Naps

LEMMA GentleMeans ==
  ASSUME NEW s \in HalState, NEW a
  PROVE  /\ Follows(s, a) /\ Awake(s, a) => Gentle(s, a)
         /\ Unheard(s, a) => Gentle(s, a)
         /\ Gentle(s, s)
         /\ Gentle(s, a) => /\ a \in HalState /\ a.mMode = s.mMode
                            /\ a.mOutput = s.mOutput /\ a.mInputs = s.mInputs
                            /\ a.mInCallAudioMode <=> s.mInCallAudioMode
  <1>1. Follows(s, a) /\ Awake(s, a) => Gentle(s, a)
    BY AwakeNaps DEF Gentle
  <1>2. Unheard(s, a) => Gentle(s, a)
    BY <1>1, UnheardTrans DEF Unheard
  <1>3. Gentle(s, s)
    BY QuietSame, AwakeNaps DEF Gentle
  <1>4. Gentle(s, a) => /\ a \in HalState /\ a.mMode = s.mMode
                        /\ a.mOutput = s.mOutput /\ a.mInputs = s.mInputs
                        /\ a.mInCallAudioMode <=> s.mInCallAudioMode
    BY DEF Gentle, Follows, SameMode, Keeps, Still, SameSwitch
  <1> QED
    BY <1>1, <1>2, <1>3, <1>4

LEMMA StandbyGentle ==
  ASSUME NEW s \in HalState, NEW o \in OutStreams
  PROVE  Gentle(s, OutDoStandby(s, o))
  <1> DEFINE a == OutDoStandby(s, o)
  <1>1. Quiet(s, a) /\ Sleeps(s, a, o)
    BY OutDoStandbyQuiet
  <1> HIDE DEF a
  <1>2. Gentle(s, a)
    BY <1>1, QuietFollows, SleepsNaps DEF Gentle
  <1> QED
    BY <1>2 DEF a

(* A field of a stream is assigned.                                          *)
LEMMA StreamQuiet ==
  ASSUME NEW s \in HalState, NEW b \in BOOLEAN, NEW T \in SUBSET Threads
  PROVE  /\ \A o \in OutStreams :
              /\ Unheard(s, [s EXCEPT !.out[o].snap = T])
              /\ LET a == [s EXCEPT !.out[o].mStandby = b]
                 IN  /\ Quiet(s, a) /\ SameLives(s, a) /\ a.wakeLock = s.wakeLock
                     /\ \A p \in OutStreams :
                          a.out[p].mStandby = IF p = o THEN b ELSE s.out[p].mStandby
              /\ \A d \in AllOutDevices :
                   LET a == [s EXCEPT !.out[o].mDevices = d]
                   IN  PlaybackOnly(s, a)
         /\ \A i \in InStreams :
              /\ Unheard(s, [s EXCEPT !.in[i].snap = T])
              /\ Unheard(s, [s EXCEPT !.in[i].mStandby = b])
              /\ \A d \in AllInDevices :
                   LET a == [s EXCEPT !.in[i].mDevices = d]
                   IN  /\ CaptureOnly(s, a) /\ a.memoPath = s.memoPath
                       /\ a.mMicMute = s.mMicMute
                       /\ \A j \in InStreams \ {i} : a.in[j] = s.in[j]
  <1>1. ASSUME NEW o \in OutStreams PROVE Unheard(s, [s EXCEPT !.out[o].snap = T])
    <2> DEFINE a == [s EXCEPT !.out[o].snap = T]
    <2>1. Keeps(s, a)
      BY <1>1, StreamKeeps
    <2>2. /\ a.in = s.in /\ a.mMode = s.mMode /\ a.playbackPath = s.playbackPath
          /\ a.memoPath = s.memoPath /\ a.mMicMute = s.mMicMute
          /\ a.wakeLock = s.wakeLock
      BY DEF HalState
    <2>3. \A p \in OutStreams :
            /\ a.out[p].mDevices = s.out[p].mDevices /\ a.out[p].mPcm = s.out[p].mPcm
            /\ a.out[p].mMixer = s.out[p].mMixer
            /\ a.out[p].mStandby = s.out[p].mStandby /\ a.out[p].alive = s.out[p].alive
      BY DEF HalState, OutState
    <2> HIDE DEF a
    <2>4. Unheard(s, a)
      BY <2>1, <2>2, <2>3 DEF Unheard, Quiet, SameMode, OutQuiet, InQuiet, Awake, Open
    <2> QED
      BY <2>4 DEF a
  <1>2. ASSUME NEW o \in OutStreams
        PROVE  LET a == [s EXCEPT !.out[o].mStandby = b]
               IN  /\ Quiet(s, a) /\ SameLives(s, a) /\ a.wakeLock = s.wakeLock
                   /\ \A p \in OutStreams :
                        a.out[p].mStandby = IF p = o THEN b ELSE s.out[p].mStandby
    <2> DEFINE a == [s EXCEPT !.out[o].mStandby = b]
    <2>1. Keeps(s, a)
      BY <1>2, StreamKeeps
    <2>2. /\ a.in = s.in /\ a.mMode = s.mMode /\ a.playbackPath = s.playbackPath
          /\ a.memoPath = s.memoPath /\ a.mMicMute = s.mMicMute
          /\ a.wakeLock = s.wakeLock
      BY DEF HalState
    <2>3. \A p \in OutStreams :
            /\ a.out[p].mDevices = s.out[p].mDevices /\ a.out[p].mPcm = s.out[p].mPcm
            /\ a.out[p].mMixer = s.out[p].mMixer
            /\ a.out[p].mStandby = IF p = o THEN b ELSE s.out[p].mStandby
            /\ a.out[p].alive = s.out[p].alive
      BY DEF HalState, OutState
    <2> HIDE DEF a
    <2>4. Quiet(s, a) /\ SameLives(s, a)
      BY <2>1, <2>2, <2>3 DEF Quiet, SameMode, OutQuiet, InQuiet, SameLives, Open
    <2> QED
      BY <2>2, <2>3, <2>4 DEF a
  <1>3. ASSUME NEW o \in OutStreams, NEW d \in AllOutDevices
        PROVE  PlaybackOnly(s, [s EXCEPT !.out[o].mDevices = d])
    <2> DEFINE a == [s EXCEPT !.out[o].mDevices = d]
    <2>1. Keeps(s, a)
      BY <1>3, StreamKeeps
    <2>2. /\ a.in = s.in /\ a.mMode = s.mMode
          /\ a.memoPath = s.memoPath /\ a.mMicMute = s.mMicMute
          /\ a.wakeLock = s.wakeLock
      BY DEF HalState
    <2>3. \A p \in OutStreams :
            /\ a.out[p].mStandby = s.out[p].mStandby /\ a.out[p].alive = s.out[p].alive
      BY DEF HalState, OutState
    <2> HIDE DEF a
    <2>4. PlaybackOnly(s, a)
      BY <2>1, <2>2, <2>3 DEF PlaybackOnly, SameMode, InQuiet, Awake
    <2> QED
      BY <2>4 DEF a
  <1>4. ASSUME NEW i \in InStreams,
               NEW a \in {[s EXCEPT !.in[i].snap = T], [s EXCEPT !.in[i].mStandby = b]}
        PROVE  Unheard(s, a)
    <2>1. Keeps(s, a)
      <3>1. /\ Keeps(s, [s EXCEPT !.in[i].snap = T])
            /\ Keeps(s, [s EXCEPT !.in[i].mStandby = b])
        BY StreamKeeps
      <3> QED
        BY <1>4, <3>1
    <2>2. /\ a.out = s.out /\ a.mMode = s.mMode /\ a.playbackPath = s.playbackPath
          /\ a.memoPath = s.memoPath /\ a.mMicMute = s.mMicMute
          /\ a.wakeLock = s.wakeLock
      BY <1>4 DEF HalState
    <2>3. \A j \in InStreams :
            /\ a.in[j].mDevices = s.in[j].mDevices /\ a.in[j].mPcm = s.in[j].mPcm
            /\ a.in[j].mMixer = s.in[j].mMixer
      BY <1>4 DEF HalState, InState
    <2> QED
      BY <2>1, <2>2, <2>3 DEF Unheard, Quiet, SameMode, OutQuiet, InQuiet, Awake, Open
  <1>5. ASSUME NEW i \in InStreams, NEW d \in AllInDevices
        PROVE  LET a == [s EXCEPT !.in[i].mDevices = d]
               IN  /\ CaptureOnly(s, a) /\ a.memoPath = s.memoPath
                   /\ a.mMicMute = s.mMicMute
                   /\ \A j \in InStreams \ {i} : a.in[j] = s.in[j]
    <2> DEFINE a == [s EXCEPT !.in[i].mDevices = d]
    <2>1. Keeps(s, a)
      BY <1>5, StreamKeeps
    <2>2. /\ a.out = s.out /\ a.mMode = s.mMode /\ a.playbackPath = s.playbackPath
          /\ a.memoPath = s.memoPath /\ a.mMicMute = s.mMicMute
          /\ a.wakeLock = s.wakeLock
          /\ \A j \in InStreams \ {i} : a.in[j] = s.in[j]
      BY DEF HalState
    <2> HIDE DEF a
    <2>3. CaptureOnly(s, a)
      BY <2>1, <2>2 DEF CaptureOnly, SameMode, OutQuiet, Awake
    <2> QED
      BY <2>2, <2>3 DEF a
  <1> QED
    BY <1>1, <1>2, <1>3, <1>4, <1>5

-----------------------------------------------------------------------------
(* A step of thread t from a state s of the object: it does not begin to     *)
(* wait in setMode, and the routes and the wake lock stay right.             *)
Goes(t) ==
  \A u \in Threads : IF u = t THEN th'[u].pc \notin {"setMode.out", "setMode.in"}
                     ELSE th'[u] = th[u]

Moves(t, s) == Gentle(s, hal') /\ Goes(t) /\ th'[t].pc # "write.in"

(* The same of a write that leaves standby, with the wake lock held.         *)
Poised(s) == ~Lit(s) /\ s.wakeLock

Plays(t, s) ==
  /\ Follows(s, hal') /\ SameLives(s, hal') /\ Goes(t)
  /\ Poised(s) => \/ th'[t].pc \in {"stuck", "echo.out"}
                  \/ Wake(hal', th'[t].pc = "write.in")

LEMMA GoGoes ==
  ASSUME TypeOK, NEW t \in Threads, NEW q, Go(t, q)
  PROVE  /\ th'[t] = q
         /\ q.pc \notin {"setMode.out", "setMode.in"} => Goes(t)
  BY DEF Go, Goes, TypeOK

LEMMA MovesOn ==
  ASSUME NEW t, NEW s, NEW a
  PROVE  /\ Gentle(s, a) /\ Moves(t, a) => Moves(t, s)
         /\ Follows(s, a) /\ Awake(s, a) /\ Plays(t, a) => Plays(t, s)
  <1>1. Gentle(s, a) /\ Moves(t, a) => Moves(t, s)
    BY GentleTrans DEF Moves
  <1>2. ASSUME Follows(s, a), Awake(s, a), Plays(t, a) PROVE Plays(t, s)
    <2>1. Follows(s, hal') /\ SameLives(s, hal')
      BY <1>2, QuietTrans DEF Plays, SameLives, Awake
    <2>2. Poised(s) => Poised(a)
      BY <1>2 DEF Poised, Lit, Awake
    <2> QED
      BY <1>2, <2>1, <2>2 DEF Plays
  <1> QED
    BY <1>1, <1>2

LEMMA LeaveMoves ==
  ASSUME TypeOK, NEW t \in Threads, NEW o, NEW i, NEW s \in HalState, Leave(t, o, i, s)
  PROVE  Moves(t, s)
  <1>1. PICK q : Go(t, q) /\ q.pc \in {"idle", "outStandby", "inStandby"}
    <2> DEFINE q1 == [Idle EXCEPT !.pc = "outStandby", !.victim = o, !.ret = "free",
                                  !.spIn = i]
               q2 == [Idle EXCEPT !.pc = "inStandby", !.victim = i, !.ret = "free"]
    <2>1. q1.pc = "outStandby" /\ q2.pc = "inStandby" /\ Idle.pc = "idle"
      BY DEF Idle
    <2>2. Go(t, q1) \/ Go(t, q2) \/ Go(t, Idle)
      BY DEF Leave
    <2> HIDE DEF q1, q2
    <2> QED
      BY <2>1, <2>2
  <1>2. hal' = s
    BY DEF Leave
  <1> QED
    BY <1>1, <1>2, GoGoes, GentleMeans DEF Moves

LEMMA WriteOpenedPlays ==
  ASSUME TypeOK, NEW s \in HalState, NEW t \in Threads, NEW o \in OutStreams, NEW i,
         WriteOpened(t, o, i, s)
  PROVE  Plays(t, s)
  <1> DEFINE a == [s EXCEPT !.out[o].mStandby = FALSE]
             b == [s EXCEPT !.wakeLock = FALSE]
             q0 == [th[t] EXCEPT !.pc = "stuck"]
             q1 == [Idle EXCEPT !.pc = "write.io", !.obj = o]
             q2 == [Idle EXCEPT !.pc = "outStandby", !.obj = o, !.victim = o]
  <1>1. q0.pc = "stuck" /\ q1.pc = "write.io" /\ q2.pc = "outStandby"
    BY DEF Idle, TypeOK, ThreadState
  <1>2. \/ hal' = s /\ Go(t, q0)
        \/ hal' = a /\ Go(t, q1)
        \/ hal' = b /\ Go(t, q2)
    BY DEF WriteOpened, Stuck
  <1> HIDE DEF q0, q1, q2
  <1>3. CASE hal' = s /\ Go(t, q0)
    BY <1>1, <1>3, GoGoes, QuietSame DEF Plays, SameLives
  <1>4. CASE hal' = a /\ Go(t, q1)
    <2>1. /\ Quiet(s, a) /\ SameLives(s, a) /\ a.wakeLock = s.wakeLock
          /\ \A p \in OutStreams :
               a.out[p].mStandby = IF p = o THEN FALSE ELSE s.out[p].mStandby
      BY StreamQuiet
    <2> HIDE DEF a
    <2>2. Poised(s) => Wake(a, FALSE)
      BY <2>1 DEF Poised, Wake, Lit
    <2>3. Goes(t) /\ th'[t].pc = "write.io"
      BY <1>1, <1>4, GoGoes
    <2> QED
      BY <1>4, <2>1, <2>2, <2>3, QuietFollows DEF Plays
  <1>5. CASE hal' = b /\ Go(t, q2)
    <2>1. Quiet(s, b) /\ b.out = s.out /\ ~b.wakeLock
      <3>1. b.out = s.out /\ ~b.wakeLock
        BY DEF HalState
      <3> QED
        BY <3>1, FieldQuiet
    <2> HIDE DEF b
    <2>2. Poised(s) => Wake(b, FALSE)
      BY <2>1 DEF Poised, Wake, Lit
    <2>3. Goes(t) /\ th'[t].pc = "outStandby"
      BY <1>1, <1>5, GoGoes
    <2> QED
      BY <1>5, <2>1, <2>2, <2>3, QuietFollows DEF Plays, SameLives
  <1> QED
    BY <1>2, <1>3, <1>4, <1>5

LEMMA InStandbyInMoves ==
  ASSUME TypeOK, NEW s \in HalState, NEW t \in Threads, NEW K, NEW q \in ThreadState,
         HasPointers(q), q.victim \in InStreams, InStandbyIn(t, K, q, s)
  PROVE  /\ q.ret \in {"return", "free"} => Moves(t, s)
         /\ q.ret = "write" => Plays(t, s)
  <1> DEFINE a == InDoStandby(s, q.victim)
             c == [s EXCEPT !.in[q.victim].snap = {}]
             r == [q EXCEPT !.pc = "echo.out", !.echoOut = s.mOutput]
  <1>1. (hal' = c /\ Go(t, r)) \/ Resume(t, q, a)
    BY DEF InStandbyIn
  <1>2. Unheard(s, c)
    BY StreamQuiet
  <1>3. Unheard(s, a) /\ a \in HalState
    BY InDoStandbyUnheard, UnheardTrans
  <1>4. r.pc = "echo.out"
    BY DEF ThreadState
  <1> HIDE DEF a, c, r
  <1>5. CASE hal' = c /\ Go(t, r)
    <2>1. Gentle(s, c) /\ Follows(s, c) /\ SameLives(s, c)
      BY <1>2, GentleMeans, UnheardTrans DEF Gentle, Naps
    <2> QED
      BY <1>4, <1>5, <2>1, GoGoes DEF Moves, Plays
  <1>6. CASE Resume(t, q, a)
    <2>1. ASSUME q.ret = "return" PROVE Moves(t, a)
      BY <1>3, <1>6, <2>1, LeaveMoves DEF Resume
    <2>2. ASSUME q.ret = "free" PROVE Moves(t, a)
      <3> DEFINE f == Freed(a, q.victim)
      <3>1. f \in HalState /\ Follows(a, f)
        BY <1>3, FreedType, FreedFollows, Names
      <3>2. f.out = a.out /\ f.wakeLock = a.wakeLock
        <4>1. q.victim \notin OutStreams
          BY HalAssumption
        <4> QED
          BY <1>3, <4>1 DEF Freed, HalState
      <3>3. Leave(t, q.spOut, q.spIn, f)
        BY <1>6, <2>2 DEF Resume
      <3> HIDE DEF f
      <3>4. Gentle(a, f)
        BY <1>3, <3>1, <3>2, GentleMeans DEF Awake
      <3> QED
        BY <3>1, <3>3, <3>4, LeaveMoves, MovesOn
    <2>3. ASSUME q.ret = "write" PROVE Plays(t, a)
      <3>1. q.obj \in OutStreams /\ WriteOpened(t, q.obj, q.spIn, a)
        BY <1>6, <2>3 DEF HasPointers, Resume
      <3> QED
        BY <1>3, <3>1, WriteOpenedPlays
    <2>4. Gentle(s, a) /\ Follows(s, a) /\ Awake(s, a)
      BY <1>3, GentleMeans, UnheardTrans DEF Unheard
    <2> QED
      BY <2>1, <2>2, <2>3, <2>4, MovesOn
  <1> QED
    BY <1>1, <1>5, <1>6

LEMMA WriteOpenPlays ==
  ASSUME TypeOK, NEW s \in HalState, NEW t \in Threads, NEW o \in OutStreams,
         o = s.mOutput, NEW i \in InStreams \cup {None}, WriteOpen(t, o, i, s)
  PROVE  Plays(t, s)
  <1>0. \A f : Outcomes(f) \subseteq BOOLEAN
    BY DEF Outcomes
  <1>1. PICK okPcm \in Outcomes("pcmOut"), okMixer \in Outcomes("mixer") :
          WriteOpen(t, o, i, s)!(okPcm, okMixer)
    BY DEF WriteOpen
  <1>2. CASE i = None
    <2> DEFINE a == OutOpen(s, o, okPcm, okMixer)
    <2>1. WriteOpened(t, o, None, a)
      BY <1>1, <1>2
    <2>2. Follows(s, a) /\ Awake(s, a)
      BY <1>0, OutOpenFollows
    <2> HIDE DEF a
    <2>3. Plays(t, a)
      BY <2>1, <2>2, WriteOpenedPlays, GentleMeans
    <2> QED
      BY <2>2, <2>3, MovesOn
  <1>3. CASE i # None
    <2>1. PICK okIn \in Outcomes("pcmIn"), okInMixer \in Outcomes("mixer") :
            LET a == InOpen(OutOpen(InClose(s, i), o, okPcm, okMixer),
                            i, okIn, okInMixer)
            IN  IF a.in[i].mPcm THEN WriteOpened(t, o, i, a)
                ELSE InStandbyIn(t, {o, i},
                       [Idle EXCEPT !.obj = o, !.spIn = i, !.victim = i,
                                    !.ret = "write"], a)
      BY <1>1, <1>3
    <2> DEFINE c == InClose(s, i)
               b == OutOpen(c, o, okPcm, okMixer)
               a == InOpen(b, i, okIn, okInMixer)
               q == [Idle EXCEPT !.obj = o, !.spIn = i, !.victim = i,
                                 !.ret = "write"]
    <2>2. i \in InStreams
      BY <1>3
    <2>3. Follows(s, c) /\ Awake(s, c) /\ c \in HalState /\ c.mOutput = o
      BY <2>2, InCloseUnheard, UnheardTrans DEF Unheard
    <2>4. q \in ThreadState
      BY IdleType, ThreadAssign, Names
    <2>5. HasPointers(q) /\ q.victim \in InStreams /\ q.ret = "write"
      BY <2>2, IdleType DEF HasPointers, Idle
    <2>6. WriteOpened(t, o, i, a) \/ InStandbyIn(t, {o, i}, q, a)
      BY <2>1
    <2> HIDE DEF c
    <2>7. Follows(c, b) /\ Awake(c, b) /\ b \in HalState
      <3>1. Follows(c, b) /\ Awake(c, b)
        BY <1>0, <2>3, OutOpenFollows
      <3> HIDE DEF b
      <3> QED
        BY <2>3, <3>1, GentleMeans
    <2> HIDE DEF b
    <2>8. Follows(b, a) /\ Awake(b, a) /\ a \in HalState
      <3>1. Follows(b, a) /\ Awake(b, a)
        BY <1>0, <2>2, <2>7, InOpenFollows
      <3> HIDE DEF a
      <3> QED
        BY <2>7, <3>1, GentleMeans
    <2> HIDE DEF a, q
    <2>9. Follows(s, a) /\ Awake(s, a)
      BY <2>3, <2>7, <2>8, QuietTrans
    <2>10. Plays(t, a)
      BY <2>4, <2>5, <2>6, <2>8, WriteOpenedPlays, InStandbyInMoves
    <2> QED
      BY <2>9, <2>10, MovesOn
  <1> QED
    BY <1>2, <1>3

LEMMA WriteScanPlays ==
  ASSUME TypeOK, NEW s \in HalState, NEW t \in Threads, NEW o \in OutStreams,
         o = s.mOutput, WriteScan(t, o, s)
  PROVE  Plays(t, s)
  <1>1. CASE ActiveInputs(s) = {}
    BY <1>1, WriteOpenPlays DEF WriteScan
  <1>2. CASE ActiveInputs(s) # {}
    <2>1. PICK i \in ActiveInputs(s) :
            /\ hal' = [s EXCEPT !.in[i].snap = @ \cup {t}]
            /\ Go(t, [Idle EXCEPT !.pc = "write.in", !.obj = o, !.spIn = i])
      BY <1>2 DEF WriteScan
    <2>2. i \in InStreams
      BY ActiveOnes
    <2>3. Unheard(s, hal')
      <3>1. s.in[i].snap \cup {t} \in SUBSET Threads
        BY <2>2, StreamFields
      <3> QED
        BY <2>1, <2>2, <3>1, StreamQuiet
    <2>4. Goes(t) /\ th'[t].pc = "write.in"
      <3> DEFINE q == [Idle EXCEPT !.pc = "write.in", !.obj = o, !.spIn = i]
      <3>1. Go(t, q)
        BY <2>1
      <3>2. q.pc = "write.in"
        BY DEF Idle
      <3> HIDE DEF q
      <3> QED
        BY <3>1, <3>2, GoGoes
    <2>5. Poised(s) => Wake(hal', TRUE)
      BY <2>3 DEF Unheard, Awake, Poised, Wake, Lit
    <2>6. Follows(s, hal') /\ SameLives(s, hal')
      BY <2>3, UnheardTrans DEF Unheard, Awake, SameLives
    <2> QED
      BY <2>4, <2>5, <2>6 DEF Plays
  <1> QED
    BY <1>1, <1>2

LEMMA ReadOpenMoves ==
  ASSUME TypeOK, NEW s \in HalState, NoEchoRefs(s), NEW t \in Threads,
         NEW i \in InStreams, NEW o \in {None, s.mOutput}, ReadOpen(t, i, o, s)
  PROVE  Moves(t, s)
  <1>0. \A f : Outcomes(f) \subseteq BOOLEAN
    BY DEF Outcomes
  <1>1. PICK okPcm \in Outcomes("pcmOut"), okMixer \in Outcomes("mixer"),
             okIn \in Outcomes("pcmIn"), okInMixer \in Outcomes("mixer"),
             okEcho \in Outcomes("echo") :
          ReadOpen(t, i, o, s)!(okPcm, okMixer, okIn, okInMixer, okEcho)
    BY DEF ReadOpen
  <1> DEFINE closed == OutClose(s, o)
             reopened == OutOpen(closed, o, okPcm, okMixer)
             a == IF o = None \/ s.out[o].mStandby THEN s
                  ELSE IF reopened.out[o].mPcm THEN reopened
                  ELSE OutDoStandby(reopened, o)
             c == InOpen(a, i, okIn, okInMixer)
             d == [c EXCEPT !.in[i].mStandby = FALSE]
             q1 == [Idle EXCEPT !.pc = "read.io", !.obj = i]
             q2 == [Idle EXCEPT !.pc = "inStandby", !.obj = i, !.victim = i]
  <1>2. s.in[i].mNeedEchoReference = FALSE
    BY DEF NoEchoRefs
  <1>3. \/ hal' = d /\ Go(t, q1)
        \/ hal' = c /\ Go(t, q2)
    BY <1>1, <1>2
  <1>4. q1.pc = "read.io" /\ q2.pc = "inStandby"
    BY DEF Idle
  <1> HIDE DEF q1, q2
  <1>5. Gentle(s, a) /\ a \in HalState
    <2>1. CASE o = None \/ s.out[o].mStandby
      BY <2>1, GentleMeans
    <2>2. CASE ~(o = None \/ s.out[o].mStandby)
      <3>1. o \in OutStreams /\ o = s.mOutput
        BY <2>2, HalFields
      <3>2. Gentle(s, closed) /\ closed \in HalState /\ closed.mOutput = o
        <4>1. Unheard(s, closed)
          BY <3>1, OutCloseUnheard
        <4> HIDE DEF closed
        <4> QED
          BY <3>1, <4>1, GentleMeans
      <3> HIDE DEF closed
      <3>3. Gentle(s, reopened) /\ reopened \in HalState
        <4>1. Follows(closed, reopened) /\ Awake(closed, reopened)
          BY <1>0, <3>1, <3>2, OutOpenFollows
        <4> HIDE DEF reopened
        <4>2. Gentle(s, reopened)
          BY <3>2, <4>1, GentleMeans, GentleTrans
        <4> QED
          BY <4>2, GentleMeans
      <3>4. a \in {reopened, OutDoStandby(reopened, o)}
        BY <2>2
      <3> HIDE DEF reopened, a
      <3>5. Gentle(s, OutDoStandby(reopened, o))
        BY <3>1, <3>3, StandbyGentle, GentleTrans
      <3>6. Gentle(s, a)
        BY <3>3, <3>4, <3>5
      <3> QED
        BY <3>6, GentleMeans
    <2> QED
      BY <2>1, <2>2
  <1> HIDE DEF a
  <1>6. Gentle(s, c) /\ c \in HalState
    <2>1. Follows(a, c) /\ Awake(a, c)
      BY <1>0, <1>5, InOpenFollows
    <2> HIDE DEF c
    <2>2. Gentle(s, c)
      BY <1>5, <2>1, GentleMeans, GentleTrans
    <2> QED
      BY <2>2, GentleMeans
  <1> HIDE DEF c
  <1>7. Gentle(s, d)
    <2>1. Unheard(c, d)
      BY <1>6, StreamQuiet
    <2> HIDE DEF d
    <2> QED
      BY <1>6, <2>1, GentleMeans, GentleTrans
  <1> HIDE DEF d
  <1> QED
    BY <1>3, <1>4, <1>6, <1>7, GoGoes DEF Moves

LEMMA ReadScanMoves ==
  ASSUME TypeOK, NEW s \in HalState, NoEchoRefs(s), NEW t \in Threads,
         NEW i \in InStreams, ReadScan(t, i, s)
  PROVE  Moves(t, s)
  <1>1. CASE s.mOutput = None
    BY <1>1, ReadOpenMoves DEF ReadScan
  <1>2. CASE s.mOutput # None
    <2> DEFINE q == [Idle EXCEPT !.pc = "read.out", !.obj = i, !.spOut = s.mOutput]
    <2>1. hal' = s /\ Go(t, q)
      BY <1>2 DEF ReadScan
    <2>2. q.pc = "read.out"
      BY DEF Idle
    <2> HIDE DEF q
    <2> QED
      BY <2>1, <2>2, GoGoes, GentleMeans DEF Moves
  <1> QED
    BY <1>1, <1>2

-----------------------------------------------------------------------------
(* setMode.  From s to a the mode and the call route may change; P says that *)
(* the output, if there is one, has been scanned.                            *)
SameMembers(s, a) == a.mOutput = s.mOutput /\ a.mInputs = s.mInputs

Turns(s, a, P) ==
  /\ SameMembers(s, a) /\ Naps(s, a)
  /\ CallMode(s) => /\ CallMode(a)
                    /\ \A V : MicFollows(s, V) => MicFollows(a, V)
                    /\ P /\ OutFollows(s) => OutFollows(a)

TurnsBy(t, s, P) == Turns(s, hal', P) /\ Goes(t) /\ th'[t].pc # "write.in"

(* The routes are right whatever they were.                                  *)
Right(s, P) ==
  /\ CallMode(s) /\ \A V : MicFollows(s, V)
  /\ P => OutFollows(s)

LandsBy(t, s, P) ==
  /\ SameMembers(s, hal') /\ Naps(s, hal') /\ Right(hal', P)
  /\ Goes(t) /\ th'[t].pc # "write.in"

LEMMA GentleTurns ==
  ASSUME NEW s \in HalState, NEW a, Gentle(s, a), NEW P \in BOOLEAN
  PROVE  /\ Turns(s, a, P) /\ SameMembers(s, a) /\ Naps(s, a)
         /\ CallMode(s) => CallMode(a)
         /\ Right(s, P) => Right(a, P)
  <1>1. SameMembers(s, a) /\ Naps(s, a) /\ (CallMode(s) => CallMode(a))
    BY GentleMeans DEF SameMembers, CallMode, Gentle
  <1>2. CallMode(s) => /\ \A V : MicFollows(s, V) => MicFollows(a, V)
                       /\ OutFollows(s) => OutFollows(a)
    BY DEF Gentle, Follows
  <1> QED
    BY <1>1, <1>2 DEF Turns, Right

LEMMA NapsTrans ==
  ASSUME NEW s, NEW a, NEW b, Naps(s, a), Naps(a, b)
  PROVE  Naps(s, b)
  BY DEF Naps, SameLives

LEMMA SetModeReturnMoves ==
  ASSUME TypeOK, NEW t \in Threads, NEW o, NEW i, NEW s \in HalState,
         SetModeReturn(t, o, i, s)
  PROVE  Moves(t, s)
  <1>1. CASE ~s.mFmResumeAfterCall
    BY <1>1, LeaveMoves DEF SetModeReturn
  <1>2. CASE s.mFmResumeAfterCall
    <2> DEFINE c == [s EXCEPT !.mFmResumeAfterCall = FALSE]
    <2>1. PICK okPcm \in BOOLEAN, okMixer \in BOOLEAN :
            Leave(t, o, i, EnableFm(c, okPcm, okMixer))
      BY <1>2 DEF SetModeReturn, Outcomes
    <2> DEFINE a == EnableFm(c, okPcm, okMixer)
    <2>2. Unheard(s, c)
      BY FieldQuiet DEF Unheard
    <2> HIDE DEF c
    <2>3. Gentle(s, c) /\ c \in HalState
      BY <2>2, GentleMeans, UnheardTrans
    <2>4. Follows(c, a) /\ Awake(c, a)
      BY <2>3, EnableFmFollows
    <2> HIDE DEF a
    <2>5. Gentle(s, a) /\ a \in HalState
      <3>1. Gentle(c, a)
        BY <2>3, <2>4, GentleMeans
      <3> QED
        BY <2>3, <3>1, GentleMeans, GentleTrans
    <2>6. Moves(t, a)
      BY <2>1, <2>5, LeaveMoves DEF a
    <2> QED
      BY <2>5, <2>6, MovesOn
  <1> QED
    BY <1>1, <1>2

LEMMA MovesLand ==
  ASSUME NEW t \in Threads, NEW s \in HalState, NEW a \in HalState,
         SameMembers(s, a), Naps(s, a), Moves(t, a), NEW P \in BOOLEAN
  PROVE  /\ Right(a, P) => LandsBy(t, s, P)
         /\ Turns(s, a, P) => TurnsBy(t, s, P)
  <1>1. /\ Gentle(a, hal') /\ Naps(a, hal') /\ SameMembers(a, hal')
        /\ Right(a, P) => Right(hal', P)
        /\ Turns(a, hal', P)
    BY GentleTurns DEF Moves
  <1>2. Naps(s, hal') /\ SameMembers(s, hal')
    BY <1>1, NapsTrans DEF SameMembers
  <1>3. Right(a, P) => LandsBy(t, s, P)
    BY <1>1, <1>2 DEF LandsBy, Moves
  <1>4. Turns(s, a, P) => Turns(s, hal', P)
    BY <1>1, <1>2 DEF Turns
  <1> QED
    BY <1>3, <1>4 DEF TurnsBy, Moves

LEMMA CallRouteSet ==
  ASSUME NEW s \in HalState, NEW b \in BOOLEAN
  PROVE  LET a == [s EXCEPT !.mInCallAudioMode = b]
         IN  /\ a \in HalState /\ a.mInCallAudioMode = b
             /\ a.out = s.out /\ a.in = s.in /\ a.mMode = s.mMode
             /\ a.wakeLock = s.wakeLock
             /\ a.mOutput = s.mOutput /\ a.mInputs = s.mInputs
  <1> DEFINE a == [s EXCEPT !.mInCallAudioMode = b]
  <1>1. a \in HalState
    BY HalAssign
  <1>2. /\ a.mInCallAudioMode = b
        /\ a.out = s.out /\ a.in = s.in /\ a.mMode = s.mMode
        /\ a.wakeLock = s.wakeLock
        /\ a.mOutput = s.mOutput /\ a.mInputs = s.mInputs
    BY DEF HalState
  <1> QED
    BY <1>1, <1>2

LEMMA EnterCallLands ==
  ASSUME TypeOK, NEW t \in Threads, NEW o, NEW i, NEW s \in HalState,
         EnterCall(t, o, i, s), NEW P \in BOOLEAN
  PROVE  LandsBy(t, s, P)
  <1>1. PICK okPcm \in BOOLEAN, okMixer \in BOOLEAN :
          SetModeReturn(t, o, i, [OpenMixer(OpenPcmOut(s, okPcm), okMixer)
                                    EXCEPT !.mInCallAudioMode = TRUE])
    BY DEF EnterCall, Outcomes
  <1> DEFINE p == OpenPcmOut(s, okPcm)
             b == OpenMixer(p, okMixer)
             a == [b EXCEPT !.mInCallAudioMode = TRUE]
  <1>2. SetModeReturn(t, o, i, a)
    BY <1>1
  <1>3. Unheard(s, p) /\ p \in HalState
    BY DevicesUnheard, OpenPcmOutType
  <1> HIDE DEF p
  <1>4. Unheard(s, b) /\ b \in HalState
    BY <1>3, DevicesUnheard, OpenMixerType, UnheardTrans
  <1> HIDE DEF b
  <1>5. /\ a \in HalState /\ a.mInCallAudioMode /\ a.out = b.out
        /\ a.wakeLock = b.wakeLock /\ a.mOutput = b.mOutput /\ a.mInputs = b.mInputs
    BY <1>4, CallRouteSet
  <1> HIDE DEF a
  <1>6. Naps(s, a) /\ SameMembers(s, a)
    <2>1. Awake(s, a)
      BY <1>4, <1>5 DEF Awake, Unheard
    <2>2. b.mOutput = s.mOutput /\ b.mInputs = s.mInputs
      BY <1>4, UnheardTrans
    <2> QED
      BY <1>5, <2>1, <2>2, AwakeNaps DEF SameMembers
  <1>7. Right(a, P)
    BY <1>5 DEF Right, CallMode, MicFollows, OutFollows
  <1> QED
    BY <1>2, <1>5, <1>6, <1>7, SetModeReturnMoves, MovesLand

LEMMA LeaveCallLands ==
  ASSUME TypeOK, NEW t \in Threads, NEW o, NEW i, NEW s \in HalState,
         LeaveCall(t, o, i, s), NEW P \in BOOLEAN,
         s.mMode # "IN_CALL", \A j \in s.mInputs : ~Open(s.in[j]),
         P => s.mOutput = None \/ ~Open(s.out[s.mOutput])
  PROVE  LandsBy(t, s, P)
  <1> DEFINE a == [s EXCEPT !.mInCallAudioMode = FALSE]
  <1>1. SetModeReturn(t, o, i, a)
    BY DEF LeaveCall
  <1>2. /\ a \in HalState /\ a.out = s.out /\ a.in = s.in /\ a.mMode = s.mMode
        /\ a.wakeLock = s.wakeLock /\ a.mOutput = s.mOutput /\ a.mInputs = s.mInputs
    BY CallRouteSet
  <1> HIDE DEF a
  <1>3. Naps(s, a) /\ SameMembers(s, a)
    BY <1>2, AwakeNaps DEF Awake, SameMembers
  <1>4. Right(a, P)
    BY <1>2 DEF Right, CallMode, MicFollows, OutFollows
  <1> QED
    BY <1>1, <1>2, <1>3, <1>4, SetModeReturnMoves, MovesLand

LEMMA LandsOn ==
  ASSUME NEW t, NEW s, NEW a, NEW P, SameMembers(s, a), Naps(s, a), LandsBy(t, a, P)
  PROVE  TurnsBy(t, s, P)
  <1>1. SameMembers(s, hal') /\ Naps(s, hal')
    BY NapsTrans DEF LandsBy, SameMembers
  <1> QED
    BY <1>1 DEF LandsBy, Right, TurnsBy, Turns

LEMMA SetModeBodyTurns ==
  ASSUME TypeOK, NEW t \in Threads, NEW m \in AllModes,
         NEW o \in OutStreams \cup {None}, NEW i \in InStreams \cup {None},
         NEW s \in HalState, SetModeBody(t, m, o, i, s), NEW P \in BOOLEAN,
         P => s.mOutput \in {None, o} \/ ~Open(s.out[s.mOutput]),
         \A j \in s.mInputs \ {i} : ~Open(s.in[j]),
         th'[t].pc # "echo.out"
  PROVE  TurnsBy(t, s, P)
  <1>1. PICK ril \in BOOLEAN : SetModeBody(t, m, o, i, s)!(ril)
    BY DEF SetModeBody, Outcomes
  <1> DEFINE cp == m # "NORMAL" /\ (s.mActivatedCP \/ (s.mMode = "NORMAL" /\ ril))
             a == [s EXCEPT !.mMode = m, !.mActivatedCP = cp]
             path == IF a.mMixer THEN "RCV" ELSE a.playbackPath
             reset == [a EXCEPT !.playbackPath = path]
             closed == ClosePcmOut(CloseMixer(reset))
             OutDown(b) == IF o = None THEN b ELSE OutDoStandby(b, o)
             r(ret) == [Idle EXCEPT !.spOut = o, !.spIn = i, !.victim = i, !.ret = ret]
             InDown(ret, b) == InStandbyIn(t, {o, i} \ {None}, r(ret), b)
             down == OutDown(closed)
  <1>2. /\ a \in HalState /\ a.mMode = m
        /\ a.out = s.out /\ a.in = s.in /\ SameMembers(s, a)
        /\ a.wakeLock = s.wakeLock /\ a.mMicMute = s.mMicMute
        /\ a.memoPath = s.memoPath /\ a.playbackPath = s.playbackPath
        /\ a.mInCallAudioMode = s.mInCallAudioMode
    <2>1. cp \in BOOLEAN
      BY HalFields
    <2> HIDE DEF cp
    <2> QED
      BY <2>1 DEF HalState, SameMembers
  <1>3. reset \in HalState /\ PlaybackOnly(a, reset) /\ reset.out = a.out
    <2> HIDE DEF a
    <2>1. path \in {"RCV", "SPK", "HP", "BT", "off"}
      BY <1>2, HalFields
    <2> HIDE DEF path
    <2>2. PlaybackOnly(a, reset) /\ reset.out = a.out
      BY <1>2, <2>1, PathSide
    <2> HIDE DEF reset
    <2> QED
      BY <2>2, SideTrans
  <1>4. \/ SetModeReturn(t, o, i, s)
        \/ i = None /\ EnterCall(t, o, i, OutDown(a))
        \/ i # None /\ InDown("enterCall", OutDown(a))
        \/ m = "NORMAL" /\ i = None /\ LeaveCall(t, o, i, down)
        \/ m = "NORMAL" /\ i # None /\ InDown("leaveCall", down)
        \/ (m = "IN_CALL" => s.mInCallAudioMode) /\ SetModeReturn(t, o, i, a)
    BY <1>1
  <1> HIDE DEF a, reset
  <1>5. ASSUME NEW b \in HalState
        PROVE  /\ Quiet(b, OutDown(b)) /\ Naps(b, OutDown(b)) /\ OutDown(b) \in HalState
               /\ o # None => Off(OutDown(b).out[o])
    <2>1. CASE o = None
      BY <2>1, QuietSame, AwakeNaps
    <2>2. CASE o # None
      <3> DEFINE d == OutDoStandby(b, o)
      <3>1. Quiet(b, d) /\ Off(d.out[o]) /\ Gentle(b, d)
        BY <2>2, OutDoStandbyQuiet, StandbyGentle
      <3> HIDE DEF d
      <3>2. d \in HalState /\ Naps(b, d)
        BY <3>1, GentleMeans DEF Gentle
      <3>3. OutDown(b) = d
        BY <2>2 DEF d
      <3> QED
        BY <3>1, <3>2, <3>3
    <2> QED
      BY <2>1, <2>2
  <1>6. closed \in HalState /\ Unheard(reset, closed)
    <2>1. Unheard(reset, CloseMixer(reset)) /\ CloseMixer(reset) \in HalState
      BY <1>3, DevicesUnheard, CloseMixerType
    <2>2. Unheard(CloseMixer(reset), closed)
      BY <2>1, DevicesUnheard
    <2> HIDE DEF closed
    <2> QED
      BY <1>3, <2>1, <2>2, UnheardTrans
  <1> HIDE DEF closed, OutDown, InDown
  <1>7. Naps(s, a) /\ Naps(s, closed) /\ SameMembers(s, a) /\ SameMembers(s, closed)
    <2>1. Awake(s, a)
      BY <1>2 DEF Awake
    <2>2. Awake(s, closed)
      BY <1>3, <1>6, <2>1, QuietTrans DEF PlaybackOnly, Unheard
    <2>3. SameMembers(a, reset) /\ SameMembers(reset, closed)
      BY <1>3, <1>6, SideTrans, UnheardTrans DEF SameMembers
    <2> QED
      BY <1>2, <2>1, <2>2, <2>3, AwakeNaps DEF SameMembers
  <1>8. ASSUME NEW b \in HalState, Naps(s, b), SameMembers(s, b)
        PROVE  Naps(s, OutDown(b)) /\ SameMembers(s, OutDown(b))
    BY <1>5, <1>8, NapsTrans DEF Quiet, SameMode, Keeps, Still, SameMembers
  <1>9. ASSUME NEW ret \in {"enterCall", "leaveCall"}, NEW b, i # None, InDown(ret, b)
        PROVE  /\ ret = "enterCall" => EnterCall(t, o, i, InDoStandby(b, i))
               /\ ret = "leaveCall" => LeaveCall(t, o, i, InDoStandby(b, i))
    <2> DEFINE q == r(ret)
               e == [q EXCEPT !.pc = "echo.out", !.echoOut = b.mOutput]
    <2>1. /\ q.ret = ret /\ q.spOut = o /\ q.spIn = i /\ q.victim = i
          /\ e.pc = "echo.out"
      BY DEF Idle
    <2>2. Go(t, e) \/ Resume(t, q, InDoStandby(b, i))
      BY <1>9, <2>1 DEF InStandbyIn, InDown
    <2> HIDE DEF q, e
    <2>3. Resume(t, q, InDoStandby(b, i))
      BY <2>1, <2>2, GoGoes
    <2> QED
      BY <2>1, <2>3 DEF Resume
  <1>10. ASSUME NEW b \in HalState, Naps(s, b), SameMembers(s, b), i # None
         PROVE  LET d == InDoStandby(b, i)
                IN  /\ d \in HalState /\ Naps(s, d) /\ SameMembers(s, d)
                    /\ Unheard(b, d) /\ ~d.in[i].mPcm
    <2> DEFINE d == InDoStandby(b, i)
    <2>1. Unheard(b, d) /\ ~d.in[i].mPcm
      BY <1>10, InDoStandbyUnheard
    <2> HIDE DEF d
    <2>2. Gentle(b, d)
      BY <2>1, GentleMeans
    <2>3. d \in HalState /\ Naps(s, d) /\ SameMembers(s, d)
      BY <1>10, <2>2, GentleMeans, NapsTrans DEF Gentle, SameMembers
    <2> QED
      BY <2>1, <2>3 DEF d
  <1>11. CASE SetModeReturn(t, o, i, s)
    <2>1. Moves(t, s) /\ SameMembers(s, s) /\ Naps(s, s) /\ Turns(s, s, P)
      BY <1>11, SetModeReturnMoves, GentleMeans, GentleTurns
    <2> QED
      BY <2>1, MovesLand
  <1>12. CASE (m = "IN_CALL" => s.mInCallAudioMode) /\ SetModeReturn(t, o, i, a)
    <2>1. Moves(t, a)
      BY <1>2, <1>12, SetModeReturnMoves
    <2>2. Turns(s, a, P)
      BY <1>2, <1>7, <1>12 DEF Turns, CallMode, MicFollows, OutFollows, SameMembers
    <2> QED
      BY <1>2, <1>7, <2>1, <2>2, MovesLand
  <1>13. CASE i = None /\ EnterCall(t, o, i, OutDown(a))
    BY <1>2, <1>5, <1>7, <1>8, <1>13, EnterCallLands, LandsOn
  <1>14. CASE i # None /\ InDown("enterCall", OutDown(a))
    <2>1. OutDown(a) \in HalState /\ Naps(s, OutDown(a)) /\ SameMembers(s, OutDown(a))
      BY <1>2, <1>5, <1>7, <1>8
    <2>2. EnterCall(t, o, i, InDoStandby(OutDown(a), i))
      BY <1>9, <1>14
    <2> QED
      BY <1>10, <1>14, <2>1, <2>2, EnterCallLands, LandsOn
  <1>15. /\ down \in HalState /\ Naps(s, down) /\ SameMembers(s, down)
         /\ down.mMode = m
         /\ \A j \in s.mInputs \ {i} : ~Open(down.in[j])
         /\ P => s.mOutput = None \/ ~Open(down.out[s.mOutput])
    <2>1. down \in HalState /\ Quiet(closed, down)
      BY <1>5, <1>6
    <2>2. Naps(s, down) /\ SameMembers(s, down)
      BY <1>6, <1>7, <1>8
    <2>3. Quiet(reset, down)
      BY <1>6, <2>1, QuietTrans DEF Unheard
    <2>4. down.mMode = m
      BY <1>2, <1>3, <2>3 DEF Quiet, PlaybackOnly, SameMode
    <2>5. \A j \in InStreams : Open(down.in[j]) => Open(s.in[j])
      BY <1>2, <1>3, <2>3 DEF Quiet, InQuiet, PlaybackOnly
    <2>6. \A x \in OutStreams : Open(down.out[x]) => Open(s.out[x])
      BY <1>2, <1>3, <2>3 DEF Quiet, OutQuiet
    <2>7. o # None => ~Open(down.out[o])
      BY <1>5, <1>6 DEF Off, Open
    <2>8. s.mInputs \subseteq InStreams /\ s.mOutput \in OutStreams \cup {None}
      BY HalFields
    <2> HIDE DEF down
    <2> QED
      BY <2>1, <2>2, <2>4, <2>5, <2>6, <2>7, <2>8
  <1> HIDE DEF down
  <1>16. CASE m = "NORMAL" /\ i = None /\ LeaveCall(t, o, i, down)
    <2>1. \A j \in down.mInputs : ~Open(down.in[j])
      <3>1. s.mInputs \subseteq InStreams
        BY HalFields
      <3>2. None \notin InStreams
        BY HalAssumption
      <3> QED
        BY <1>15, <1>16, <3>1, <3>2 DEF SameMembers
    <2>2. P => down.mOutput = None \/ ~Open(down.out[down.mOutput])
      BY <1>15 DEF SameMembers
    <2>3. down.mMode # "IN_CALL"
      BY <1>15, <1>16
    <2>4. LandsBy(t, down, P)
      BY <1>15, <1>16, <2>1, <2>2, <2>3, LeaveCallLands
    <2> QED
      BY <1>15, <2>4, LandsOn
  <1>17. CASE m = "NORMAL" /\ i # None /\ InDown("leaveCall", down)
    <2> DEFINE d == InDoStandby(down, i)
    <2>1. /\ d \in HalState /\ Naps(s, d) /\ SameMembers(s, d)
          /\ Unheard(down, d) /\ ~d.in[i].mPcm
      BY <1>10, <1>15, <1>17
    <2>2. LeaveCall(t, o, i, d)
      BY <1>9, <1>17
    <2> HIDE DEF d
    <2>3. \A j \in d.mInputs : ~Open(d.in[j])
      <3>1. d.mInputs = s.mInputs /\ s.mInputs \subseteq InStreams
        BY <2>1, HalFields DEF SameMembers
      <3>2. \A j \in InStreams : Open(d.in[j]) => Open(down.in[j])
        BY <2>1 DEF Unheard, Quiet, InQuiet
      <3>3. ~Open(d.in[i])
        BY <2>1 DEF Open
      <3> QED
        BY <1>15, <3>1, <3>2, <3>3
    <2>4. P => d.mOutput = None \/ ~Open(d.out[d.mOutput])
      <3>1. d.mOutput = s.mOutput /\ s.mOutput \in OutStreams \cup {None}
        BY <2>1, HalFields DEF SameMembers
      <3>2. \A x \in OutStreams : Open(d.out[x]) => Open(down.out[x])
        BY <2>1 DEF Unheard, Quiet, OutQuiet
      <3> QED
        BY <1>15, <3>1, <3>2
    <2>5. d.mMode # "IN_CALL"
      BY <1>15, <1>17, <2>1, UnheardTrans
    <2>6. LandsBy(t, d, P)
      BY <2>1, <2>2, <2>3, <2>4, <2>5, LeaveCallLands
    <2> QED
      BY <2>1, <2>6, LandsOn
  <1> QED
    BY <1>4, <1>11, <1>12, <1>13, <1>14, <1>16, <1>17

(* Streams in standby are not open.                                          *)
Rested(s) ==
  /\ \A o \in OutStreams : s.out[o].mStandby => ~Open(s.out[o])
  /\ \A i \in InStreams : s.in[i].mStandby => ~Open(s.in[i])

WaitsAt(t, s, p) ==
  /\ Unheard(s, hal')
  /\ \A u \in Threads : IF u = t THEN th'[u].pc = p ELSE th'[u] = th[u]

LEMMA ScanInTurns ==
  ASSUME TypeOK, NEW t \in Threads, NEW m \in AllModes,
         NEW o \in OutStreams \cup {None}, NEW s \in HalState, Rested(s),
         SetModeScanIn(t, m, o, s), NEW P \in BOOLEAN,
         P => s.mOutput \in {None, o} \/ ~Open(s.out[s.mOutput]),
         th'[t].pc # "echo.out"
  PROVE  TurnsBy(t, s, P) \/ (ActiveInputs(s) # {} /\ WaitsAt(t, s, "setMode.in"))
  <1>1. CASE ActiveInputs(s) = {}
    <2>1. \A j \in s.mInputs \ {None} : ~Open(s.in[j])
      <3>1. s.mInputs \subseteq InStreams
        BY HalFields
      <3> QED
        BY <1>1, <3>1 DEF ActiveInputs, Rested
    <2>2. SetModeBody(t, m, o, None, s)
      BY <1>1 DEF SetModeScanIn
    <2> QED
      BY <2>1, <2>2, SetModeBodyTurns
  <1>2. CASE ActiveInputs(s) # {}
    <2>1. PICK i \in ActiveInputs(s) :
            /\ hal' = [s EXCEPT !.in[i].snap = @ \cup {t}]
            /\ Go(t, [Idle EXCEPT !.pc = "setMode.in", !.mode = m, !.spOut = o,
                                  !.spIn = i])
      BY <1>2 DEF SetModeScanIn
    <2> DEFINE q == [Idle EXCEPT !.pc = "setMode.in", !.mode = m, !.spOut = o,
                                 !.spIn = i]
    <2>2. i \in InStreams
      BY ActiveOnes
    <2>3. Unheard(s, hal')
      <3>1. s.in[i].snap \cup {t} \in SUBSET Threads
        BY <2>2, StreamFields
      <3> QED
        BY <2>1, <2>2, <3>1, StreamQuiet
    <2>4. q.pc = "setMode.in" /\ Go(t, q)
      BY <2>1 DEF Idle
    <2> HIDE DEF q
    <2>5. \A u \in Threads : IF u = t THEN th'[u].pc = "setMode.in" ELSE th'[u] = th[u]
      BY <2>4 DEF Go, TypeOK
    <2> QED
      BY <1>2, <2>3, <2>5 DEF WaitsAt
  <1> QED
    BY <1>1, <1>2

LEMMA ScanOutTurns ==
  ASSUME TypeOK, NEW t \in Threads, NEW m \in AllModes, NEW s \in HalState, Rested(s),
         SetModeScanOut(t, m, s), th'[t].pc # "echo.out"
  PROVE  \/ TurnsBy(t, s, TRUE)
         \/ WaitsAt(t, s, "setMode.out")
         \/ ActiveInputs(s) # {} /\ WaitsAt(t, s, "setMode.in")
  <1> DEFINE o == s.mOutput
             q == [Idle EXCEPT !.pc = "setMode.out", !.mode = m, !.spOut = o]
  <1>1. CASE o = None \/ s.out[o].mStandby
    <2>1. SetModeScanIn(t, m, None, s)
      BY <1>1 DEF SetModeScanOut
    <2>2. s.mOutput \in {None} \/ ~Open(s.out[s.mOutput])
      BY <1>1, HalFields DEF Rested
    <2> QED
      BY <2>1, <2>2, ScanInTurns
  <1>2. CASE ~(o = None \/ s.out[o].mStandby)
    <2>1. o \in OutStreams
      BY <1>2, HalFields
    <2>2. hal' = [s EXCEPT !.out[o].snap = @ \cup {t}] /\ Go(t, q)
      BY <1>2 DEF SetModeScanOut
    <2>3. Unheard(s, hal')
      <3>1. s.out[o].snap \cup {t} \in SUBSET Threads
        BY <2>1, StreamFields
      <3> QED
        BY <2>1, <2>2, <3>1, StreamQuiet
    <2>4. q.pc = "setMode.out"
      BY DEF Idle
    <2> HIDE DEF q
    <2>5. \A u \in Threads : IF u = t THEN th'[u].pc = "setMode.out" ELSE th'[u] = th[u]
      BY <2>2, <2>4 DEF Go, TypeOK
    <2> QED
      BY <2>3, <2>5 DEF WaitsAt
  <1> QED
    BY <1>1, <1>2

-----------------------------------------------------------------------------
(* The actions.  First those that leave the routes and the wake lock right   *)
(* whatever the other threads do.                                            *)
LEMMA StayMoves ==
  ASSUME TypeOK, NEW t \in Threads, Gentle(hal, hal'), UNCHANGED th,
         th[t].pc = "idle"
  PROVE  Moves(t, hal)
  BY DEF Moves, Goes

LEMMA SameMoves ==
  ASSUME TypeOK, NEW t \in Threads, UNCHANGED hal, NEW q, Go(t, q),
         q.pc \notin {"setMode.out", "setMode.in", "write.in"}
  PROVE  Moves(t, hal)
  BY GoGoes, GentleMeans DEF Moves, TypeOK

LEMMA OutMoves ==
  ASSUME TypeOK, NEW t \in Threads, OutStandby(t) \/ WriteActive(t)
  PROVE  Moves(t, hal)
  <1>0. hal \in HalState /\ hal.mOutput \in OutStreams \cup {None}
    BY HalFields DEF TypeOK
  <1>1. CASE OutStandby(t)
    <2>1. hal.mOutput \in OutStreams
      BY <1>0, <1>1 DEF OutStandby
    <2> QED
      BY <1>0, <1>1, <2>1, StandbyGentle, StayMoves DEF OutStandby, Calling
  <1>2. CASE WriteActive(t)
    <2> DEFINE q == [Idle EXCEPT !.pc = "write.io", !.obj = hal.mOutput]
    <2>1. q.pc = "write.io"
      BY DEF Idle
    <2>2. Go(t, q) /\ UNCHANGED hal
      BY <1>2 DEF WriteActive
    <2> HIDE DEF q
    <2> QED
      BY <2>1, <2>2, SameMoves
  <1> QED
    BY <1>1, <1>2

LEMMA InMoves ==
  ASSUME TypeOK, Safe, NEW t \in Threads, NEW i \in InStreams,
         \/ InStandby(t, i) \/ InSetSource(t, i)
         \/ ReadActive(t, i) \/ ReadExitStandby(t, i)
  PROVE  Moves(t, hal)
  <1>0. hal \in HalState /\ NoEchoRefs(hal)
    BY SafeParts
  <1>1. CASE InStandby(t, i)
    <2> DEFINE q == [Idle EXCEPT !.obj = i, !.victim = i]
    <2>1. q \in ThreadState
      BY IdleType, ThreadAssign, Names
    <2>2. HasPointers(q) /\ q.victim \in InStreams /\ q.ret = "return"
      BY DEF HasPointers, Idle
    <2>3. InStandbyIn(t, {i}, q, hal)
      BY <1>1 DEF InStandby
    <2> HIDE DEF q
    <2> QED
      BY <1>0, <2>1, <2>2, <2>3, InStandbyInMoves
  <1>2. CASE InSetSource(t, i)
    <2>1. PICK ok \in BOOLEAN : hal' = CloseMixer(OpenMixer(hal, ok))
      BY <1>2 DEF InSetSource, Outcomes
    <2> DEFINE a == OpenMixer(hal, ok)
    <2>2. Unheard(hal, a) /\ a \in HalState
      BY <1>0, DevicesUnheard, OpenMixerType
    <2> HIDE DEF a
    <2>3. Unheard(a, CloseMixer(a))
      BY <2>2, DevicesUnheard
    <2>4. Gentle(hal, hal')
      BY <1>0, <2>1, <2>2, <2>3, UnheardTrans, GentleMeans DEF a
    <2> QED
      BY <1>2, <2>4, StayMoves DEF InSetSource, Calling
  <1>3. CASE ReadActive(t, i)
    <2> DEFINE q == [Idle EXCEPT !.pc = "read.io", !.obj = i]
    <2>1. q.pc = "read.io"
      BY DEF Idle
    <2>2. Go(t, q) /\ UNCHANGED hal
      BY <1>3 DEF ReadActive
    <2> HIDE DEF q
    <2> QED
      BY <2>1, <2>2, SameMoves
  <1>4. CASE ReadExitStandby(t, i)
    BY <1>0, <1>4, ReadScanMoves DEF ReadExitStandby
  <1> QED
    BY <1>1, <1>2, <1>3, <1>4

LEMMA FmMoves ==
  ASSUME TypeOK, NEW t \in Threads, EnableFMRadio(t) \/ DisableFMRadio(t)
  PROVE  Moves(t, hal)
  <1>0. hal \in HalState
    BY DEF TypeOK
  <1>1. CASE EnableFMRadio(t)
    <2>1. PICK okPcm \in BOOLEAN, okMixer \in BOOLEAN :
            hal' = EnableFm(hal, okPcm, okMixer)
      BY <1>1 DEF EnableFMRadio, Outcomes
    <2>2. Gentle(hal, hal')
      BY <1>0, <2>1, EnableFmFollows, GentleMeans
    <2> QED
      BY <1>1, <2>2, StayMoves DEF EnableFMRadio, Calling
  <1>2. CASE DisableFMRadio(t)
    <2>1. Gentle(hal, hal')
      BY <1>0, <1>2, DisableFmUnheard, GentleMeans DEF DisableFMRadio
    <2> QED
      BY <1>2, <2>1, StayMoves DEF DisableFMRadio, Calling
  <1> QED
    BY <1>1, <1>2

LEMMA DoneMoves ==
  ASSUME TypeOK, NEW t \in Threads, NEW ok \in BOOLEAN,
         WriteDone(t, ok) \/ ReadDone(t, ok)
  PROVE  Moves(t, hal)
  <1> DEFINE q1 == [th[t] EXCEPT !.pc = "outStandby", !.victim = th[t].obj]
             q2 == [th[t] EXCEPT !.pc = "inStandby", !.victim = th[t].obj]
  <1>1. q1.pc = "outStandby" /\ q2.pc = "inStandby" /\ Idle.pc = "idle"
    BY DEF Idle, TypeOK, ThreadState
  <1>2. UNCHANGED hal /\ (Go(t, q1) \/ Go(t, q2) \/ Go(t, Idle))
    BY DEF WriteDone, ReadDone
  <1> HIDE DEF q1, q2
  <1> QED
    BY <1>1, <1>2, SameMoves

LEMMA ReadLocksMove ==
  ASSUME TypeOK, Safe, NEW t \in Threads, ReadLockOut(t) \/ ReadLockIn(t)
  PROVE  Moves(t, hal)
  <1> DEFINE r == th[t]
  <1>0. hal \in HalState /\ NoEchoRefs(hal) /\ r \in ThreadState /\ HasPointers(r)
    BY SafeParts
  <1>1. CASE ReadLockOut(t)
    <2> DEFINE q == [th[t] EXCEPT !.pc = "read.in"]
    <2>1. q.pc = "read.in"
      BY <1>0 DEF ThreadState
    <2>2. Go(t, q) /\ UNCHANGED hal
      BY <1>1 DEF ReadLockOut
    <2> HIDE DEF q
    <2> QED
      BY <2>1, <2>2, SameMoves
  <1>2. CASE ReadLockIn(t)
    <2> DEFINE q == [th[t] EXCEPT !.pc = "stuck"]
    <2>1. q.pc = "stuck" /\ r.obj \in InStreams
      BY <1>0, <1>2 DEF ThreadState, ReadLockIn, HasPointers
    <2>2. \/ r.spOut = hal.mOutput /\ ReadOpen(t, r.obj, r.spOut, hal)
          \/ hal' = hal /\ Go(t, q)
          \/ ReadScan(t, r.obj, hal)
      BY <1>2 DEF ReadLockIn, Stuck
    <2> HIDE DEF q, r
    <2> QED
      BY <1>0, <2>1, <2>2, SameMoves, ReadOpenMoves, ReadScanMoves
  <1> QED
    BY <1>1, <1>2

LEMMA InStandbyLockMoves ==
  ASSUME TypeOK, Safe, NEW t \in Threads, InStandbyLock(t)
  PROVE  Moves(t, hal)
  <1>0. /\ hal \in HalState /\ th[t] \in ThreadState /\ HasPointers(th[t])
        /\ th[t].ret \in {"return", "free"}
    BY SafeParts DEF Safe, Form
  <1>1. th[t].victim \in InStreams /\ InStandbyIn(t, {th[t].victim}, th[t], hal)
    BY <1>0 DEF InStandbyLock, HasPointers
  <1> QED
    BY <1>0, <1>1, InStandbyInMoves

(* An output is put in standby, and its memory given back if it was its      *)
(* destructor that did.                                                      *)
LEMMA OutStandbyLockMoves ==
  ASSUME TypeOK, Safe, NEW t \in Threads, OutStandbyLock(t)
  PROVE  /\ Follows(hal, hal') /\ Goes(t) /\ th'[t].pc # "write.in"
         /\ \A b \in BOOLEAN : Wake(hal, b) => Wake(hal', b)
         /\ th[t].ret # "free" => SameLives(hal, hal')
         /\ \A p \in OutStreams : hal'.out[p].alive =>
              hal.out[p].alive /\ (p = th[t].victim => th[t].ret # "free")
  <1> DEFINE r == th[t]
             a == OutDoStandby(hal, r.victim)
             f == Freed(a, r.victim)
  <1>0. /\ hal \in HalState /\ r \in ThreadState /\ HasPointers(r)
        /\ r.ret \in {"return", "free"}
    BY SafeParts DEF Safe, Form
  <1>1. r.victim \in OutStreams /\ Resume(t, r, a)
    BY <1>0 DEF OutStandbyLock, HasPointers
  <1>2. Gentle(hal, a) /\ a \in HalState
    <2>1. Gentle(hal, a)
      BY <1>0, <1>1, StandbyGentle
    <2> HIDE DEF a
    <2> QED
      BY <1>0, <2>1, GentleMeans
  <1>3. CASE r.ret = "return"
    <2>1. Leave(t, r.spOut, r.spIn, a)
      BY <1>1, <1>3 DEF Resume
    <2> HIDE DEF a
    <2>2. Moves(t, hal)
      BY <1>2, <2>1, LeaveMoves, MovesOn
    <2> QED
      BY <1>3, <2>2 DEF Moves, Gentle, Naps, SameLives
  <1>4. CASE r.ret = "free"
    <2>1. Leave(t, r.spOut, r.spIn, f)
      BY <1>1, <1>4 DEF Resume
    <2>2. f \in HalState /\ Follows(a, f)
      BY <1>1, <1>2, FreedType, FreedFollows, Names
    <2>3. /\ f.wakeLock = a.wakeLock
          /\ \A p \in OutStreams : f.out[p] = IF p = r.victim THEN NoOut ELSE a.out[p]
      BY <1>1, <1>2 DEF Freed, HalState
    <2>4. a.out[r.victim].mStandby
      BY <1>0, <1>1, OutDoStandbyQuiet DEF Sleeps
    <2> HIDE DEF f, a
    <2>5. Lit(f) <=> Lit(a)
      BY <2>3, <2>4 DEF Lit, NoOut
    <2>6. ASSUME NEW b \in BOOLEAN, Wake(hal, b) PROVE Wake(f, b)
      <3>1. Wake(a, b)
        BY <1>2, <2>6 DEF Gentle, Naps
      <3>2. \A p \in OutStreams : ~f.out[p].mStandby => ~a.out[p].mStandby
        BY <2>3 DEF NoOut
      <3> QED
        BY <2>3, <2>5, <3>1, <3>2 DEF Wake
    <2>7. \A p \in OutStreams :
            f.out[p].alive => hal.out[p].alive /\ p # r.victim
      BY <1>2, <2>3 DEF Gentle, Naps, SameLives, NoOut
    <2>8. Follows(hal, f)
      BY <1>2, <2>2, QuietTrans DEF Gentle
    <2>9. hal' = f /\ Goes(t) /\ th'[t].pc # "write.in"
      BY <2>1, <2>2, LeaveMoves DEF Moves, Leave
    <2> QED
      BY <1>4, <2>6, <2>7, <2>8, <2>9
  <1> QED
    BY <1>0, <1>3, <1>4

(* A write leaves standby.                                                   *)
LEMMA WriteStarts ==
  ASSUME TypeOK, NEW t \in Threads, WriteExitStandby(t)
  PROVE  /\ Follows(hal, hal') /\ SameLives(hal, hal') /\ Goes(t)
         /\ ~Lit(hal) => \/ th'[t].pc \in {"stuck", "echo.out"}
                         \/ Wake(hal', th'[t].pc = "write.in")
  <1> DEFINE s == [hal EXCEPT !.wakeLock = TRUE]
  <1>0. hal \in HalState /\ hal.mOutput \in OutStreams \cup {None}
    BY HalFields DEF TypeOK
  <1>1. hal.mOutput \in OutStreams /\ WriteScan(t, hal.mOutput, s)
    BY <1>0 DEF WriteExitStandby
  <1>2. Quiet(hal, s) /\ s \in HalState
    BY <1>0, FieldQuiet, HalAssign
  <1>3. s.out = hal.out /\ s.wakeLock /\ s.mOutput = hal.mOutput
    BY <1>0 DEF HalState
  <1> HIDE DEF s
  <1>4. Plays(t, s)
    BY <1>1, <1>2, <1>3, WriteScanPlays
  <1>5. Follows(hal, hal')
    BY <1>0, <1>2, <1>4, QuietFollows, QuietTrans DEF Plays
  <1> QED
    BY <1>3, <1>4, <1>5 DEF Plays, SameLives, Poised, Lit

LEMMA SnapUnheard ==
  ASSUME NEW s \in HalState, NEW t \in Threads
  PROVE  /\ \A o \in OutStreams : Unheard(s, [s EXCEPT !.out[o].snap = @ \ {t}])
         /\ \A i \in InStreams : Unheard(s, [s EXCEPT !.in[i].snap = @ \ {t}])
  <1>1. ASSUME NEW o \in OutStreams
        PROVE  Unheard(s, [s EXCEPT !.out[o].snap = @ \ {t}])
    <2>1. s.out[o].snap \ {t} \in SUBSET Threads
      BY StreamFields
    <2> QED
      BY <2>1, StreamQuiet
  <1>2. ASSUME NEW i \in InStreams
        PROVE  Unheard(s, [s EXCEPT !.in[i].snap = @ \ {t}])
    <2>1. s.in[i].snap \ {t} \in SUBSET Threads
      BY StreamFields
    <2> QED
      BY <2>1, StreamQuiet
  <1> QED
    BY <1>1, <1>2

(* The output of a write that waits or plays is the one the object has.      *)
LEMMA WriterOut ==
  ASSUME TypeOK, Safe, NEW u \in Threads, th[u].pc = "write.in"
  PROVE  /\ th[u].obj \in OutStreams /\ th[u].obj = hal.mOutput
         /\ hal.out[th[u].obj].mStandby /\ own[th[u].obj] = u
  <1>1. /\ HasPointers(th[u]) /\ Fits(th[u], hal) /\ hal.mInputs \subseteq InStreams
    BY HalFields DEF TypeOK, Safe
  <1>2. th[u].obj \in OutStreams /\ hal.out[th[u].obj].mStandby
    BY <1>1 DEF HasPointers, Fits
  <1>3. th[u].obj # None /\ th[u].obj \notin InStreams
    BY <1>2, HalAssumption
  <1>4. th[u].obj = hal.mOutput
    BY <1>1, <1>3 DEF Fits, Linked, Member
  <1>5. Held(u) = {th[u].obj}
    BY DEF Safe, LocksHeld, LocksOf
  <1> QED
    BY <1>2, <1>4, <1>5 DEF Held

LEMMA WriteLockInPlays ==
  ASSUME TypeOK, Safe, NEW t \in Threads, WriteLockIn(t)
  PROVE  Plays(t, hal)
  <1> DEFINE r == th[t]
             s == [hal EXCEPT !.in[r.spIn].snap = @ \ {t}]
             q == [th[t] EXCEPT !.pc = "stuck"]
  <1>0. hal \in HalState /\ r \in ThreadState /\ HasPointers(r) /\ r.pc = "write.in"
    BY SafeParts DEF WriteLockIn
  <1>1. r.obj \in OutStreams /\ r.obj = hal.mOutput /\ r.spIn \in InStreams
    BY <1>0, WriterOut DEF HasPointers
  <1>2. q.pc = "stuck"
    BY <1>0 DEF ThreadState
  <1>3. \/ WriteOpen(t, r.obj, r.spIn, s)
        \/ WriteScan(t, r.obj, s)
        \/ hal' = s /\ Go(t, q)
    BY DEF WriteLockIn, Stuck
  <1>4. Unheard(hal, s)
    BY <1>0, <1>1, SnapUnheard
  <1> HIDE DEF s, q, r
  <1>5. /\ s \in HalState /\ s.mOutput = hal.mOutput
        /\ Follows(hal, s) /\ Awake(hal, s)
    BY <1>0, <1>4, UnheardTrans DEF Unheard
  <1>6. CASE hal' = s /\ Go(t, q)
    BY <1>2, <1>5, <1>6, GoGoes DEF Plays, SameLives, Awake
  <1>7. CASE WriteOpen(t, r.obj, r.spIn, s) \/ WriteScan(t, r.obj, s)
    <2>1. Plays(t, s)
      BY <1>1, <1>5, <1>7, WriteOpenPlays, WriteScanPlays
    <2> QED
      BY <1>5, <2>1, MovesOn
  <1> QED
    BY <1>3, <1>6, <1>7

(* setMode.                                                                  *)
LEMMA SafeRested ==
  ASSUME TypeOK, Safe, HwFree
  PROVE  Rested(hal)
  BY DEF Safe, AllSettled, Settled, Off, Rested, Open

LEMMA SnapRested ==
  ASSUME NEW s \in HalState, NEW t \in Threads, Rested(s)
  PROVE  /\ \A o \in OutStreams : Rested([s EXCEPT !.out[o].snap = @ \ {t}])
         /\ \A i \in InStreams : Rested([s EXCEPT !.in[i].snap = @ \ {t}])
  <1>1. ASSUME NEW o \in OutStreams
        PROVE  Rested([s EXCEPT !.out[o].snap = @ \ {t}])
    <2> DEFINE a == [s EXCEPT !.out[o].snap = @ \ {t}]
    <2>1. /\ a.in = s.in
          /\ \A p \in OutStreams :
               /\ a.out[p].mPcm = s.out[p].mPcm /\ a.out[p].mMixer = s.out[p].mMixer
               /\ a.out[p].mStandby = s.out[p].mStandby
      BY DEF HalState, OutState
    <2> HIDE DEF a
    <2>2. Rested(a)
      BY <2>1 DEF Rested, Open
    <2> QED
      BY <2>2 DEF a
  <1>2. ASSUME NEW i \in InStreams
        PROVE  Rested([s EXCEPT !.in[i].snap = @ \ {t}])
    <2> DEFINE a == [s EXCEPT !.in[i].snap = @ \ {t}]
    <2>1. /\ a.out = s.out
          /\ \A p \in InStreams :
               /\ a.in[p].mPcm = s.in[p].mPcm /\ a.in[p].mMixer = s.in[p].mMixer
               /\ a.in[p].mStandby = s.in[p].mStandby
      BY DEF HalState, InState
    <2> HIDE DEF a
    <2>2. Rested(a)
      BY <2>1 DEF Rested, Open
    <2> QED
      BY <2>2 DEF a
  <1> QED
    BY <1>1, <1>2

LEMMA MovesTurn ==
  ASSUME NEW s \in HalState, NEW t \in Threads, Moves(t, s), NEW P \in BOOLEAN
  PROVE  TurnsBy(t, s, P)
  BY GentleTurns DEF Moves, TurnsBy

LEMMA UnheardTurns ==
  ASSUME NEW t \in Threads, NEW s \in HalState, NEW a, Unheard(s, a),
         NEW P \in BOOLEAN
  PROVE  /\ TurnsBy(t, a, P) => TurnsBy(t, s, P)
         /\ \A p : WaitsAt(t, a, p) => WaitsAt(t, s, p)
  <1>1. Turns(s, a, P) /\ a \in HalState
    BY GentleMeans, GentleTurns
  <1>2. TurnsBy(t, a, P) => TurnsBy(t, s, P)
    BY <1>1, NapsTrans DEF TurnsBy, Turns, SameMembers
  <1> QED
    BY <1>2, UnheardTrans DEF WaitsAt

(* A step of setMode takes or ends the call, or waits for a stream.          *)
SetModeStep(t) ==
  \/ TurnsBy(t, hal, th[t].pc # "setMode.in")
  \/ WaitsAt(t, hal, "setMode.out")
  \/ ActiveInputs(hal) # {} /\ WaitsAt(t, hal, "setMode.in")

LEMMA SetModeTurns ==
  ASSUME TypeOK, Safe, Safe', NEW t \in Threads,
         \/ \E m \in Modes : SetMode(t, m)
         \/ SetModeLockOut(t)
         \/ SetModeLockIn(t)
  PROVE  SetModeStep(t)
  <1> DEFINE r == th[t]
  <1>0. /\ hal \in HalState /\ r \in ThreadState /\ HasPointers(r)
        /\ r.mode \in AllModes /\ r.spOut \in OutStreams \cup {None}
    BY SafeParts DEF ThreadState
  <1>01. th'[t].pc # "echo.out"
    BY DEF Safe, Form
  <1>02. HwFree => Rested(hal)
    BY SafeRested
  <1>1. ASSUME NEW m \in Modes, SetMode(t, m) PROVE SetModeStep(t)
    <2>1. m \in AllModes /\ SetModeScanOut(t, m, hal) /\ HwFree /\ r.pc = "idle"
      BY <1>1, HalAssumption DEF SetMode, Calling
    <2> QED
      BY <1>0, <1>01, <1>02, <2>1, ScanOutTurns DEF SetModeStep
  <1>2. CASE SetModeLockOut(t)
    <2> DEFINE s == [hal EXCEPT !.out[r.spOut].snap = @ \ {t}]
               q == [r EXCEPT !.pc = "stuck"]
    <2>1. r.spOut \in OutStreams /\ HwFree /\ r.pc = "setMode.out"
      BY <1>0, <1>2 DEF SetModeLockOut, HasPointers
    <2>2. /\ Unheard(hal, s) /\ Rested(s) /\ ActiveInputs(s) = ActiveInputs(hal)
      BY <1>0, <1>02, <2>1, SnapScans, SnapUnheard, SnapRested
    <2>3. \/ r.spOut = hal.mOutput /\ SetModeScanIn(t, r.mode, r.spOut, s)
          \/ hal' = s /\ Go(t, q)
          \/ SetModeScanOut(t, r.mode, s)
      BY <1>2 DEF SetModeLockOut, Stuck
    <2>4. q.pc = "stuck"
      BY <1>0 DEF ThreadState
    <2> HIDE DEF s, q, r
    <2>5. s \in HalState /\ s.mOutput = hal.mOutput
      BY <1>0, <2>2, UnheardTrans
    <2>6. CASE hal' = s /\ Go(t, q)
      <3>1. Moves(t, hal)
        BY <1>0, <2>2, <2>4, <2>6, GoGoes, GentleMeans DEF Moves
      <3> QED
        BY <1>0, <2>1, <3>1, MovesTurn DEF SetModeStep, r
    <2>7. CASE \/ r.spOut = hal.mOutput /\ SetModeScanIn(t, r.mode, r.spOut, s)
               \/ SetModeScanOut(t, r.mode, s)
      <3>1. \/ TurnsBy(t, s, TRUE) \/ WaitsAt(t, s, "setMode.out")
            \/ ActiveInputs(s) # {} /\ WaitsAt(t, s, "setMode.in")
        <4>1. CASE r.spOut = hal.mOutput /\ SetModeScanIn(t, r.mode, r.spOut, s)
          <5>1. s.mOutput \in {None, r.spOut}
            BY <2>5, <4>1
          <5>2. \/ TurnsBy(t, s, TRUE)
                \/ (ActiveInputs(s) # {} /\ WaitsAt(t, s, "setMode.in"))
            BY <1>0, <1>01, <2>2, <2>5, <4>1, <5>1, ScanInTurns
          <5> QED
            BY <5>2
        <4>2. CASE SetModeScanOut(t, r.mode, s)
          BY <1>0, <1>01, <2>2, <2>5, <4>2, ScanOutTurns
        <4> QED
          BY <2>7, <4>1, <4>2
      <3>2. /\ TurnsBy(t, s, TRUE) => TurnsBy(t, hal, TRUE)
            /\ WaitsAt(t, s, "setMode.out") => WaitsAt(t, hal, "setMode.out")
            /\ WaitsAt(t, s, "setMode.in") => WaitsAt(t, hal, "setMode.in")
        BY <1>0, <2>2, UnheardTurns
      <3>3. (th[t].pc # "setMode.in") = TRUE
        BY <2>1 DEF r
      <3> QED
        BY <2>2, <3>1, <3>2, <3>3 DEF SetModeStep
    <2> QED
      BY <2>3, <2>6, <2>7
  <1>3. CASE SetModeLockIn(t)
    <2> DEFINE s == [hal EXCEPT !.in[r.spIn].snap = @ \ {t}]
               q == [r EXCEPT !.pc = "stuck"]
    <2>1. r.spIn \in InStreams /\ HwFree /\ r.pc = "setMode.in"
      BY <1>0, <1>3 DEF SetModeLockIn, HasPointers
    <2>2. /\ Unheard(hal, s) /\ Rested(s) /\ ActiveInputs(s) = ActiveInputs(hal)
      BY <1>0, <1>02, <2>1, SnapScans, SnapUnheard, SnapRested
    <2>3. \/ /\ r.spIn \in ActiveInputs(hal)
             /\ SetModeBody(t, r.mode, r.spOut, r.spIn, s)
          \/ hal' = s /\ Go(t, q)
          \/ SetModeScanIn(t, r.mode, r.spOut, s)
      BY <1>3 DEF SetModeLockIn, Stuck
    <2>4. q.pc = "stuck"
      BY <1>0 DEF ThreadState
    <2> HIDE DEF s, q, r
    <2>5. s \in HalState /\ s.mInputs = hal.mInputs /\ hal.mInputs \subseteq InStreams
      BY <1>0, <2>2, UnheardTrans, HalFields
    <2>6. /\ TurnsBy(t, s, FALSE) => TurnsBy(t, hal, FALSE)
          /\ WaitsAt(t, s, "setMode.in") => WaitsAt(t, hal, "setMode.in")
      BY <1>0, <2>2, UnheardTurns
    <2>7. (th[t].pc # "setMode.in") = FALSE
      BY <2>1 DEF r
    <2>8. CASE hal' = s /\ Go(t, q)
      <3>1. Moves(t, hal)
        BY <1>0, <2>2, <2>4, <2>8, GoGoes, GentleMeans DEF Moves
      <3> QED
        BY <1>0, <2>7, <3>1, MovesTurn DEF SetModeStep
    <2>9. CASE SetModeScanIn(t, r.mode, r.spOut, s)
      <3>1. \/ TurnsBy(t, s, FALSE)
            \/ (ActiveInputs(s) # {} /\ WaitsAt(t, s, "setMode.in"))
        BY <1>0, <1>01, <2>2, <2>5, <2>9, ScanInTurns
      <3> QED
        BY <2>2, <2>6, <2>7, <3>1 DEF SetModeStep
    <2>10. CASE /\ r.spIn \in ActiveInputs(hal)
                /\ SetModeBody(t, r.mode, r.spOut, r.spIn, s)
      <3>1. hal.in[r.spIn].mPcm
        BY <1>0, <2>1, <2>10 DEF ActiveInputs, Safe, HalSafe, AllPlaying, Playing
      <3>2. \A j \in s.mInputs \ {r.spIn} : ~Open(s.in[j])
        <4>1. \A j \in hal.mInputs \ {r.spIn} : ~Open(hal.in[j])
          BY <2>1, <2>5, <3>1 DEF Safe, HalSafe, OneCapture, Open
        <4> QED
          BY <2>2, <2>5, <4>1 DEF Unheard, Quiet, InQuiet
      <3>3. TurnsBy(t, s, FALSE)
        BY <1>0, <1>01, <2>1, <2>5, <2>10, <3>2, SetModeBodyTurns
      <3> QED
        BY <2>6, <2>7, <3>3 DEF SetModeStep
    <2> QED
      BY <2>3, <2>8, <2>9, <2>10
  <1> QED
    BY <1>1, <1>2, <1>3

-----------------------------------------------------------------------------
(* The actions that change which streams there are, their device or the mute *)
(* of the microphone.  From s to a the routes stay right, those of playback  *)
(* if P; the wake lock stays right.                                          *)
Rights(s, a, P) ==
  CallMode(s) => /\ CallMode(a)
                 /\ \A V : MicFollows(s, V) => MicFollows(a, V)
                 /\ P /\ OutFollows(s) => OutFollows(a)

Dims(s, a) == \A b \in BOOLEAN : Wake(s, b) => Wake(a, b)

LEMMA RightsTrans ==
  ASSUME NEW s, NEW a, NEW P \in BOOLEAN
  PROVE  /\ Follows(s, a) => Rights(s, a, P)
         /\ Turns(s, a, P) => Rights(s, a, P)
         /\ Naps(s, a) => Dims(s, a)
  <1>1. Follows(s, a) => Rights(s, a, P)
    BY DEF Follows, Rights, SameMode, Keeps, SameSwitch, CallMode
  <1> QED
    BY <1>1 DEF Turns, Rights, Naps, Dims

LEMMA OpenOutRoutes ==
  ASSUME TypeOK, Safe, NEW t \in Threads, NEW d \in OutDevices, OpenOutputStream(t, d)
  PROVE  /\ Rights(hal, hal', TRUE) /\ Dims(hal, hal') /\ hal.mOutput = None
         /\ \A p \in OutStreams :
              hal'.out[p].alive => hal.out[p].alive \/ p = hal'.mOutput
  <1>1. PICK o \in OutStreams :
          /\ ~hal.out[o].alive
          /\ hal' = [hal EXCEPT !.mOutput = o,
                       !.out[o] = [NoOut EXCEPT !.alive = TRUE, !.mDevices = d]]
    BY DEF OpenOutputStream
  <1> DEFINE q == [NoOut EXCEPT !.alive = TRUE, !.mDevices = d]
  <1>2. hal \in HalState /\ hal.mOutput = None
    BY DEF TypeOK, OpenOutputStream
  <1>3. q.mStandby /\ ~Open(q)
    BY DEF NoOut, Open
  <1>4. hal' = [hal EXCEPT !.mOutput = o, !.out[o] = q]
    BY <1>1
  <1> HIDE DEF q
  <1>5. /\ hal'.mOutput = o /\ hal'.mInputs = hal.mInputs /\ hal'.in = hal.in
        /\ hal'.mMode = hal.mMode /\ hal'.mInCallAudioMode = hal.mInCallAudioMode
        /\ hal'.mMicMute = hal.mMicMute /\ hal'.memoPath = hal.memoPath
        /\ hal'.wakeLock = hal.wakeLock
        /\ \A p \in OutStreams : hal'.out[p] = IF p = o THEN q ELSE hal.out[p]
    BY <1>2, <1>4 DEF HalState
  <1>6. Rights(hal, hal', TRUE)
    BY <1>3, <1>5 DEF Rights, CallMode, MicFollows, OutFollows
  <1>7. hal.out[o].mStandby
    BY <1>1 DEF Safe, HalSafe, AllPlaying, Playing
  <1>8. \A p \in OutStreams : hal'.out[p].mStandby <=> hal.out[p].mStandby
    BY <1>2, <1>3, <1>5, <1>7, StreamFields
  <1>9. Dims(hal, hal')
    BY <1>5, <1>8 DEF Dims, Wake, Lit
  <1> QED
    BY <1>2, <1>5, <1>6, <1>9

LEMMA CloseOutRoutes ==
  ASSUME TypeOK, NEW t \in Threads, CloseOutputStream(t)
  PROVE  /\ Rights(hal, hal', TRUE) /\ Naps(hal, hal')
         /\ hal'.mInputs = hal.mInputs
         /\ Goes(t) /\ th'[t].pc # "write.in"
  <1> DEFINE s == [hal EXCEPT !.mOutput = None]
  <1>1. hal' = s
    BY DEF CloseOutputStream, Leave
  <1>2. /\ s.mOutput = None /\ s.mInputs = hal.mInputs /\ s.in = hal.in
        /\ s.mMode = hal.mMode /\ s.mInCallAudioMode = hal.mInCallAudioMode
        /\ s.mMicMute = hal.mMicMute /\ s.memoPath = hal.memoPath
        /\ s.wakeLock = hal.wakeLock /\ s.out = hal.out
    BY DEF TypeOK, HalState
  <1>3. s \in HalState
    BY DEF TypeOK, HalState
  <1>4. \/ Leave(t, hal.mOutput, None, s)
        \/ \E i : Go(t, [Idle EXCEPT !.pc = "inStandby", !.victim = i,
                                     !.spOut = hal.mOutput, !.spIn = i])
    BY DEF CloseOutputStream
  <1> HIDE DEF s
  <1>5. Rights(hal, s, TRUE)
    BY <1>2 DEF Rights, CallMode, MicFollows, OutFollows
  <1>6. Naps(hal, s)
    BY <1>2, AwakeNaps DEF Awake
  <1>7. Goes(t) /\ th'[t].pc # "write.in"
    <2>1. CASE Leave(t, hal.mOutput, None, s)
      BY <1>3, <2>1, LeaveMoves DEF Moves
    <2>2. ASSUME NEW i, Go(t, [Idle EXCEPT !.pc = "inStandby", !.victim = i,
                                           !.spOut = hal.mOutput, !.spIn = i])
          PROVE  Goes(t) /\ th'[t].pc # "write.in"
      <3> DEFINE q == [Idle EXCEPT !.pc = "inStandby", !.victim = i,
                                   !.spOut = hal.mOutput, !.spIn = i]
      <3>1. Go(t, q) /\ q.pc = "inStandby"
        BY <2>2 DEF Idle
      <3> HIDE DEF q
      <3> QED
        BY <3>1, GoGoes
    <2> QED
      BY <1>4, <2>1, <2>2
  <1> QED
    BY <1>1, <1>2, <1>5, <1>6, <1>7

LEMMA OutSetRoutes ==
  ASSUME TypeOK, NEW t \in Threads, NEW d \in OutDevices, OutSetParameters(t, d)
  PROVE  /\ Rights(hal, hal', TRUE) /\ Naps(hal, hal') /\ th' = th
         /\ hal'.mOutput = hal.mOutput /\ hal'.mInputs = hal.mInputs
  <1> DEFINE o == hal.mOutput
             s == [hal EXCEPT !.out[o].mDevices = d]
  <1>0. hal \in HalState /\ hal.mOutput \in OutStreams \cup {None}
    BY HalFields DEF TypeOK
  <1>1. /\ o \in OutStreams /\ d \in AllOutDevices /\ UNCHANGED th
        /\ hal' = IF hal.mMode = "IN_CALL" THEN s ELSE OutDoStandby(s, o)
    BY <1>0, HalAssumption DEF OutSetParameters
  <1>2. PlaybackOnly(hal, s)
    BY <1>0, <1>1, StreamQuiet
  <1> HIDE DEF s
  <1>3. s \in HalState /\ s.mOutput = o /\ Naps(hal, s) /\ s.mInputs = hal.mInputs
    BY <1>2, SideTrans, AwakeNaps DEF PlaybackOnly
  <1>4. CASE hal.mMode = "IN_CALL"
    <2>1. CallMode(hal) => OutFollows(s)
      BY <1>2, <1>4, SideTrans DEF CallMode, OutFollows
    <2> QED
      BY <1>0, <1>1, <1>2, <1>3, <1>4, <2>1, SideFollows, RightsTrans
  <1>5. CASE hal.mMode # "IN_CALL"
    <2> DEFINE a == OutDoStandby(s, o)
    <2>1. hal' = a
      BY <1>1, <1>5
    <2>2. Quiet(s, a) /\ Naps(s, a) /\ Off(a.out[o])
      BY <1>1, <1>3, OutDoStandbyQuiet, StandbyGentle DEF Gentle
    <2> HIDE DEF a
    <2>4. /\ SameMode(hal, a) /\ InQuiet(hal, a) /\ a.mOutput = o
          /\ a.mInputs = hal.mInputs
      <3>1. SameMode(hal, s) /\ InQuiet(hal, s) /\ SameMode(s, a) /\ InQuiet(s, a)
        BY <1>2, <2>2 DEF PlaybackOnly, Quiet
      <3>2. SameMode(hal, a) /\ InQuiet(hal, a)
        BY <3>1, QuietTrans DEF InQuiet
      <3> QED
        BY <3>2 DEF SameMode, Keeps, Still
    <2>5. OutFollows(a)
      BY <1>1, <2>2, <2>4 DEF OutFollows, Off, Open
    <2>6. CallMode(hal) => CallMode(a)
      BY <2>4 DEF SameMode, Keeps, SameSwitch, CallMode
    <2>7. Rights(hal, a, TRUE)
      BY <1>0, <2>4, <2>5, <2>6, MicQuiet DEF Rights
    <2>8. Naps(hal, a)
      BY <1>3, <2>2, NapsTrans
    <2>9. hal'.mOutput = hal.mOutput /\ hal'.mInputs = hal.mInputs
      BY <2>1, <2>4
    <2> QED
      BY <1>1, <2>1, <2>7, <2>8, <2>9
  <1> QED
    BY <1>4, <1>5

LEMMA OpenInRoutes ==
  ASSUME TypeOK, Safe, NEW t \in Threads, NEW d \in InDevices, OpenInputStream(t, d)
  PROVE  Rights(hal, hal', TRUE) /\ Naps(hal, hal') /\ hal'.mOutput = hal.mOutput
  <1>1. PICK i \in InStreams :
          /\ ~hal.in[i].alive
          /\ hal' = [hal EXCEPT !.mInputs = @ \cup {i},
                       !.in[i] = [NoIn EXCEPT !.alive = TRUE, !.mDevices = d]]
    BY DEF OpenInputStream
  <1> DEFINE q == [NoIn EXCEPT !.alive = TRUE, !.mDevices = d]
  <1>2. hal \in HalState /\ hal.mInputs \subseteq InStreams
    BY HalFields DEF TypeOK
  <1>3. ~Open(q)
    BY DEF NoIn, Open
  <1>4. hal' = [hal EXCEPT !.mInputs = @ \cup {i}, !.in[i] = q]
    BY <1>1
  <1> HIDE DEF q
  <1>5. /\ hal'.mOutput = hal.mOutput /\ hal'.mInputs = hal.mInputs \cup {i}
        /\ hal'.out = hal.out
        /\ hal'.mMode = hal.mMode /\ hal'.mInCallAudioMode = hal.mInCallAudioMode
        /\ hal'.mMicMute = hal.mMicMute /\ hal'.memoPath = hal.memoPath
        /\ hal'.playbackPath = hal.playbackPath /\ hal'.wakeLock = hal.wakeLock
        /\ \A p \in InStreams : hal'.in[p] = IF p = i THEN q ELSE hal.in[p]
    BY <1>2, <1>4 DEF HalState
  <1>6. ASSUME NEW V, MicFollows(hal, V) PROVE MicFollows(hal', V)
    BY <1>2, <1>3, <1>5, <1>6 DEF MicFollows
  <1>7. Rights(hal, hal', TRUE)
    BY <1>5, <1>6 DEF Rights, CallMode, OutFollows
  <1> QED
    BY <1>5, <1>7, AwakeNaps DEF Awake

LEMMA CloseInRoutes ==
  ASSUME TypeOK, NEW t \in Threads, NEW i \in InStreams, CloseInputStream(t, i)
  PROVE  /\ Rights(hal, hal', TRUE) /\ Naps(hal, hal')
         /\ hal'.mOutput = hal.mOutput /\ hal'.mInputs \subseteq hal.mInputs
         /\ Goes(t) /\ th'[t].pc # "write.in"
  <1> DEFINE s == [hal EXCEPT !.mInputs = @ \ {i}]
  <1>1. Leave(t, None, i, s)
    BY DEF CloseInputStream
  <1>2. /\ s.mOutput = hal.mOutput /\ s.mInputs \subseteq hal.mInputs /\ s.in = hal.in
        /\ s.mMode = hal.mMode /\ s.mInCallAudioMode = hal.mInCallAudioMode
        /\ s.mMicMute = hal.mMicMute /\ s.memoPath = hal.memoPath
        /\ s.playbackPath = hal.playbackPath
        /\ s.wakeLock = hal.wakeLock /\ s.out = hal.out
    BY DEF TypeOK, HalState
  <1>3. s \in HalState
    BY DEF TypeOK, HalState
  <1> HIDE DEF s
  <1>4. Rights(hal, s, TRUE)
    BY <1>2 DEF Rights, CallMode, MicFollows, OutFollows
  <1>5. Naps(hal, s)
    BY <1>2, AwakeNaps DEF Awake
  <1>6. hal' = s /\ Goes(t) /\ th'[t].pc # "write.in"
    BY <1>1, <1>3, LeaveMoves DEF Leave, Moves
  <1> QED
    BY <1>2, <1>4, <1>5, <1>6

LEMMA InSetRoutes ==
  ASSUME TypeOK, Safe, NEW t \in Threads, NEW i \in InStreams, NEW d \in InDevices,
         InSetParameters(t, i, d)
  PROVE  /\ Rights(hal, hal', TRUE) /\ Naps(hal, hal')
         /\ hal'.mOutput = hal.mOutput /\ hal'.mInputs = hal.mInputs
         /\ Goes(t) /\ th'[t].pc # "write.in"
  <1> DEFINE s == [hal EXCEPT !.in[i].mDevices = d]
             q == [Idle EXCEPT !.obj = i, !.victim = i]
             a == InDoStandby(s, i)
  <1>0. hal \in HalState /\ NoEchoRefs(hal)
    BY SafeParts
  <1>1. /\ d \in AllInDevices /\ th[t].pc = "idle"
        /\ IF hal.mMode = "IN_CALL" THEN hal' = s /\ UNCHANGED <<own, th>>
           ELSE InStandbyIn(t, {i}, q, s)
    BY HalAssumption DEF InSetParameters, Calling
  <1>2. /\ CaptureOnly(hal, s) /\ s.memoPath = hal.memoPath
        /\ s.mMicMute = hal.mMicMute
        /\ \A j \in InStreams \ {i} : s.in[j] = hal.in[j]
    BY <1>0, <1>1, StreamQuiet
  <1>3. s.in[i].mEchoReference = None
    BY <1>0 DEF NoEchoRefs, HalState, InState
  <1>4. q \in ThreadState
    BY IdleType, ThreadAssign, Names
  <1>5. HasPointers(q) /\ q.victim = i /\ q.ret = "return"
    BY DEF HasPointers, Idle
  <1> HIDE DEF s, q
  <1>6. /\ s \in HalState /\ Naps(hal, s) /\ s.mOutput = hal.mOutput
        /\ s.mInputs = hal.mInputs /\ hal.mInputs \subseteq InStreams
        /\ s.mInCallAudioMode <=> hal.mInCallAudioMode
    BY <1>0, <1>2, SideTrans, AwakeNaps, HalFields DEF CaptureOnly
  <1>7. CASE hal.mMode = "IN_CALL"
    <2>1. CallMode(hal) => \A V : MicFollows(hal, V) => MicFollows(s, V)
      BY <1>6, <1>7 DEF CallMode, MicFollows
    <2>2. Follows(hal, s)
      BY <1>0, <1>2, <2>1, SideFollows
    <2> QED
      BY <1>1, <1>6, <1>7, <2>2, RightsTrans DEF Goes
  <1>8. CASE hal.mMode # "IN_CALL"
    <2>1. InStandbyIn(t, {i}, q, s)
      BY <1>1, <1>8
    <2>2. Moves(t, s)
      BY <1>4, <1>5, <1>6, <2>1, InStandbyInMoves
    <2>3. Leave(t, q.spOut, q.spIn, a)
      BY <1>3, <1>5, <2>1 DEF InStandbyIn, Resume
    <2>4. Unheard(s, a) /\ ~a.in[i].mPcm
      BY <1>6, InDoStandbyUnheard
    <2>5. hal' = a
      BY <2>3 DEF Leave
    <2> HIDE DEF a
    <2>6. CaptureOnly(hal, a)
      BY <1>2, <2>4, SideTrans
    <2>7. /\ a.mInputs = hal.mInputs /\ a.mOutput = hal.mOutput
          /\ a.mInCallAudioMode <=> hal.mInCallAudioMode
      BY <2>6, SideTrans
    <2>8. ASSUME NEW V, MicFollows(hal, V) PROVE MicFollows(a, V)
      <3>1. ASSUME ~hal.mInCallAudioMode, NEW j \in hal.mInputs \ V, Open(a.in[j])
            PROVE  a.memoPath = InputRoute(a.mMicMute, a.in[j].mDevices)
        <4>1. j \in InStreams /\ j # i
          BY <1>6, <2>4, <3>1 DEF Open
        <4>2. /\ s.in[j] = hal.in[j] /\ Open(s.in[j])
              /\ a.in[j].mDevices = hal.in[j].mDevices
              /\ a.memoPath = hal.memoPath /\ a.mMicMute = hal.mMicMute
          BY <1>2, <2>4, <3>1, <4>1 DEF Unheard, Quiet, InQuiet
        <4> QED
          BY <2>8, <3>1, <4>2 DEF MicFollows
      <3> QED
        BY <2>7, <3>1 DEF MicFollows
    <2>9. Follows(hal, a)
      BY <1>0, <2>6, <2>8, SideFollows
    <2>10. Naps(hal, a)
      BY <2>6, AwakeNaps DEF CaptureOnly
    <2> QED
      BY <2>2, <2>5, <2>7, <2>9, <2>10, RightsTrans DEF Moves
  <1> QED
    BY <1>7, <1>8

-----------------------------------------------------------------------------
(* The inputs that a thread is about to put in standby may have the route    *)
(* from before setMicMute.                                                   *)
Victims == {th[u].victim : u \in {v \in Threads : th[v].pc = "inStandby"}}

(* A step of thread t keeps the routes right; the last wait of setMode may   *)
(* leave the route of playback wrong, as the output is not its own then.     *)
RoutesKept(t) ==
  CallMode(hal) => /\ CallMode(hal')
                   /\ MicFollows(hal, Victims) => MicFollows(hal', Victims')
                   /\ th[t].pc # "setMode.in" /\ OutFollows(hal) => OutFollows(hal')

LEMMA MicMore ==
  ASSUME NEW s, NEW V, NEW W, V \subseteq W, MicFollows(s, V)
  PROVE  MicFollows(s, W)
  BY DEF MicFollows

LEMMA VictimsStay ==
  ASSUME NEW t \in Threads, \A u \in Threads \ {t} : th'[u] = th[u]
  PROVE  /\ Victims \ {th[t].victim} \subseteq Victims'
         /\ th[t].pc # "inStandby" => Victims \subseteq Victims'
         /\ th'[t].pc = "inStandby" => th'[t].victim \in Victims'
  <1>1. ASSUME NEW u \in Threads, th[u].pc = "inStandby", u # t
        PROVE  th[u].victim \in Victims'
    <2>1. th'[u].pc = "inStandby" /\ th'[u].victim = th[u].victim
      BY <1>1
    <2> QED
      BY <2>1 DEF Victims
  <1>2. th'[t].pc = "inStandby" => th'[t].victim \in Victims'
    BY DEF Victims
  <1>3. Victims \ {th[t].victim} \subseteq Victims'
    <2> SUFFICES ASSUME NEW x \in Victims, x # th[t].victim PROVE x \in Victims'
      OBVIOUS
    <2>1. PICK u \in Threads : th[u].pc = "inStandby" /\ x = th[u].victim
      BY DEF Victims
    <2> QED
      BY <1>1, <2>1
  <1>4. ASSUME th[t].pc # "inStandby" PROVE Victims \subseteq Victims'
    <2> SUFFICES ASSUME NEW x \in Victims PROVE x \in Victims'
      OBVIOUS
    <2>1. PICK u \in Threads : th[u].pc = "inStandby" /\ x = th[u].victim
      BY DEF Victims
    <2> QED
      BY <1>1, <1>4, <2>1
  <1> QED
    BY <1>2, <1>3, <1>4

LEMMA RightsKept ==
  ASSUME NEW t \in Threads, \A u \in Threads \ {t} : th'[u] = th[u],
         th[t].pc # "inStandby", NEW P \in BOOLEAN,
         th[t].pc # "setMode.in" => P, Rights(hal, hal', P)
  PROVE  RoutesKept(t)
  <1>1. Victims \subseteq Victims'
    BY VictimsStay
  <1>2. ASSUME CallMode(hal), MicFollows(hal, Victims)
        PROVE  MicFollows(hal', Victims')
    <2>1. MicFollows(hal', Victims)
      BY <1>2 DEF Rights
    <2> QED
      BY <1>1, <2>1, MicMore
  <1> QED
    BY <1>2 DEF Rights, RoutesKept

LEMMA GoesKept ==
  ASSUME NEW t \in Threads, Goes(t), th[t].pc # "inStandby", Follows(hal, hal')
  PROVE  RoutesKept(t)
  <1>1. \A u \in Threads \ {t} : th'[u] = th[u]
    BY DEF Goes
  <1> QED
    BY <1>1, RightsTrans, RightsKept

(* setMicMute puts the input that captures in standby.                       *)
LEMMA MicMuteKept ==
  ASSUME TypeOK, Safe, NEW t \in Threads, SetMicMute(t)
  PROVE  /\ RoutesKept(t) /\ Naps(hal, hal') /\ Goes(t) /\ th'[t].pc # "write.in"
         /\ hal'.mOutput = hal.mOutput /\ hal'.mInputs = hal.mInputs
  <1> DEFINE s == [hal EXCEPT !.mMicMute = ~@]
  <1>1. /\ hal' = s /\ HwFree /\ th[t].pc = "idle"
        /\ hal \in HalState /\ hal.mInputs \subseteq InStreams
    BY HalFields DEF TypeOK, SetMicMute, Calling
  <1>2. /\ hal'.mOutput = hal.mOutput /\ hal'.mInputs = hal.mInputs
        /\ hal'.in = hal.in /\ hal'.out = hal.out /\ hal'.mMode = hal.mMode
        /\ hal'.mInCallAudioMode = hal.mInCallAudioMode
        /\ hal'.playbackPath = hal.playbackPath /\ hal'.wakeLock = hal.wakeLock
    BY <1>1 DEF HalState
  <1> HIDE DEF s
  <1>3. /\ CallMode(hal) => CallMode(hal')
        /\ OutFollows(hal) => OutFollows(hal')
        /\ Naps(hal, hal')
    BY <1>2, AwakeNaps DEF CallMode, OutFollows, Awake
  <1>4. CASE hal.mMode = "IN_CALL"
    <2>1. CallMode(hal) => \A V : MicFollows(hal', V)
      BY <1>2, <1>4 DEF CallMode, MicFollows
    <2>2. UNCHANGED th
      BY <1>4 DEF SetMicMute
    <2> QED
      BY <1>1, <1>2, <1>3, <2>1, <2>2 DEF RoutesKept, Goes
  <1>5. ASSUME NEW V, \A j \in hal.mInputs \ V : hal.in[j].mStandby \/ ~hal.in[j].mPcm
        PROVE  MicFollows(hal', V)
    <2>1. Rested(hal)
      BY <1>1, SafeRested
    <2> QED
      BY <1>1, <1>2, <1>5, <2>1 DEF MicFollows, Rested, Open
  <1>6. CASE hal.mMode # "IN_CALL" /\ ActiveInputs(hal) = {}
    <2>1. \A V : MicFollows(hal', V)
      BY <1>5, <1>6 DEF ActiveInputs
    <2>2. UNCHANGED th
      BY <1>6 DEF SetMicMute
    <2> QED
      BY <1>1, <1>2, <1>3, <2>1, <2>2 DEF RoutesKept, Goes
  <1>7. CASE hal.mMode # "IN_CALL" /\ ActiveInputs(hal) # {}
    <2>1. PICK i \in ActiveInputs(hal) :
            Go(t, [Idle EXCEPT !.pc = "inStandby", !.victim = i, !.spIn = i])
      BY <1>7 DEF SetMicMute
    <2> DEFINE q == [Idle EXCEPT !.pc = "inStandby", !.victim = i, !.spIn = i]
    <2>2. Go(t, q) /\ q.pc = "inStandby" /\ q.victim = i
      BY <2>1 DEF Idle
    <2> HIDE DEF q
    <2>3. Goes(t) /\ th'[t] = q
      BY <2>2, GoGoes
    <2>4. i \in Victims'
      <3>1. \A u \in Threads \ {t} : th'[u] = th[u]
        BY <2>3 DEF Goes
      <3> QED
        BY <2>2, <2>3, <3>1, VictimsStay
    <2>5. i \in InStreams /\ hal.in[i].mPcm
      BY <1>1 DEF ActiveInputs, Safe, HalSafe, AllPlaying, Playing
    <2>6. \A j \in hal.mInputs \ Victims' : ~hal.in[j].mPcm
      BY <1>1, <2>4, <2>5 DEF Safe, HalSafe, OneCapture
    <2>7. MicFollows(hal', Victims')
      BY <1>5, <2>6
    <2> QED
      BY <1>1, <1>2, <1>3, <2>2, <2>3, <2>7 DEF RoutesKept
  <1> QED
    BY <1>4, <1>6, <1>7

(* The input that was to go in standby has.                                  *)
LEMMA InStandbyLockKept ==
  ASSUME TypeOK, Safe, NEW t \in Threads, InStandbyLock(t)
  PROVE  RoutesKept(t)
  <1> DEFINE r == th[t]
             i == r.victim
             a == InDoStandby(hal, i)
  <1>0. /\ hal \in HalState /\ NoEchoRefs(hal) /\ r \in ThreadState /\ HasPointers(r)
        /\ r.ret \in {"return", "free"} /\ Moves(t, hal)
    BY SafeParts, InStandbyLockMoves DEF Safe, Form
  <1>1. i \in InStreams /\ InStandbyIn(t, {i}, r, hal)
    BY <1>0 DEF InStandbyLock, HasPointers
  <1>2. hal.in[i].mEchoReference = None
    BY <1>0, <1>1 DEF NoEchoRefs
  <1>3. Resume(t, r, a)
    BY <1>1, <1>2 DEF InStandbyIn
  <1>4. hal' = a \/ hal' = Freed(a, i)
    BY <1>0, <1>3 DEF Resume, Leave
  <1>5. a \in HalState /\ ~a.in[i].mPcm
    BY <1>0, <1>1, InDoStandbyUnheard, UnheardTrans
  <1> HIDE DEF a
  <1>6. ~Open(hal'.in[i])
    <2>1. i \notin OutStreams
      BY <1>1, HalAssumption
    <2>2. ~Freed(a, i).in[i].mPcm
      BY <1>1, <1>5, <2>1 DEF Freed, HalState, NoIn
    <2> QED
      BY <1>4, <1>5, <2>2 DEF Open
  <1>7. Follows(hal, hal') /\ \A u \in Threads \ {t} : th'[u] = th[u]
    BY <1>0 DEF Moves, Gentle, Goes
  <1>8. ASSUME CallMode(hal), MicFollows(hal, Victims)
        PROVE  MicFollows(hal', Victims')
    <2>1. MicFollows(hal', Victims)
      BY <1>7, <1>8 DEF Follows
    <2>2. \A j \in hal'.mInputs \ Victims' : j = i \/ j \in hal'.mInputs \ Victims
      BY <1>7, VictimsStay
    <2> QED
      BY <1>6, <2>1, <2>2 DEF MicFollows
  <1>9. CallMode(hal) => /\ CallMode(hal')
                         /\ OutFollows(hal) => OutFollows(hal')
    BY <1>7, RightsTrans DEF Rights
  <1> QED
    BY <1>8, <1>9 DEF RoutesKept

LEMMA SetModeKept ==
  ASSUME NEW t \in Threads, hal \in HalState, SetModeStep(t), th[t].pc # "inStandby"
  PROVE  RoutesKept(t)
  <1> DEFINE P == th[t].pc # "setMode.in"
  <1>1. Rights(hal, hal', P) /\ \A u \in Threads \ {t} : th'[u] = th[u]
    <2>1. CASE TurnsBy(t, hal, P)
      BY <2>1, RightsTrans DEF TurnsBy, Goes
    <2>2. ASSUME NEW p, WaitsAt(t, hal, p)
          PROVE  Rights(hal, hal', P) /\ \A u \in Threads \ {t} : th'[u] = th[u]
      <3>1. Follows(hal, hal')
        BY <2>2, UnheardTrans DEF WaitsAt
      <3> QED
        BY <2>2, <3>1, RightsTrans DEF WaitsAt
    <2> QED
      BY <2>1, <2>2 DEF SetModeStep
  <1> QED
    BY <1>1, RightsKept

LEMMA NextKept ==
  ASSUME NoEcho, TypeOK, Safe, Safe', NEW t \in Threads,
         OutCalls(t) \/ InCalls(t) \/ HwCalls(t) \/ Advance(t)
  PROVE  RoutesKept(t)
  <1>0. hal \in HalState
    BY DEF TypeOK
  <1>1. CASE OutCalls(t)
    <2>0. th[t].pc = "idle"
      BY <1>1 DEF OutCalls, OpenOutputStream, OutSetParameters, CloseOutputStream,
                  OutStandby, WriteActive, WriteExitStandby, Calling
    <2>1. ASSUME NEW d \in OutDevices, OpenOutputStream(t, d) PROVE RoutesKept(t)
      BY <2>0, <2>1, OpenOutRoutes, RightsKept DEF OpenOutputStream
    <2>2. ASSUME NEW d \in OutDevices, OutSetParameters(t, d) PROVE RoutesKept(t)
      BY <2>0, <2>2, OutSetRoutes, RightsKept
    <2>3. CASE CloseOutputStream(t)
      BY <2>0, <2>3, CloseOutRoutes, RightsKept DEF Goes
    <2>4. CASE OutStandby(t) \/ WriteActive(t)
      BY <2>0, <2>4, OutMoves, GoesKept DEF Moves, Gentle
    <2>5. CASE WriteExitStandby(t)
      BY <2>0, <2>5, WriteStarts, GoesKept
    <2> QED
      BY <1>1, <2>1, <2>2, <2>3, <2>4, <2>5 DEF OutCalls
  <1>2. CASE InCalls(t)
    <2>1. ASSUME NEW d \in InDevices, OpenInputStream(t, d) PROVE RoutesKept(t)
      BY <2>1, OpenInRoutes, RightsKept DEF OpenInputStream, Calling
    <2>2. ASSUME NEW d \in InDevices, NEW i \in InStreams, InSetParameters(t, i, d)
          PROVE  RoutesKept(t)
      BY <2>2, InSetRoutes, RightsKept DEF InSetParameters, Calling, Goes
    <2>3. ASSUME NEW i \in InStreams, CloseInputStream(t, i) PROVE RoutesKept(t)
      BY <2>3, CloseInRoutes, RightsKept DEF CloseInputStream, Calling, Goes
    <2>4. ASSUME NEW i \in InStreams,
                 \/ InStandby(t, i) \/ InSetSource(t, i)
                 \/ ReadActive(t, i) \/ ReadExitStandby(t, i)
          PROVE  RoutesKept(t)
      <3>1. th[t].pc = "idle"
        BY <2>4 DEF InStandby, InSetSource, ReadActive, ReadExitStandby, ReaderOf,
                    Calling
      <3> QED
        BY <2>4, <3>1, InMoves, GoesKept DEF Moves, Gentle
    <2> QED
      BY <1>2, <2>1, <2>2, <2>3, <2>4, NoEffects DEF InCalls
  <1>3. CASE HwCalls(t)
    <2>1. ASSUME NEW m \in Modes, SetMode(t, m) PROVE RoutesKept(t)
      BY <1>0, <2>1, SetModeTurns, SetModeKept DEF SetMode, Calling
    <2>2. CASE EnableFMRadio(t) \/ DisableFMRadio(t)
      <3>1. th[t].pc = "idle"
        BY <2>2 DEF EnableFMRadio, DisableFMRadio, Calling
      <3> QED
        BY <2>2, <3>1, FmMoves, GoesKept DEF Moves, Gentle
    <2> QED
      BY <1>3, <2>1, <2>2, MicMuteKept DEF HwCalls
  <1>4. CASE Advance(t)
    <2>1. ASSUME th[t].pc # "inStandby", Follows(hal, hal'), Goes(t)
          PROVE  RoutesKept(t)
      BY <2>1, GoesKept
    <2>2. CASE WriteLockIn(t)
      BY <2>1, <2>2, WriteLockInPlays DEF Plays, WriteLockIn
    <2>3. CASE OutStandbyLock(t)
      BY <2>1, <2>3, OutStandbyLockMoves DEF OutStandbyLock
    <2>4. CASE ReadLockOut(t) \/ ReadLockIn(t)
      <3>1. th[t].pc # "inStandby"
        BY <2>4 DEF ReadLockOut, ReadLockIn
      <3> QED
        BY <2>1, <2>4, <3>1, ReadLocksMove DEF Moves, Gentle
    <2>5. CASE EchoLockOut(t) \/ EchoLockIn(t)
      BY <2>5, SafeParts DEF EchoLockOut, EchoLockIn
    <2>6. CASE SetModeLockOut(t) \/ SetModeLockIn(t)
      <3>1. th[t].pc # "inStandby"
        BY <2>6 DEF SetModeLockOut, SetModeLockIn
      <3> QED
        BY <1>0, <2>6, <3>1, SetModeTurns, SetModeKept
    <2>7. ASSUME NEW ok \in BOOLEAN, WriteDone(t, ok) \/ ReadDone(t, ok)
          PROVE  RoutesKept(t)
      <3>1. th[t].pc # "inStandby"
        BY <2>7 DEF WriteDone, ReadDone
      <3> QED
        BY <2>1, <2>7, <3>1, DoneMoves DEF Moves, Gentle
    <2> QED
      BY <1>4, <2>2, <2>3, <2>4, <2>5, <2>6, <2>7, InStandbyLockKept DEF Advance
  <1> QED
    BY <1>1, <1>2, <1>3, <1>4

(* The route of the microphone.                                              *)
MicInv == CallMode(hal) /\ MicFollows(hal, Victims)

(* For any streams, threads and refusals of the drivers, where no echo is    *)
(* cancelled and a call and FM get the devices they ask for: outside a call  *)
(* an input that captures is routed to its device or, while the microphone   *)
(* is muted, to nothing, unless setMicMute has not put it in standby yet.    *)
THEOREM MuteReachesMic == ASSUME Assumed PROVE Spec => []MicMuteHonoured
  <1>1. Init => MicInv
    BY DEF Init, MicInv, CallMode, MicFollows
  <1>2. TypeOK /\ Safe /\ Safe' /\ MicInv /\ [Next]_vars => MicInv'
    <2> SUFFICES ASSUME TypeOK, Safe, Safe', MicInv, [Next]_vars PROVE MicInv'
      OBVIOUS
    <2>1. CASE UNCHANGED vars
      BY <2>1 DEF vars, MicInv, CallMode, MicFollows, Victims
    <2>2. CASE Next
      <3>1. PICK t \in Threads : OutCalls(t) \/ InCalls(t) \/ HwCalls(t) \/ Advance(t)
        BY <2>2 DEF Next
      <3>2. RoutesKept(t)
        BY <3>1, NextKept DEF Assumed
      <3> QED
        BY <3>2 DEF RoutesKept, MicInv, CallMode, MicFollows
    <2> QED
      BY <2>1, <2>2
  <1>3. TypeOK /\ Safe /\ MicInv => MicMuteHonoured
    <2> SUFFICES ASSUME TypeOK, Safe, MicInv, NEW i \in hal.mInputs,
                        ~hal.mInCallAudioMode, ~hal.in[i].mStandby, hal.in[i].mMixer,
                        \A t \in Threads : th[t].victim # i
                 PROVE  hal.memoPath = InputRoute(hal.mMicMute, hal.in[i].mDevices)
      BY DEF MicMuteHonoured
    <2>1. i \in InStreams
      BY HalFields DEF TypeOK
    <2>2. hal.in[i].mPcm
      BY <2>1 DEF Safe, HalSafe, AllPlaying, Playing
    <2>3. i \notin Victims
      BY DEF Victims
    <2> QED
      BY <2>2, <2>3 DEF MicInv, MicFollows, Open
  <1> QED
    BY <1>1, <1>2, <1>3, SafeAlways, TypeCorrect, PTL DEF Spec

-----------------------------------------------------------------------------
(* Where nobody records while the mode is set, setMode never waits for an    *)
(* input, and so knows the output when the call route is switched.           *)
SetModeWaits == {"setMode.out", "setMode.in"}

InMode(u) == th[u].pc \in SetModeWaits \/ "setMode" \in Calls[u]

Recorded == \E u \in Threads : "openIn" \in Calls[u]

WaitsKept(t) ==
  /\ hal'.mInputs \subseteq hal.mInputs \/ Recorded
  /\ \A u \in Threads :
       /\ th'[u].pc \in SetModeWaits => InMode(u)
       /\ th'[u].pc = "setMode.in" =>
            th[u].pc = "setMode.in" \/ (hal.mInputs # {} /\ InMode(u))

LEMMA GoesWaits ==
  ASSUME NEW t \in Threads, Goes(t), hal'.mInputs \subseteq hal.mInputs \/ Recorded
  PROVE  WaitsKept(t)
  BY DEF Goes, WaitsKept, InMode, SetModeWaits

LEMMA MovesWaits ==
  ASSUME TypeOK, NEW t \in Threads, Goes(t), Follows(hal, hal')
  PROVE  WaitsKept(t)
  <1>1. hal'.mInputs = hal.mInputs
    BY DEF Follows, SameMode, Keeps, Still
  <1> QED
    BY <1>1, GoesWaits

LEMMA SetModeWait ==
  ASSUME TypeOK, NEW t \in Threads, SetModeStep(t), InMode(t)
  PROVE  WaitsKept(t)
  <1>1. CASE TurnsBy(t, hal, th[t].pc # "setMode.in")
    BY <1>1, GoesWaits DEF TurnsBy, Turns, SameMembers
  <1>2. ASSUME NEW p, WaitsAt(t, hal, p), p = "setMode.in" => ActiveInputs(hal) # {}
        PROVE  WaitsKept(t)
    <2>1. hal'.mInputs = hal.mInputs
      BY <1>2, UnheardTrans DEF WaitsAt, TypeOK
    <2>2. ActiveInputs(hal) # {} => hal.mInputs # {}
      BY DEF ActiveInputs
    <2> QED
      BY <1>2, <2>1, <2>2 DEF WaitsAt, WaitsKept, InMode
  <1> QED
    BY <1>1, <1>2 DEF SetModeStep

LEMMA NextWaits ==
  ASSUME NoEcho, TypeOK, Safe, Safe', NEW t \in Threads,
         OutCalls(t) \/ InCalls(t) \/ HwCalls(t) \/ Advance(t)
  PROVE  WaitsKept(t)
  <1>0. ASSUME UNCHANGED th, th[t].pc = "idle" PROVE Goes(t)
    BY <1>0 DEF Goes
  <1>1. CASE OutCalls(t)
    <2>1. ASSUME NEW d \in OutDevices, OpenOutputStream(t, d) PROVE WaitsKept(t)
      <3>1. hal'.mInputs = hal.mInputs
        BY <2>1 DEF OpenOutputStream, TypeOK, HalState
      <3> QED
        BY <1>0, <2>1, <3>1, GoesWaits DEF OpenOutputStream, Calling
    <2>2. ASSUME NEW d \in OutDevices, OutSetParameters(t, d) PROVE WaitsKept(t)
      <3>1. hal'.mInputs = hal.mInputs /\ UNCHANGED th /\ th[t].pc = "idle"
        BY <2>2, OutSetRoutes DEF OutSetParameters, Calling
      <3> QED
        BY <1>0, <3>1, GoesWaits
    <2>3. CASE CloseOutputStream(t)
      BY <2>3, CloseOutRoutes, GoesWaits
    <2>4. CASE OutStandby(t) \/ WriteActive(t)
      BY <2>4, OutMoves, MovesWaits DEF Moves, Gentle
    <2>5. CASE WriteExitStandby(t)
      BY <2>5, WriteStarts, MovesWaits
    <2> QED
      BY <1>1, <2>1, <2>2, <2>3, <2>4, <2>5 DEF OutCalls
  <1>2. CASE InCalls(t)
    <2>1. ASSUME NEW d \in InDevices, OpenInputStream(t, d) PROVE WaitsKept(t)
      BY <1>0, <2>1, GoesWaits DEF OpenInputStream, Calling, Recorded
    <2>2. ASSUME NEW d \in InDevices, NEW i \in InStreams, InSetParameters(t, i, d)
          PROVE  WaitsKept(t)
      BY <2>2, InSetRoutes, GoesWaits
    <2>3. ASSUME NEW i \in InStreams, CloseInputStream(t, i) PROVE WaitsKept(t)
      BY <2>3, CloseInRoutes, GoesWaits
    <2>4. ASSUME NEW i \in InStreams,
                 \/ InStandby(t, i) \/ InSetSource(t, i)
                 \/ ReadActive(t, i) \/ ReadExitStandby(t, i)
          PROVE  WaitsKept(t)
      BY <2>4, InMoves, MovesWaits DEF Moves, Gentle
    <2> QED
      BY <1>2, <2>1, <2>2, <2>3, <2>4, NoEffects DEF InCalls
  <1>3. CASE HwCalls(t)
    <2>1. ASSUME NEW m \in Modes, SetMode(t, m) PROVE WaitsKept(t)
      BY <2>1, SetModeTurns, SetModeWait DEF SetMode, Calling, InMode
    <2>2. CASE EnableFMRadio(t) \/ DisableFMRadio(t)
      BY <2>2, FmMoves, MovesWaits DEF Moves, Gentle
    <2>3. CASE SetMicMute(t)
      BY <2>3, MicMuteKept, GoesWaits
    <2> QED
      BY <1>3, <2>1, <2>2, <2>3 DEF HwCalls
  <1>4. CASE Advance(t)
    <2>1. CASE WriteLockIn(t)
      BY <2>1, WriteLockInPlays, MovesWaits DEF Plays
    <2>2. CASE OutStandbyLock(t)
      BY <2>2, OutStandbyLockMoves, MovesWaits
    <2>3. CASE ReadLockOut(t) \/ ReadLockIn(t)
      BY <2>3, ReadLocksMove, MovesWaits DEF Moves, Gentle
    <2>4. CASE EchoLockOut(t) \/ EchoLockIn(t)
      BY <2>4, SafeParts DEF EchoLockOut, EchoLockIn
    <2>5. CASE SetModeLockOut(t) \/ SetModeLockIn(t)
      <3>1. InMode(t)
        BY <2>5 DEF SetModeLockOut, SetModeLockIn, InMode, SetModeWaits
      <3> QED
        BY <2>5, <3>1, SetModeTurns, SetModeWait
    <2>6. ASSUME NEW ok \in BOOLEAN, WriteDone(t, ok) \/ ReadDone(t, ok)
          PROVE  WaitsKept(t)
      BY <2>6, DoneMoves, MovesWaits DEF Moves, Gentle
    <2>7. CASE InStandbyLock(t)
      BY <2>7, InStandbyLockMoves, MovesWaits DEF Moves, Gentle
    <2> QED
      BY <1>4, <2>1, <2>2, <2>3, <2>4, <2>5, <2>6, <2>7 DEF Advance
  <1> QED
    BY <1>1, <1>2, <1>3, <1>4

(* The route of playback, and who waits in setMode.                          *)
WaitInv ==
  /\ hal.mInputs # {} => Recorded
  /\ \A t \in Threads : /\ th[t].pc \in SetModeWaits => "setMode" \in Calls[t]
                        /\ th[t].pc # "setMode.in"

RouteInv == CallMode(hal) /\ OutFollows(hal) /\ WaitInv

LEMMA RouteAlways == ASSUME Assumed, CaptureApart PROVE Spec => []RouteInv
  <1>1. Init => RouteInv
    <2> SUFFICES ASSUME Init PROVE RouteInv
      OBVIOUS
    <2>1. \A t \in Threads : th[t].pc = "idle"
      BY DEF Init, Idle
    <2>2. hal.mMode = "NORMAL" /\ hal.mOutput = None /\ hal.mInputs = {}
      BY DEF Init
    <2> QED
      BY <2>1, <2>2 DEF RouteInv, CallMode, OutFollows, WaitInv, SetModeWaits
  <1>2. TypeOK /\ Safe /\ Safe' /\ RouteInv /\ [Next]_vars => RouteInv'
    <2> SUFFICES ASSUME TypeOK, Safe, Safe', RouteInv, [Next]_vars PROVE RouteInv'
      OBVIOUS
    <2>1. CASE UNCHANGED vars
      BY <2>1 DEF vars, RouteInv, CallMode, OutFollows, WaitInv
    <2>2. CASE Next
      <3>1. PICK t \in Threads : OutCalls(t) \/ InCalls(t) \/ HwCalls(t) \/ Advance(t)
        BY <2>2 DEF Next
      <3>2. RoutesKept(t) /\ WaitsKept(t)
        BY <3>1, NextKept, NextWaits DEF Assumed
      <3>3. CallMode(hal') /\ OutFollows(hal')
        BY <3>2 DEF RoutesKept, RouteInv, WaitInv
      <3>4. \A u \in Threads : InMode(u) => "setMode" \in Calls[u]
        BY DEF RouteInv, WaitInv, InMode
      <3>5. WaitInv'
        <4>1. hal'.mInputs # {} => Recorded
          BY <3>2 DEF WaitsKept, RouteInv, WaitInv
        <4>2. \A u \in Threads : th'[u].pc \in SetModeWaits => "setMode" \in Calls[u]
          BY <3>2, <3>4 DEF WaitsKept
        <4>3. \A u \in Threads : "setMode" \in Calls[u] => hal.mInputs = {}
          BY DEF RouteInv, WaitInv, CaptureApart, Recorded
        <4>4. \A u \in Threads : th'[u].pc # "setMode.in"
          BY <3>2, <3>4, <4>3 DEF WaitsKept, RouteInv, WaitInv
        <4> QED
          BY <4>1, <4>2, <4>4 DEF WaitInv, Recorded
      <3> QED
        BY <3>3, <3>5 DEF RouteInv, CallMode, OutFollows
    <2> QED
      BY <2>1, <2>2
  <1> QED
    BY <1>1, <1>2, SafeAlways, TypeCorrect, PTL DEF Spec

(* For any streams, threads and refusals of the drivers, where no echo is    *)
(* cancelled, a call and FM get the devices they ask for, and no thread      *)
(* records in a run in which the mode is set: outside a call the output is   *)
(* routed to the device the policy chose last, also after a call it was      *)
(* opened in, and after FM.                                                  *)
THEOREM PlaybackRouted ==
  ASSUME Assumed, CaptureApart PROVE Spec => []RouteFollowsPolicy
  <1>1. TypeOK /\ Safe /\ RouteInv => RouteFollowsPolicy
    <2> SUFFICES ASSUME TypeOK, Safe, RouteInv, hal.mOutput # None,
                        ~hal.mInCallAudioMode, ~hal.out[hal.mOutput].mStandby,
                        hal.out[hal.mOutput].mMixer
                 PROVE  hal.playbackPath = OutputRoute(hal.out[hal.mOutput].mDevices)
      BY DEF RouteFollowsPolicy
    <2>1. hal.mOutput \in OutStreams
      BY HalFields DEF TypeOK
    <2>2. hal.out[hal.mOutput].mPcm
      BY <2>1 DEF Safe, HalSafe, AllPlaying, Playing
    <2> QED
      BY <2>2 DEF RouteInv, OutFollows, Open
  <1> QED
    BY <1>1, SafeAlways, RouteAlways, TypeCorrect, PTL

(* For any streams, threads and refusals of the drivers, where no echo is    *)
(* cancelled, a call and FM get the devices they ask for, and no thread      *)
(* records in a run in which the mode is set: no pcm_write and no pcm_read   *)
(* is under way when the route of a call takes over or ends.                 *)
THEOREM SwitchIsExclusive ==
  ASSUME Assumed, CaptureApart PROVE Spec => CallSwitchExclusive
  <1>1. /\ RouteInv
        /\ [hal'.mInCallAudioMode # hal.mInCallAudioMode
              => \A t \in Threads :
                   /\ th[t].pc # "read.io"
                   /\ th[t].pc = "write.io" =>
                        \E u \in Threads : th[u].pc = "setMode.in"]_vars
        => [hal'.mInCallAudioMode # hal.mInCallAudioMode
              => \A t \in Threads : th[t].pc \notin {"write.io", "read.io"}]_vars
    BY DEF RouteInv, WaitInv
  <1> QED
    BY <1>1, SwitchIsGuarded, RouteAlways, PTL DEF CallSwitchGuarded, CallSwitchExclusive

-----------------------------------------------------------------------------
(* The wake lock.  There is one output: the one the object has or, once it   *)
(* is closed, the one its destructor still has to put in standby.            *)
Writing == \E t \in Threads : th[t].pc = "write.in"

Destroys(t, o) ==
  /\ th[t].pc = "outStandby" /\ th[t].ret = "free" /\ th[t].victim = o
  /\ "closeOut" \in Calls[t]

Lone ==
  /\ \A o, p \in OutStreams : hal.out[o].alive /\ hal.out[p].alive => o = p
  /\ \A o \in OutStreams : hal.out[o].alive /\ o # hal.mOutput =>
       hal.mOutput = None /\ \E t \in Threads : Destroys(t, o)

WakeInv == Wake(hal, Writing) /\ Lone

LEMMA LoneKept ==
  ASSUME NEW t \in Threads, Lone, \A u \in Threads \ {t} : th'[u] = th[u],
         th[t].pc = "outStandby" => th[t].ret # "free",
         SameLives(hal, hal'), hal'.mOutput = hal.mOutput
  PROVE  Lone'
  <1>1. ASSUME NEW u \in Threads, NEW o, Destroys(u, o)
        PROVE  \E v \in Threads : Destroys(v, o)'
    <2>1. u # t
      BY <1>1 DEF Destroys
    <2> QED
      BY <1>1, <2>1 DEF Destroys
  <1> QED
    BY <1>1 DEF Lone, SameLives

LEMMA WakeKept ==
  ASSUME NEW t \in Threads, WakeInv, \A u \in Threads \ {t} : th'[u] = th[u],
         th[t].pc # "write.in", th'[t].pc # "write.in",
         th[t].pc = "outStandby" => th[t].ret # "free",
         SameLives(hal, hal'), Dims(hal, hal'), hal'.mOutput = hal.mOutput
  PROVE  WakeInv'
  <1>1. Writing' <=> Writing
    BY DEF Writing
  <1>2. Wake(hal', Writing)
    <2>1. Writing \in BOOLEAN
      BY DEF Writing
    <2> QED
      BY <2>1 DEF WakeInv, Dims
  <1>3. Wake(hal', Writing')
    BY <1>1, <1>2 DEF Wake
  <1>4. Lone'
    BY LoneKept DEF WakeInv
  <1> QED
    BY <1>3, <1>4 DEF WakeInv, Wake, Lit

LEMMA NapsKept ==
  ASSUME NEW t \in Threads, WakeInv, Goes(t), th'[t].pc # "write.in",
         th[t].pc \notin {"write.in", "outStandby"},
         Naps(hal, hal'), hal'.mOutput = hal.mOutput
  PROVE  WakeInv'
  <1>1. SameLives(hal, hal') /\ Dims(hal, hal')
    BY DEF Naps, Dims
  <1> QED
    BY <1>1, WakeKept DEF Goes

LEMMA MovesKept ==
  ASSUME TypeOK, NEW t \in Threads, WakeInv, Moves(t, hal),
         th[t].pc \notin {"write.in", "outStandby"}
  PROVE  WakeInv'
  <1>1. Naps(hal, hal') /\ hal'.mOutput = hal.mOutput
    BY GentleMeans DEF Moves, Gentle, TypeOK
  <1> QED
    BY <1>1, NapsKept DEF Moves

LEMMA SetModeWakes ==
  ASSUME TypeOK, NEW t \in Threads, WakeInv, SetModeStep(t),
         th[t].pc \notin {"write.in", "outStandby"}
  PROVE  WakeInv'
  <1>1. CASE TurnsBy(t, hal, th[t].pc # "setMode.in")
    BY <1>1, NapsKept DEF TurnsBy, Turns, SameMembers
  <1>2. ASSUME NEW p \in SetModeWaits, WaitsAt(t, hal, p) PROVE WakeInv'
    <2>1. Naps(hal, hal') /\ hal'.mOutput = hal.mOutput
      BY <1>2, GentleMeans DEF WaitsAt, Gentle, TypeOK
    <2>2. SameLives(hal, hal') /\ Dims(hal, hal')
      BY <2>1 DEF Naps, Dims
    <2>3. th'[t].pc # "write.in" /\ \A u \in Threads \ {t} : th'[u] = th[u]
      BY <1>2 DEF WaitsAt, SetModeWaits
    <2> QED
      BY <2>1, <2>2, <2>3, WakeKept
  <1> QED
    BY <1>1, <1>2 DEF SetModeStep, SetModeWaits

(* Nothing plays while a write leaves standby, and there is one such write.  *)
LEMMA OneWriter ==
  ASSUME TypeOK, Safe, WakeInv, hal.mOutput # None, hal.out[hal.mOutput].mStandby
  PROVE  /\ ~Lit(hal)
         /\ own[hal.mOutput] = None => ~Writing
         /\ \A t, u \in Threads :
              th[t].pc = "write.in" /\ th[u].pc = "write.in" => t = u
  <1>1. ~Lit(hal)
    <2> SUFFICES ASSUME NEW o \in OutStreams, ~hal.out[o].mStandby PROVE FALSE
      BY DEF Lit
    <2>1. hal.out[o].alive
      BY DEF Safe, HalSafe, AllPlaying, Playing
    <2> QED
      BY <2>1 DEF WakeInv, Lone
  <1>2. \A t \in Threads : th[t].pc = "write.in" => own[hal.mOutput] = t
    BY WriterOut
  <1>3. None \notin Threads
    BY HalAssumption
  <1> QED
    BY <1>1, <1>2, <1>3 DEF Writing

LEMMA WriteStartsWake ==
  ASSUME TypeOK, Safe, Ordered', WakeInv, NEW t \in Threads, WriteExitStandby(t)
  PROVE  WakeInv'
  <1>1. /\ th[t].pc = "idle" /\ hal.mOutput # None /\ own[hal.mOutput] = None
        /\ hal.out[hal.mOutput].mStandby
    BY DEF WriteExitStandby, Calling, Free
  <1>2. ~Lit(hal) /\ ~Writing
    BY <1>1, OneWriter
  <1>3. /\ Follows(hal, hal') /\ SameLives(hal, hal') /\ Goes(t)
        /\ Wake(hal', th'[t].pc = "write.in")
    <2>1. th'[t].pc \notin {"stuck", "echo.out"}
      BY DEF Ordered, Placed
    <2> QED
      BY <1>2, <2>1, WriteStarts
  <1>4. Writing' <=> th'[t].pc = "write.in"
    BY <1>2, <1>3 DEF Writing, Goes
  <1>5. Wake(hal', Writing')
    BY <1>3, <1>4 DEF Wake
  <1>6. Lone'
    <2>1. hal'.mOutput = hal.mOutput
      BY <1>3 DEF Follows, SameMode, Keeps, Still
    <2> QED
      BY <1>1, <1>3, <2>1, LoneKept DEF Goes, WakeInv
  <1> QED
    BY <1>5, <1>6 DEF WakeInv, Wake, Lit

LEMMA WriteLockInWakes ==
  ASSUME TypeOK, Safe, Ordered', WakeInv, NEW t \in Threads, WriteLockIn(t)
  PROVE  WakeInv'
  <1>1. /\ th[t].pc = "write.in" /\ Writing /\ hal.mOutput # None
        /\ hal.out[hal.mOutput].mStandby
    <2>1. th[t].pc = "write.in"
      BY DEF WriteLockIn
    <2>2. hal.mOutput \in OutStreams /\ hal.out[hal.mOutput].mStandby
      BY <2>1, WriterOut
    <2> QED
      BY <2>1, <2>2, HalAssumption DEF Writing
  <1>2. Poised(hal) /\ \A u \in Threads \ {t} : th[u].pc # "write.in"
    BY <1>1, OneWriter DEF WakeInv, Wake, Poised
  <1>3. /\ Follows(hal, hal') /\ SameLives(hal, hal') /\ Goes(t)
        /\ Wake(hal', th'[t].pc = "write.in")
    <2>1. th'[t].pc \notin {"stuck", "echo.out"}
      BY DEF Ordered, Placed
    <2> QED
      BY <1>2, <2>1, WriteLockInPlays DEF Plays
  <1>4. Writing' <=> th'[t].pc = "write.in"
    BY <1>2, <1>3 DEF Writing, Goes
  <1>5. Wake(hal', Writing')
    BY <1>3, <1>4 DEF Wake
  <1>6. Lone'
    <2>1. hal'.mOutput = hal.mOutput
      BY <1>3 DEF Follows, SameMode, Keeps, Still
    <2> QED
      BY <1>1, <1>3, <2>1, LoneKept DEF Goes, WakeInv
  <1> QED
    BY <1>5, <1>6 DEF WakeInv, Wake, Lit

LEMMA OutStandbyLockWakes ==
  ASSUME TypeOK, Safe, WakeInv, NEW t \in Threads, OutStandbyLock(t)
  PROVE  WakeInv'
  <1>1. /\ th[t].pc = "outStandby" /\ th[t].victim \in OutStreams
        /\ th[t].ret = "free" => hal.out[th[t].victim].alive
    <2>1. /\ HasPointers(th[t]) /\ Fits(th[t], hal) /\ th[t].pc = "outStandby"
      BY DEF OutStandbyLock, Safe, TypeOK
    <2> QED
      BY <2>1 DEF HasPointers, Fits, Alive
  <1>2. /\ Follows(hal, hal') /\ Goes(t) /\ th'[t].pc # "write.in"
        /\ Dims(hal, hal')
        /\ th[t].ret # "free" => SameLives(hal, hal')
        /\ \A p \in OutStreams : hal'.out[p].alive =>
             hal.out[p].alive /\ (p = th[t].victim => th[t].ret # "free")
    BY OutStandbyLockMoves DEF Dims
  <1>3. hal'.mOutput = hal.mOutput
    BY <1>2 DEF Follows, SameMode, Keeps, Still
  <1>4. CASE th[t].ret # "free"
    BY <1>1, <1>2, <1>3, <1>4, WakeKept DEF Goes
  <1>5. CASE th[t].ret = "free"
    <2>1. \A p \in OutStreams : ~hal'.out[p].alive
      BY <1>1, <1>2, <1>5 DEF WakeInv, Lone
    <2>2. Lone'
      BY <2>1 DEF Lone
    <2>3. Writing' <=> Writing
      BY <1>1, <1>2 DEF Writing, Goes
    <2>4. Wake(hal', Writing)
      <3>1. Writing \in BOOLEAN
        BY DEF Writing
      <3> QED
        BY <1>2, <3>1 DEF WakeInv, Dims
    <2>5. Wake(hal', Writing')
      BY <2>3, <2>4 DEF Wake
    <2> QED
      BY <2>2, <2>5 DEF WakeInv, Wake, Lit
  <1> QED
    BY <1>4, <1>5

LEMMA OpenOutWakes ==
  ASSUME OneOpener, TypeOK, Safe, WakeInv, NEW t \in Threads, NEW d \in OutDevices,
         OpenOutputStream(t, d)
  PROVE  WakeInv'
  <1>1. th[t].pc = "idle" /\ "openOut" \in Calls[t] /\ UNCHANGED th
    BY DEF OpenOutputStream, Calling
  <1>2. /\ Dims(hal, hal') /\ hal.mOutput = None
        /\ \A p \in OutStreams :
             hal'.out[p].alive => hal.out[p].alive \/ p = hal'.mOutput
    BY OpenOutRoutes
  <1>3. \A p \in OutStreams : ~hal.out[p].alive
    <2> SUFFICES ASSUME NEW p \in OutStreams, hal.out[p].alive PROVE FALSE
      OBVIOUS
    <2>1. p # hal.mOutput
      BY <1>2, HalAssumption
    <2>2. PICK u \in Threads : Destroys(u, p)
      BY <2>1 DEF WakeInv, Lone
    <2>3. u = t
      BY <1>1, <2>2 DEF OneOpener, Destroys
    <2> QED
      BY <1>1, <2>2, <2>3 DEF Destroys
  <1>4. Lone'
    BY <1>2, <1>3 DEF Lone
  <1>5. Writing' <=> Writing
    BY <1>1 DEF Writing
  <1>6. Wake(hal', Writing)
    <2>1. Writing \in BOOLEAN
      BY DEF Writing
    <2> QED
      BY <1>2, <2>1 DEF WakeInv, Dims
  <1>7. Wake(hal', Writing')
    BY <1>5, <1>6 DEF Wake
  <1> QED
    BY <1>4, <1>7 DEF WakeInv, Wake, Lit

(* Nobody else is in a call, so that the destructor runs.                    *)
LEMMA CloseOutWakes ==
  ASSUME SerialClose, TypeOK, Safe, Ordered, WakeInv, NEW t \in Threads,
         CloseOutputStream(t)
  PROVE  WakeInv'
  <1> DEFINE o == hal.mOutput
             s == [hal EXCEPT !.mOutput = None]
             q == [Idle EXCEPT !.pc = "outStandby", !.victim = o, !.ret = "free",
                               !.spIn = None]
  <1>1. /\ o # None /\ o \in OutStreams /\ "closeOut" \in Calls[t]
        /\ \A u \in Threads : th[u] = Idle
    <2>1. o # None /\ "closeOut" \in Calls[t] /\ \A u \in Threads : th[u].pc = "idle"
      BY DEF CloseOutputStream, ClientDone, Calling
    <2> QED
      BY <2>1, HalFields, IdleOrder DEF TypeOK
  <1>2. Leave(t, o, None, s)
    BY DEF CloseOutputStream, Ordered, Echoless
  <1>3. Dies(t, o, s)
    <2>1. s.mOutput = None /\ o \notin s.mInputs
      <3>1. s.mOutput = None /\ s.mInputs = hal.mInputs
        BY DEF TypeOK, HalState
      <3>2. hal.mInputs \subseteq InStreams
        BY HalFields DEF TypeOK
      <3> QED
        BY <1>1, <3>1, <3>2, HalAssumption
    <2>2. PointersOf(Idle) = {}
      BY DEF PointersOf, Idle
    <2> HIDE DEF s
    <2> QED
      BY <1>1, <2>1, <2>2 DEF Dies
  <1>4. hal' = s /\ Go(t, q)
    BY <1>2, <1>3 DEF Leave
  <1>5. s.mOutput = None /\ s.out = hal.out /\ s.wakeLock = hal.wakeLock
    BY DEF TypeOK, HalState
  <1>6. q.pc = "outStandby" /\ q.victim = o /\ q.ret = "free"
    BY DEF Idle
  <1> HIDE DEF s, q
  <1>7. th'[t] = q /\ \A u \in Threads \ {t} : th'[u] = th[u]
    BY <1>4 DEF Go, TypeOK
  <1>8. Writing' <=> Writing
    BY <1>1, <1>6, <1>7 DEF Writing, Idle
  <1>9. Wake(hal', Writing')
    BY <1>4, <1>5, <1>8 DEF WakeInv, Wake, Lit
  <1>10. \A p \in OutStreams : hal.out[p].alive => p = o
    BY <1>1 DEF WakeInv, Lone
  <1>11. /\ th'[t].pc = "outStandby" /\ th'[t].ret = "free" /\ th'[t].victim = o
         /\ "closeOut" \in Calls[t]
    BY <1>1, <1>6, <1>7
  <1>12. Lone'
    BY <1>1, <1>4, <1>5, <1>10, <1>11 DEF Lone, Destroys
  <1> QED
    BY <1>9, <1>12 DEF WakeInv, Wake, Lit

LEMMA NextWakes ==
  ASSUME Assumed, OrderAssumed, OneOpener, TypeOK, Safe, Safe', Ordered, Ordered',
         WakeInv, NEW t \in Threads,
         OutCalls(t) \/ InCalls(t) \/ HwCalls(t) \/ Advance(t)
  PROVE  WakeInv'
  <1>0. ASSUME Moves(t, hal), th[t].pc \notin {"write.in", "outStandby"}
        PROVE  WakeInv'
    BY <1>0, MovesKept
  <1>1. CASE OutCalls(t)
    <2>0. th[t].pc = "idle"
      BY <1>1 DEF OutCalls, OpenOutputStream, OutSetParameters, CloseOutputStream,
                  OutStandby, WriteActive, WriteExitStandby, Calling
    <2>1. ASSUME NEW d \in OutDevices, OpenOutputStream(t, d) PROVE WakeInv'
      BY <2>1, OpenOutWakes
    <2>2. ASSUME NEW d \in OutDevices, OutSetParameters(t, d) PROVE WakeInv'
      <3>1. Naps(hal, hal') /\ th' = th /\ hal'.mOutput = hal.mOutput
        BY <2>2, OutSetRoutes
      <3>2. Goes(t) /\ th'[t].pc # "write.in"
        BY <2>0, <3>1 DEF Goes
      <3> QED
        BY <2>0, <3>1, <3>2, NapsKept
    <2>3. CASE CloseOutputStream(t)
      BY <2>3, CloseOutWakes DEF OrderAssumed
    <2>4. CASE OutStandby(t) \/ WriteActive(t)
      BY <1>0, <2>0, <2>4, OutMoves
    <2>5. CASE WriteExitStandby(t)
      BY <2>5, WriteStartsWake
    <2> QED
      BY <1>1, <2>1, <2>2, <2>3, <2>4, <2>5 DEF OutCalls
  <1>2. CASE InCalls(t)
    <2>1. ASSUME NEW d \in InDevices, OpenInputStream(t, d) PROVE WakeInv'
      <3>1. Naps(hal, hal') /\ th' = th /\ hal'.mOutput = hal.mOutput /\ th[t].pc = "idle"
        BY <2>1, OpenInRoutes DEF OpenInputStream, Calling
      <3>2. Goes(t) /\ th'[t].pc # "write.in"
        BY <3>1 DEF Goes
      <3> QED
        BY <3>1, <3>2, NapsKept
    <2>2. ASSUME NEW d \in InDevices, NEW i \in InStreams, InSetParameters(t, i, d)
          PROVE  WakeInv'
      BY <2>2, InSetRoutes, NapsKept DEF InSetParameters, Calling
    <2>3. ASSUME NEW i \in InStreams, CloseInputStream(t, i) PROVE WakeInv'
      BY <2>3, CloseInRoutes, NapsKept DEF CloseInputStream, Calling
    <2>4. ASSUME NEW i \in InStreams,
                 \/ InStandby(t, i) \/ InSetSource(t, i)
                 \/ ReadActive(t, i) \/ ReadExitStandby(t, i)
          PROVE  WakeInv'
      <3>1. th[t].pc = "idle"
        BY <2>4 DEF InStandby, InSetSource, ReadActive, ReadExitStandby, ReaderOf,
                    Calling
      <3> QED
        BY <1>0, <2>4, <3>1, InMoves
    <2> QED
      BY <1>2, <2>1, <2>2, <2>3, <2>4, NoEffects DEF InCalls, Assumed
  <1>3. CASE HwCalls(t)
    <2>1. ASSUME NEW m \in Modes, SetMode(t, m) PROVE WakeInv'
      BY <2>1, SetModeTurns, SetModeWakes DEF SetMode, Calling
    <2>2. CASE EnableFMRadio(t) \/ DisableFMRadio(t)
      <3>1. th[t].pc = "idle"
        BY <2>2 DEF EnableFMRadio, DisableFMRadio, Calling
      <3> QED
        BY <1>0, <2>2, <3>1, FmMoves
    <2>3. CASE SetMicMute(t)
      BY <2>3, MicMuteKept, NapsKept DEF SetMicMute, Calling
    <2> QED
      BY <1>3, <2>1, <2>2, <2>3 DEF HwCalls
  <1>4. CASE Advance(t)
    <2>1. CASE WriteLockIn(t)
      BY <2>1, WriteLockInWakes
    <2>2. CASE OutStandbyLock(t)
      BY <2>2, OutStandbyLockWakes
    <2>3. CASE ReadLockOut(t) \/ ReadLockIn(t)
      <3>1. th[t].pc \notin {"write.in", "outStandby"}
        BY <2>3 DEF ReadLockOut, ReadLockIn
      <3> QED
        BY <1>0, <2>3, <3>1, ReadLocksMove
    <2>4. CASE EchoLockOut(t) \/ EchoLockIn(t)
      BY <2>4, SafeParts DEF EchoLockOut, EchoLockIn
    <2>5. CASE SetModeLockOut(t) \/ SetModeLockIn(t)
      <3>1. th[t].pc \notin {"write.in", "outStandby"}
        BY <2>5 DEF SetModeLockOut, SetModeLockIn
      <3> QED
        BY <2>5, <3>1, SetModeTurns, SetModeWakes
    <2>6. ASSUME NEW ok \in BOOLEAN, WriteDone(t, ok) \/ ReadDone(t, ok)
          PROVE  WakeInv'
      <3>1. th[t].pc \notin {"write.in", "outStandby"}
        BY <2>6 DEF WriteDone, ReadDone
      <3> QED
        BY <1>0, <2>6, <3>1, DoneMoves
    <2>7. CASE InStandbyLock(t)
      <3>1. th[t].pc \notin {"write.in", "outStandby"}
        BY <2>7 DEF InStandbyLock
      <3> QED
        BY <1>0, <2>7, <3>1, InStandbyLockMoves
    <2> QED
      BY <1>4, <2>1, <2>2, <2>3, <2>4, <2>5, <2>6, <2>7 DEF Advance
  <1> QED
    BY <1>1, <1>2, <1>3, <1>4

(* For any streams, threads and refusals of the drivers, where no echo is    *)
(* cancelled, a call and FM get the devices they ask for, streams are closed *)
(* while no other call runs and one thread opens and closes the output: the  *)
(* wake lock is held while an output is out of standby or a write is leaving *)
(* standby, and only then, through failed openings, calls and destructors.   *)
THEOREM WakeLockMatches ==
  ASSUME Assumed, OrderAssumed, OneOpener PROVE Spec => []WakeLockMatchesPlayback
  <1>1. Init => WakeInv
    <2> SUFFICES ASSUME Init PROVE WakeInv
      OBVIOUS
    <2>1. \A o \in OutStreams : hal.out[o] = NoOut
      BY DEF Init
    <2>2. ~hal.wakeLock /\ \A t \in Threads : th[t].pc = "idle"
      BY DEF Init, Idle
    <2>3. \A o \in OutStreams : hal.out[o].mStandby /\ ~hal.out[o].alive
      BY <2>1 DEF NoOut
    <2> QED
      BY <2>2, <2>3 DEF WakeInv, Wake, Lit, Writing, Lone
  <1>2. /\ TypeOK /\ Safe /\ Safe' /\ Ordered /\ Ordered' /\ WakeInv /\ [Next]_vars
        => WakeInv'
    <2> SUFFICES ASSUME TypeOK, Safe, Safe', Ordered, Ordered', WakeInv, [Next]_vars
                 PROVE  WakeInv'
      OBVIOUS
    <2>1. CASE UNCHANGED vars
      BY <2>1 DEF vars, WakeInv, Wake, Lit, Writing, Lone, Destroys
    <2>2. CASE Next
      BY <2>2, NextWakes DEF Next
    <2> QED
      BY <2>1, <2>2
  <1>3. TypeOK /\ WakeInv => WakeLockMatchesPlayback
    <2> SUFFICES ASSUME TypeOK, WakeInv PROVE WakeLockMatchesPlayback
      OBVIOUS
    <2>1. hal.wakeLock \in BOOLEAN
      BY HalFields DEF TypeOK
    <2> QED
      BY <2>1 DEF WakeInv, Wake, Lit, Writing, WakeLockMatchesPlayback
  <1> QED
    BY <1>1, <1>2, <1>3, SafeAlways, OrderAlways, TypeCorrect, PTL DEF Spec

=============================================================================
