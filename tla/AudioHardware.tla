---------------------------- MODULE AudioHardware ----------------------------
(***************************************************************************)
(* The audio HAL of libaudio/AudioHardware.cpp: the hardware object, its    *)
(* playback stream (AudioStreamOutALSA) and its capture streams             *)
(* (AudioStreamInALSA), called by the threads of the audio server.          *)
(*                                                                          *)
(* Every stream has a mutex and the hardware object has one; the code takes *)
(* them in the order out -> in -> hw, and where it already holds a later    *)
(* one it lets go of it, takes the earlier one and looks again.  A step of  *)
(* this module runs from one point where a thread can wait, or be overtaken *)
(* while it holds no hardware mutex, to the next.  The hardware mutex is    *)
(* free between steps unless a thread is stuck with it, so "take a stream's *)
(* mutex, then the hardware mutex" is one step; pcm_write and pcm_read run  *)
(* under the stream's mutex alone and are states of their own.              *)
(*                                                                          *)
(* Left out: sleeps and logging, the samples themselves, the commands sent  *)
(* to the modem (voice path, volume), mInputSource (setInputSource_l sets no *)
(* control and nothing else reads it) and the amplifier controls.           *)
(***************************************************************************)
EXTENDS Naturals, FiniteSets

CONSTANTS
  Threads,      \* threads of the audio server
  OutStreams,   \* memory for AudioStreamOutALSA objects
  InStreams,    \* memory for AudioStreamInALSA objects
  EchoRefs,     \* memory for echo references
  OutDevices,   \* playback devices the policy routes to
  InDevices,    \* capture devices the policy routes to
  Modes,        \* audio modes the client sets
  Calls,        \* Calls[t]: the HAL functions thread t calls
  Faults,       \* the external operations that may fail
  SerialClose,  \* TRUE: streams are closed only while no other call runs
  FmToggles,    \* TRUE: FM is turned on only while off, off only while on
  MaxCnt,       \* bound on mPcmOpenCnt and mMixerOpenCnt (FM only)
  None          \* NULL

CallNames == {"openOut", "closeOut", "write", "outStandby", "outRouting",
              "openIn", "closeIn", "read", "inStandby", "inRouting",
              "inSource", "addAec", "removeAec", "setMode", "setMicMute",
              "fmOn", "fmOff"}
FaultNames == {"pcmOut", "pcmIn", "mixer", "callPcm", "callMixer", "ril",
               "echo", "io"}
AllModes == {"NORMAL", "RINGTONE", "IN_CALL", "IN_COMMUNICATION"}
AllOutDevices == {"EARPIECE", "SPEAKER", "WIRED_HEADSET", "WIRED_HEADPHONE",
                  "BLUETOOTH_SCO"}
AllInDevices == {"BUILTIN_MIC", "WIRED_HEADSET", "BLUETOOTH_SCO_HEADSET"}

(* One thread plays and the audio server serialises its calls to setMode.   *)
(* FM is off the table where the output may be closed: enableFMRadio uses   *)
(* mOutput without looking whether there is one.                            *)
ASSUME HalAssumption ==
  /\ Modes \subseteq AllModes
  /\ OutDevices \subseteq AllOutDevices /\ InDevices \subseteq AllInDevices
  /\ Calls \in [Threads -> SUBSET CallNames]
  /\ Faults \subseteq FaultNames
  /\ SerialClose \in BOOLEAN /\ FmToggles \in BOOLEAN
  /\ MaxCnt \in Nat
  /\ IsFiniteSet(OutStreams) /\ IsFiniteSet(InStreams)
  /\ OutStreams \cap InStreams = {}
  /\ {"hw", None} \cap (OutStreams \cup InStreams) = {}
  /\ None \notin Threads \cup EchoRefs
  /\ \A t, u \in Threads, c \in {"write", "setMode"} :
        c \in Calls[t] \cap Calls[u] => t = u
  /\ \A t, u \in Threads : ~("fmOn" \in Calls[t] /\ "closeOut" \in Calls[u])

VARIABLES
  hal,   \* the object's fields, the streams' fields and the device state
  own,   \* own[l]: the thread that holds mutex l
  th     \* th[t]: where thread t is and its local variables

vars == <<hal, own, th>>

Streams == OutStreams \cup InStreams
Locks == Streams \cup {"hw"}

-----------------------------------------------------------------------------
(* State                                                                    *)

NoOut == [alive |-> FALSE, mStandby |-> TRUE, mPcm |-> FALSE, mMixer |-> FALSE,
          mDevices |-> "EARPIECE", mEchoReference |-> None, snap |-> {}]
NoIn == [alive |-> FALSE, mStandby |-> TRUE, mPcm |-> FALSE, mMixer |-> FALSE,
         mDevices |-> "BUILTIN_MIC", mEchoReference |-> None, snap |-> {},
         mNeedEchoReference |-> FALSE]

(* snap: the threads whose saved copy of mStandbyCnt still equals it; the   *)
(* counter itself is only ever compared with such a copy.                   *)
OutState == [alive: BOOLEAN, mStandby: BOOLEAN, mPcm: BOOLEAN, mMixer: BOOLEAN,
             mDevices: AllOutDevices, mEchoReference: EchoRefs \cup {None},
             snap: SUBSET Threads]
InState == [alive: BOOLEAN, mStandby: BOOLEAN, mPcm: BOOLEAN, mMixer: BOOLEAN,
            mDevices: AllInDevices, mEchoReference: EchoRefs \cup {None},
            snap: SUBSET Threads, mNeedEchoReference: BOOLEAN]

HalState == [mMode: AllModes, mInCallAudioMode: BOOLEAN, mActivatedCP: BOOLEAN,
             mMicMute: BOOLEAN,
             mPcm: BOOLEAN, mPcmOpenCnt: Nat, mMixer: BOOLEAN,
             mMixerOpenCnt: Nat,
             mOutput: OutStreams \cup {None}, mInputs: SUBSET InStreams,
             mEchoReference: EchoRefs \cup {None}, echoLive: SUBSET EchoRefs,
             mFmFd: BOOLEAN, mFmResumeAfterCall: BOOLEAN, wakeLock: BOOLEAN,
             playbackPath: {"RCV", "SPK", "HP", "BT", "off"},
             memoPath: {"MAIN", "HP", "BT", "off"},
             out: [OutStreams -> OutState], in: [InStreams -> InState]]

PCs == {"idle", "write.in", "write.io", "outStandby", "read.out", "read.in",
        "read.io", "inStandby", "echo.out", "echo.in", "setMode.out",
        "setMode.in", "stuck"}

Rets == {"return", "free", "write", "enterCall", "leaveCall"}

(* obj: the stream the call was made on; spOut, spIn: the strong pointers   *)
(* of setMode, write, read, setMicMute and the close functions; victim: the *)
(* stream being put in standby and ret what follows; echoOut: the strong    *)
(* pointer of AudioStreamInALSA::doStandby_l.                               *)
ThreadState == [pc: PCs, obj: Streams \cup {None}, mode: AllModes,
                spOut: OutStreams \cup {None}, spIn: InStreams \cup {None},
                echoOut: OutStreams \cup {None}, victim: Streams \cup {None},
                ret: Rets]

Idle == [pc |-> "idle", obj |-> None, mode |-> "NORMAL", spOut |-> None,
         spIn |-> None, echoOut |-> None, victim |-> None, ret |-> "return"]

Init ==
  /\ hal = [mMode |-> "NORMAL", mInCallAudioMode |-> FALSE,
            mActivatedCP |-> FALSE, mMicMute |-> FALSE,
            mPcm |-> FALSE, mPcmOpenCnt |-> 0,
            mMixer |-> FALSE, mMixerOpenCnt |-> 0,
            mOutput |-> None, mInputs |-> {},
            mEchoReference |-> None, echoLive |-> {},
            mFmFd |-> FALSE, mFmResumeAfterCall |-> FALSE, wakeLock |-> FALSE,
            playbackPath |-> "off", memoPath |-> "off",
            out |-> [o \in OutStreams |-> NoOut],
            in |-> [i \in InStreams |-> NoIn]]
  /\ own = [l \in Locks |-> None]
  /\ th = [t \in Threads |-> Idle]

(* A thread that waits or is in the driver has the pointers its next step   *)
(* follows: none of them is NULL or leads to a stream of the other kind.    *)
HasPointers(q) ==
  /\ q.pc \in {"write.in", "write.io"} \/ q.ret = "write" => q.obj \in OutStreams
  /\ q.pc \in {"write.in", "setMode.in"} => q.spIn \in InStreams
  /\ q.pc \in {"read.out", "read.in", "read.io"} => q.obj \in InStreams
  /\ q.pc \in {"read.out", "read.in", "setMode.out"} => q.spOut \in OutStreams
  /\ q.pc = "outStandby" => q.victim \in OutStreams
  /\ q.pc \in {"inStandby", "echo.out", "echo.in"} => q.victim \in InStreams
  /\ q.pc \in {"echo.out", "echo.in"} => q.echoOut \in OutStreams

TypeOK ==
  /\ hal \in HalState
  /\ own \in [Locks -> Threads \cup {None}]
  /\ th \in [Threads -> ThreadState]
  /\ \A t \in Threads : HasPointers(th[t])

-----------------------------------------------------------------------------
(* The functions called with the hardware mutex held, as functions of hal.  *)

Outcomes(f) == IF f \in Faults THEN BOOLEAN ELSE {TRUE}

OutputRoute(d) ==
  CASE d = "EARPIECE" -> "RCV"
    [] d = "SPEAKER" -> "SPK"
    [] d \in {"WIRED_HEADPHONE", "WIRED_HEADSET"} -> "HP"
    [] d = "BLUETOOTH_SCO" -> "BT"
    [] OTHER -> "off"

InputRoute(mute, d) ==
  CASE mute -> "off"
    [] ~mute /\ d = "BUILTIN_MIC" -> "MAIN"
    [] ~mute /\ d = "WIRED_HEADSET" -> "HP"
    [] ~mute /\ d = "BLUETOOTH_SCO_HEADSET" -> "BT"
    [] OTHER -> "off"

(* What openMixer_l and openPcmOut_l return: a device or NULL.              *)
MixerHandle(s, ok) == IF s.mMixerOpenCnt > 0 THEN s.mMixer ELSE ok /\ ~s.mMixer

PcmHandle(s, ok) == IF s.mPcmOpenCnt > 0 THEN s.mPcm ELSE ok /\ ~s.mPcm

SetMixer(s, n, open) == [s EXCEPT !.mMixerOpenCnt = n, !.mMixer = open]

SetPcm(s, n, open) == [s EXCEPT !.mPcmOpenCnt = n, !.mPcm = open]

OpenMixer(s, ok) ==
  IF s.mMixerOpenCnt = 0 /\ (s.mMixer \/ ~ok) THEN s
  ELSE SetMixer(s, s.mMixerOpenCnt + 1, MixerHandle(s, ok))

(* Mutant: the count is not compared with zero. *)
CloseMixerUnchecked(s) ==
  SetMixer(s, s.mMixerOpenCnt - 1, s.mMixer /\ s.mMixerOpenCnt # 1)

CloseMixer(s) ==
  IF s.mMixerOpenCnt = 0 THEN s
  ELSE SetMixer(s, s.mMixerOpenCnt - 1, s.mMixer /\ s.mMixerOpenCnt # 1)

SetIdleMode(s) ==
  IF s.mMode # "IN_CALL" /\ s.mMixerOpenCnt = 0
  THEN CloseMixer(OpenMixer(s, TRUE)) ELSE s

(* Mutant: a failed pcm_open leaves the count raised. *)
OpenPcmOutKeepsCount(s, ok) ==
  SetPcm(s, s.mPcmOpenCnt + 1, PcmHandle(s, ok))

OpenPcmOut(s, ok) ==
  IF s.mPcmOpenCnt = 0 /\ (s.mPcm \/ ~ok) THEN s
  ELSE SetPcm(s, s.mPcmOpenCnt + 1, PcmHandle(s, ok))

ClosePcmOut(s) ==
  IF s.mPcmOpenCnt = 0 THEN s
  ELSE SetIdleMode(SetPcm(s, s.mPcmOpenCnt - 1, s.mPcm /\ s.mPcmOpenCnt # 1))

SetOut(s, o, r) == [s EXCEPT !.out[o] = r]

SetIn(s, i, r) == [s EXCEPT !.in[i] = r]

ActiveInputs(s) == {i \in s.mInputs : ~s.in[i].mStandby}

(* AudioStreamOutALSA                                                       *)

OutCloseMixer(s, o) ==
  IF s.out[o].mMixer
  THEN SetOut(CloseMixer(s), o, [s.out[o] EXCEPT !.mMixer = FALSE]) ELSE s

OutClosePcm(s, o) ==
  IF s.out[o].mPcm
  THEN SetOut(ClosePcmOut(s), o, [s.out[o] EXCEPT !.mPcm = FALSE]) ELSE s

OutClose(s, o) == OutClosePcm(OutCloseMixer(s, o), o)

OutRouted(s, o) ==
  IF s.out[o].mMixer /\ s.mMode # "IN_CALL"
  THEN [s EXCEPT !.playbackPath = OutputRoute(s.out[o].mDevices)] ELSE s

OutOpenMixer(s, o, ok) ==
  OutRouted(SetOut(OpenMixer(s, ok), o,
                   [s.out[o] EXCEPT !.mMixer = MixerHandle(s, ok)]), o)

OutOpen(s, o, okPcm, okMixer) ==
  IF PcmHandle(s, okPcm)
  THEN OutOpenMixer(SetOut(OpenPcmOut(s, okPcm), o,
                           [s.out[o] EXCEPT !.mPcm = TRUE]), o, okMixer)
  ELSE OpenPcmOut(s, okPcm)

OutDoStandby(s, o) ==
  OutClose(SetOut([s EXCEPT !.wakeLock = @ /\ s.out[o].mStandby], o,
                  [s.out[o] EXCEPT !.mStandby = TRUE, !.snap = {}]), o)

(* The echo canceller's reference, shared by the hardware object, the       *)
(* playback stream that feeds it and the capture stream that reads it.      *)

(* Mutant: the output keeps its pointer. *)
ReleaseEchoKeepsOutput(s, e) ==
  IF s.mEchoReference = None \/ e # s.mEchoReference THEN s
  ELSE [s EXCEPT !.mEchoReference = None, !.echoLive = @ \ {e}]

ReleaseEcho(s, e) ==
  IF s.mEchoReference = None \/ e # s.mEchoReference THEN s
  ELSE [s EXCEPT !.mEchoReference = None, !.echoLive = @ \ {e},
          !.out = [o \in OutStreams |->
             IF o = s.mOutput /\ s.out[o].mEchoReference = e
             THEN [s.out[o] EXCEPT !.mEchoReference = None] ELSE s.out[o]]]

CreateEcho(s, o, e) ==
  [s EXCEPT !.mEchoReference = e, !.echoLive = @ \cup {e},
            !.out[o].mEchoReference = IF @ = None THEN e ELSE @]

(* AudioStreamInALSA                                                        *)

InCloseMixer(s, i) ==
  IF s.in[i].mMixer
  THEN SetIn(CloseMixer(s), i, [s.in[i] EXCEPT !.mMixer = FALSE]) ELSE s

InClosePcm(s, i) == SetIn(s, i, [s.in[i] EXCEPT !.mPcm = FALSE])

InClose(s, i) == SetIdleMode(InClosePcm(InCloseMixer(s, i), i))

(* The driver has one capture substream: pcm_open fails while another       *)
(* stream has it.                                                           *)
CaptureBusy(s, i) == \E j \in InStreams \ {i} : s.in[j].mPcm

InRouted(s, i) ==
  IF s.in[i].mMixer /\ s.mMode # "IN_CALL"
  THEN [s EXCEPT !.memoPath = InputRoute(s.mMicMute, s.in[i].mDevices)] ELSE s

InOpen(s, i, okPcm, okMixer) ==
  IF okPcm /\ ~CaptureBusy(s, i)
  THEN InRouted(SetIn(OpenMixer(s, okMixer), i,
                  [s.in[i] EXCEPT !.mPcm = TRUE,
                                  !.mMixer = MixerHandle(s, okMixer)]), i)
  ELSE s

(* Mutant: mStandby is not set. *)
InDoStandbyKeepsActive(s, i) ==
  InClose(SetIn(s, i, [s.in[i] EXCEPT !.snap = {}, !.mEchoReference = None]), i)

(* doStandby_l when it has no echo reference to give back, or once it has.  *)
InDoStandby(s, i) ==
  InClose(SetIn(s, i, [s.in[i] EXCEPT !.mStandby = TRUE, !.snap = {},
                         !.mEchoReference = IF s.in[i].mStandby THEN @
                                            ELSE None]), i)

(* The FM radio shares the playback device.                                 *)
FmRouted(s) ==
  IF s.mMixer
  THEN [s EXCEPT !.playbackPath = OutputRoute(s.out[s.mOutput].mDevices)]
  ELSE s

EnableFm(s, okPcm, okMixer) ==
  IF s.mMode = "IN_CALL" THEN [s EXCEPT !.mFmResumeAfterCall = TRUE]
  ELSE FmRouted([OpenMixer(OpenPcmOut(s, okPcm), okMixer)
                   EXCEPT !.mFmFd = TRUE])

(* Mutant: the playback device is not given back. *)
DisableFmKeepsPcm(s) ==
  [IF s.mMixer THEN CloseMixer(s) ELSE s EXCEPT !.mFmFd = FALSE]

DisableFm(s) ==
  LET a == IF s.mMixer THEN ClosePcmOut(CloseMixer(s)) ELSE s
  IN  [a EXCEPT !.mFmFd = FALSE]

-----------------------------------------------------------------------------
(* Threads and mutexes                                                      *)

Free(l) == own[l] = None

HwFree == Free("hw")

Held(t) == {l \in Locks : own[l] = t}

(* After the step thread t holds the mutexes K and no other.                *)
Hold(t, K) ==
  own' = [l \in Locks |-> IF l \in K THEN t
                          ELSE IF own[l] = t THEN None ELSE own[l]]

Go(t, r) == th' = [th EXCEPT ![t] = r]

Calling(t, c) == th[t].pc = "idle" /\ c \in Calls[t]

PointersOf(r) == {r.spOut, r.spIn, r.echoOut} \ {None}

(* No strong pointer but the one thread t drops leads to stream x: its      *)
(* destructor runs in t, there and then.                                    *)
Dies(t, x, s) ==
  /\ x # None
  /\ x # s.mOutput /\ x \notin s.mInputs
  /\ \A u \in Threads \ {t} : x \notin PointersOf(th[u])

(* The destructor calls standby(), which waits for the hardware mutex the   *)
(* thread itself holds, here with the mutexes K.                            *)
Stuck(t, K, s) ==
  hal' = s /\ Hold(t, K \cup {"hw"}) /\ Go(t, [th[t] EXCEPT !.pc = "stuck"])

(* The call returns and its strong pointers o and i go; a stream nobody     *)
(* else points to is destroyed, which puts it in standby first.             *)
Leave(t, o, i, s) ==
  /\ hal' = s
  /\ Hold(t, {})
  /\ IF Dies(t, o, s)
     THEN Go(t, [Idle EXCEPT !.pc = "outStandby", !.victim = o, !.ret = "free",
                             !.spIn = i])
     ELSE IF Dies(t, i, s)
     THEN Go(t, [Idle EXCEPT !.pc = "inStandby", !.victim = i, !.ret = "free"])
     ELSE Go(t, Idle)

-----------------------------------------------------------------------------
(* The tails of calls that wait in AudioStreamInALSA::doStandby_l, and      *)
(* doStandby_l itself.                                                      *)

(* Mutant: a failed open keeps the wake lock. *)
WriteOpenedKeepsWakeLock(t, o, i, s) ==
  IF s.out[o].mPcm
  THEN /\ hal' = [s EXCEPT !.out[o].mStandby = FALSE]
       /\ Hold(t, {o})
       /\ Go(t, [Idle EXCEPT !.pc = "write.io", !.obj = o])
  ELSE hal' = s /\ Hold(t, {}) /\ Go(t, Idle)

(* write(), from the call of open_l to the end of the standby block; the    *)
(* pointer to the input goes while the hardware mutex is held.              *)
WriteOpened(t, o, i, s) ==
  IF Dies(t, i, s)
  THEN Stuck(t, {o}, s)
  ELSE IF s.out[o].mPcm
  THEN /\ hal' = [s EXCEPT !.out[o].mStandby = FALSE]
       /\ Hold(t, {o})
       /\ Go(t, [Idle EXCEPT !.pc = "write.io", !.obj = o])
  ELSE /\ hal' = [s EXCEPT !.wakeLock = FALSE]
       /\ Hold(t, {})
       /\ Go(t, [Idle EXCEPT !.pc = "outStandby", !.obj = o, !.victim = o])

(* setMode(), from the last unlock to the return.                           *)
SetModeReturn(t, o, i, s) ==
  IF s.mFmResumeAfterCall
  THEN \E okPcm \in Outcomes("pcmOut"), okMixer \in Outcomes("mixer") :
          Leave(t, o, i, EnableFm([s EXCEPT !.mFmResumeAfterCall = FALSE],
                                  okPcm, okMixer))
  ELSE Leave(t, o, i, s)

EnterCall(t, o, i, s) ==
  \E okPcm \in Outcomes("callPcm"), okMixer \in Outcomes("callMixer") :
    SetModeReturn(t, o, i, [OpenMixer(OpenPcmOut(s, okPcm), okMixer)
                              EXCEPT !.mInCallAudioMode = TRUE])

LeaveCall(t, o, i, s) ==
  SetModeReturn(t, o, i, [s EXCEPT !.mInCallAudioMode = FALSE])

Freed(s, x) ==
  IF x \in OutStreams THEN [s EXCEPT !.out[x] = NoOut]
  ELSE [s EXCEPT !.in[x] = NoIn]

(* What follows doStandby_l in the call r describes.                        *)
Resume(t, r, s) ==
  CASE r.ret = "return" -> Leave(t, r.spOut, r.spIn, s)
    [] r.ret = "free" -> Leave(t, r.spOut, r.spIn, Freed(s, r.victim))
    [] r.ret = "write" -> WriteOpened(t, r.obj, r.spIn, s)
    [] r.ret = "enterCall" -> EnterCall(t, r.spOut, r.spIn, s)
    [] r.ret = "leaveCall" -> LeaveCall(t, r.spOut, r.spIn, s)

(* doStandby_l of input r.victim with the hardware mutex and the mutexes K  *)
(* held: to give an echo reference back it drops its own mutexes and waits  *)
(* for the output's.                                                        *)
InStandbyIn(t, K, r, s) ==
  LET i == r.victim
  IN  IF /\ ~s.in[i].mStandby /\ s.in[i].mEchoReference # None
         /\ s.mOutput # None
      THEN /\ hal' = [s EXCEPT !.in[i].snap = {}]
           /\ Hold(t, K \ {i})
           /\ Go(t, [r EXCEPT !.pc = "echo.out", !.echoOut = s.mOutput])
      ELSE Resume(t, r, InDoStandby(s, i))

EchoLockOut(t) ==
  /\ th[t].pc = "echo.out"
  /\ Free(th[t].echoOut)
  /\ Hold(t, Held(t) \cup {th[t].echoOut})
  /\ Go(t, [th[t] EXCEPT !.pc = "echo.in"])
  /\ UNCHANGED hal

EchoLockIn(t) ==
  LET r == th[t]
      i == r.victim
      s == InDoStandby(ReleaseEcho(hal, hal.in[i].mEchoReference), i)
  IN  /\ r.pc = "echo.in"
      /\ Free(i) /\ HwFree
      /\ IF Dies(t, r.echoOut, hal) /\ r.spOut # r.echoOut
         THEN Stuck(t, (Held(t) \ {r.echoOut}) \cup {i}, hal)
         ELSE Resume(t, [r EXCEPT !.echoOut = None], s)

-----------------------------------------------------------------------------
(* AudioStreamOutALSA                                                       *)

OpenOutputStream(t, d) ==
  /\ Calling(t, "openOut") /\ HwFree
  /\ hal.mOutput = None
  /\ \E o \in OutStreams :
       /\ ~hal.out[o].alive
       /\ hal' = [hal EXCEPT !.mOutput = o,
                    !.out[o] = [NoOut EXCEPT !.alive = TRUE, !.mDevices = d]]
  /\ UNCHANGED <<own, th>>

(* The client has returned from every call it made on the stream.           *)
ClientDone(x) ==
  /\ \A t \in Threads : th[t].obj # x
  /\ SerialClose => \A t \in Threads : th[t].pc = "idle"

CloseOutputStream(t) ==
  LET o == hal.mOutput
      s == [hal EXCEPT !.mOutput = None]
  IN  /\ Calling(t, "closeOut") /\ HwFree
      /\ o # None /\ ClientDone(o)
      /\ IF hal.mEchoReference # None /\ ActiveInputs(hal) # {}
         THEN \E i \in ActiveInputs(hal) :
                /\ hal' = s
                /\ Go(t, [Idle EXCEPT !.pc = "inStandby", !.victim = i,
                                      !.spOut = o, !.spIn = i])
                /\ UNCHANGED own
         ELSE Leave(t, o, None, s)

(* write() exits standby with the output's mutex held; the active input, i, *)
(* is closed and reopened behind the output.                                *)
WriteOpen(t, o, i, s) ==
  \E okPcm \in Outcomes("pcmOut"), okMixer \in Outcomes("mixer") :
    IF i = None THEN WriteOpened(t, o, None, OutOpen(s, o, okPcm, okMixer))
    ELSE \E okIn \in Outcomes("pcmIn"), okInMixer \in Outcomes("mixer") :
      LET a == InOpen(OutOpen(InClose(s, i), o, okPcm, okMixer),
                      i, okIn, okInMixer)
      IN  IF a.in[i].mPcm THEN WriteOpened(t, o, i, a)
          ELSE InStandbyIn(t, {o, i},
                 [Idle EXCEPT !.obj = o, !.spIn = i, !.victim = i,
                              !.ret = "write"], a)

(* The loop's head: wait for the active input's mutex, or there is none.    *)
WriteScan(t, o, s) ==
  IF ActiveInputs(s) = {} THEN WriteOpen(t, o, None, s)
  ELSE \E i \in ActiveInputs(s) :
         /\ hal' = [s EXCEPT !.in[i].snap = @ \cup {t}]
         /\ Hold(t, {o})
         /\ Go(t, [Idle EXCEPT !.pc = "write.in", !.obj = o, !.spIn = i])

WriteActive(t) ==
  LET o == hal.mOutput
  IN  /\ Calling(t, "write") /\ o # None
      /\ Free(o) /\ ~hal.out[o].mStandby
      /\ Hold(t, {o})
      /\ Go(t, [Idle EXCEPT !.pc = "write.io", !.obj = o])
      /\ UNCHANGED hal

WriteExitStandby(t) ==
  LET o == hal.mOutput
  IN  /\ Calling(t, "write") /\ o # None
      /\ Free(o) /\ HwFree /\ hal.out[o].mStandby
      /\ WriteScan(t, o, [hal EXCEPT !.wakeLock = TRUE])

WriteLockIn(t) ==
  LET o == th[t].obj
      i == th[t].spIn
      s == [hal EXCEPT !.in[i].snap = @ \ {t}]
  IN  /\ th[t].pc = "write.in"
      /\ Free(i) /\ HwFree
      /\ IF i \in ActiveInputs(hal) /\ t \in hal.in[i].snap
         THEN WriteOpen(t, o, i, s)
         ELSE IF Dies(t, i, hal) THEN Stuck(t, {o}, s)
         ELSE WriteScan(t, o, s)

(* pcm_write returns; an error ends in standby().                           *)
WriteDone(t, ok) ==
  /\ th[t].pc = "write.io"
  /\ ok \in Outcomes("io")
  /\ Hold(t, {})
  /\ Go(t, IF ok THEN Idle
           ELSE [th[t] EXCEPT !.pc = "outStandby", !.victim = th[t].obj])
  /\ UNCHANGED hal

(* standby(), called by the client, by write() after an error, and by the   *)
(* destructor.                                                              *)
OutStandby(t) ==
  /\ Calling(t, "outStandby") /\ hal.mOutput # None
  /\ Free(hal.mOutput) /\ HwFree
  /\ hal' = OutDoStandby(hal, hal.mOutput)
  /\ UNCHANGED <<own, th>>

OutStandbyLock(t) ==
  LET r == th[t]
  IN  /\ r.pc = "outStandby"
      /\ Free(r.victim) /\ HwFree
      /\ Resume(t, r, OutDoStandby(hal, r.victim))

(* Mutant: the stream goes on playing to the old device. *)
OutSetParametersNoStandby(t, d) ==
  /\ Calling(t, "outRouting") /\ hal.mOutput # None
  /\ Free(hal.mOutput) /\ HwFree
  /\ hal' = [hal EXCEPT !.out[hal.mOutput].mDevices = d]
  /\ UNCHANGED <<own, th>>

(* setParameters() with the routing key.                                    *)
OutSetParameters(t, d) ==
  LET o == hal.mOutput
      s == [hal EXCEPT !.out[o].mDevices = d]
  IN  /\ Calling(t, "outRouting") /\ o # None
      /\ Free(o) /\ HwFree
      /\ hal.out[o].mDevices # d
      /\ hal' = IF hal.mMode = "IN_CALL" THEN s ELSE OutDoStandby(s, o)
      /\ UNCHANGED <<own, th>>

-----------------------------------------------------------------------------
(* AudioStreamInALSA                                                        *)

OpenInputStream(t, d) ==
  /\ Calling(t, "openIn") /\ HwFree
  /\ \E i \in InStreams :
       /\ ~hal.in[i].alive
       /\ hal' = [hal EXCEPT !.mInputs = @ \cup {i},
                    !.in[i] = [NoIn EXCEPT !.alive = TRUE, !.mDevices = d]]
  /\ UNCHANGED <<own, th>>

CloseInputStream(t, i) ==
  /\ Calling(t, "closeIn") /\ HwFree
  /\ i \in hal.mInputs /\ ClientDone(i)
  /\ Leave(t, None, i, [hal EXCEPT !.mInputs = @ \ {i}])

(* read() exits standby with the input's mutex and, if there is an output   *)
(* o, that one's: an active output is closed and reopened before the input. *)
ReadOpen(t, i, o, s) ==
  \E okPcm \in Outcomes("pcmOut"), okMixer \in Outcomes("mixer"),
     okIn \in Outcomes("pcmIn"), okInMixer \in Outcomes("mixer"),
     okEcho \in Outcomes("echo") :
    LET reopened == OutOpen(OutClose(s, o), o, okPcm, okMixer)
        a == IF o = None \/ s.out[o].mStandby THEN s
             ELSE IF reopened.out[o].mPcm THEN reopened
             ELSE OutDoStandby(reopened, o)
        needed == /\ o # None
                  /\ s.in[i].mNeedEchoReference /\ s.in[i].mEchoReference = None
        b == ReleaseEcho(a, a.mEchoReference)
        Open(c) ==
          LET c1 == InOpen(c, i, okIn, okInMixer)
          IN  IF c1.in[i].mPcm
              THEN /\ hal' = [c1 EXCEPT !.in[i].mStandby = FALSE]
                   /\ Hold(t, {i})
                   /\ Go(t, [Idle EXCEPT !.pc = "read.io", !.obj = i])
              ELSE /\ hal' = c1
                   /\ Hold(t, {})
                   /\ Go(t, [Idle EXCEPT !.pc = "inStandby", !.obj = i,
                                         !.victim = i])
    IN  IF needed /\ okEcho
        THEN \E e \in EchoRefs \ b.echoLive :
               Open([CreateEcho(b, o, e) EXCEPT !.in[i].mEchoReference = e])
        ELSE Open(IF needed THEN b ELSE a)

(* Mutants: the input's mutex is kept; the output's is not taken.          *)
ReadScanKeepsLock(t, i, s) ==
  IF s.mOutput = None THEN ReadOpen(t, i, None, s)
  ELSE /\ hal' = s
       /\ Hold(t, {i})
       /\ Go(t, [Idle EXCEPT !.pc = "read.out", !.obj = i, !.spOut = s.mOutput])

ReadScanNoOutLock(t, i, s) == ReadOpen(t, i, s.mOutput, s)

ReadScan(t, i, s) ==
  IF s.mOutput = None THEN ReadOpen(t, i, None, s)
  ELSE /\ hal' = s
       /\ Hold(t, {})
       /\ Go(t, [Idle EXCEPT !.pc = "read.out", !.obj = i, !.spOut = s.mOutput])

(* Each capture stream is read by one thread.                               *)
ReaderOf(t, i) ==
  /\ Calling(t, "read") /\ i \in hal.mInputs
  /\ \A u \in Threads \ {t} :
       th[u].obj = i => th[u].pc \notin {"read.out", "read.in", "read.io"}

ReadActive(t, i) ==
  /\ ReaderOf(t, i)
  /\ Free(i) /\ ~hal.in[i].mStandby
  /\ Hold(t, {i})
  /\ Go(t, [Idle EXCEPT !.pc = "read.io", !.obj = i])
  /\ UNCHANGED hal

ReadExitStandby(t, i) ==
  /\ ReaderOf(t, i)
  /\ Free(i) /\ HwFree /\ hal.in[i].mStandby
  /\ ReadScan(t, i, hal)

ReadLockOut(t) ==
  /\ th[t].pc = "read.out"
  /\ Free(th[t].spOut)
  /\ Hold(t, {th[t].spOut})
  /\ Go(t, [th[t] EXCEPT !.pc = "read.in"])
  /\ UNCHANGED hal

(* Mutant: the test of the output is negated. *)
ReadLockInStale(t) ==
  /\ th[t].pc = "read.in"
  /\ Free(th[t].obj) /\ HwFree
  /\ IF th[t].spOut # hal.mOutput THEN ReadOpen(t, th[t].obj, th[t].spOut, hal)
     ELSE ReadScan(t, th[t].obj, hal)

ReadLockIn(t) ==
  LET i == th[t].obj
      o == th[t].spOut
  IN  /\ th[t].pc = "read.in"
      /\ Free(i) /\ HwFree
      /\ IF o = hal.mOutput THEN ReadOpen(t, i, o, hal)
         ELSE IF Dies(t, o, hal) THEN Stuck(t, {i}, hal)
         ELSE ReadScan(t, i, hal)

ReadDone(t, ok) ==
  /\ th[t].pc = "read.io"
  /\ ok \in Outcomes("io")
  /\ Hold(t, {})
  /\ Go(t, IF ok THEN Idle
           ELSE [th[t] EXCEPT !.pc = "inStandby", !.victim = th[t].obj])
  /\ UNCHANGED hal

(* standby(), called by the client, by setMicMute and the AEC functions, by *)
(* read() after an error, by closeOutputStream and by the destructor.       *)
InStandby(t, i) ==
  /\ Calling(t, "inStandby") /\ i \in hal.mInputs
  /\ Free(i) /\ HwFree
  /\ InStandbyIn(t, {i}, [Idle EXCEPT !.obj = i, !.victim = i], hal)

InStandbyLock(t) ==
  LET i == th[t].victim
  IN  /\ th[t].pc = "inStandby"
      /\ Free(i) /\ HwFree
      /\ InStandbyIn(t, {i}, th[t], hal)

(* setParameters() with the routing key, and with the input source key,     *)
(* which opens the mixer for setInputSource_l.                              *)
InSetParameters(t, i, d) ==
  LET s == [hal EXCEPT !.in[i].mDevices = d]
  IN  /\ Calling(t, "inRouting") /\ i \in hal.mInputs
      /\ Free(i) /\ HwFree
      /\ hal.in[i].mDevices # d
      /\ IF hal.mMode = "IN_CALL"
         THEN hal' = s /\ UNCHANGED <<own, th>>
         ELSE InStandbyIn(t, {i}, [Idle EXCEPT !.obj = i, !.victim = i], s)

InSetSource(t, i) ==
  /\ Calling(t, "inSource") /\ i \in hal.mInputs
  /\ Free(i) /\ HwFree
  /\ \E ok \in Outcomes("mixer") : hal' = CloseMixer(OpenMixer(hal, ok))
  /\ UNCHANGED <<own, th>>

(* addAudioEffect and removeAudioEffect of an echo canceller: the flag is   *)
(* written without a mutex, then the stream goes to standby.                *)
SetNeedEcho(t, i, c, need) ==
  /\ Calling(t, c) /\ i \in hal.mInputs
  /\ hal.in[i].mNeedEchoReference # need
  /\ hal' = [hal EXCEPT !.in[i].mNeedEchoReference = need]
  /\ Go(t, [Idle EXCEPT !.pc = "inStandby", !.obj = i, !.victim = i])
  /\ UNCHANGED own

AddAudioEffect(t, i) == SetNeedEcho(t, i, "addAec", TRUE)

RemoveAudioEffect(t, i) == SetNeedEcho(t, i, "removeAec", FALSE)

-----------------------------------------------------------------------------
(* AudioHardware                                                            *)

(* setMode() once it holds the mutexes of the active output o and the       *)
(* active input i, as it believes them to be.                               *)
SetModeBody(t, m, o, i, s) ==
  \E ril \in Outcomes("ril") :
    LET a == [s EXCEPT !.mMode = m,
                       !.mActivatedCP = /\ m # "NORMAL"
                                        /\ @ \/ (s.mMode = "NORMAL" /\ ril)]
        reset == [a EXCEPT !.playbackPath = IF a.mMixer THEN "RCV" ELSE @]
        OutDown(b) == IF o = None THEN b ELSE OutDoStandby(b, o)
        InDown(ret, b) ==
          InStandbyIn(t, {o, i} \ {None},
            [Idle EXCEPT !.spOut = o, !.spIn = i, !.victim = i, !.ret = ret], b)
    IN  CASE m = s.mMode -> SetModeReturn(t, o, i, s)
          [] m # s.mMode /\ m = "IN_CALL" /\ ~s.mInCallAudioMode ->
               IF i = None THEN EnterCall(t, o, i, OutDown(a))
               ELSE InDown("enterCall", OutDown(a))
          [] m # s.mMode /\ m = "NORMAL" /\ s.mInCallAudioMode ->
               LET b == OutDown(ClosePcmOut(CloseMixer(reset)))
               IN  IF i = None THEN LeaveCall(t, o, i, b)
                   ELSE InDown("leaveCall", b)
          [] OTHER -> SetModeReturn(t, o, i, a)

(* Mutant: the active input's mutex is not taken. *)
SetModeScanInNoLock(t, m, o, s) == SetModeBody(t, m, o, None, s)

SetModeScanIn(t, m, o, s) ==
  IF ActiveInputs(s) = {} THEN SetModeBody(t, m, o, None, s)
  ELSE \E i \in ActiveInputs(s) :
         /\ hal' = [s EXCEPT !.in[i].snap = @ \cup {t}]
         /\ Hold(t, {o} \ {None})
         /\ Go(t, [Idle EXCEPT !.pc = "setMode.in", !.mode = m, !.spOut = o,
                               !.spIn = i])

(* Mutant: the active output's mutex is not taken. *)
SetModeScanOutNoLock(t, m, s) == SetModeScanIn(t, m, None, s)

SetModeScanOut(t, m, s) ==
  LET o == s.mOutput
  IN  IF o = None \/ s.out[o].mStandby THEN SetModeScanIn(t, m, None, s)
      ELSE /\ hal' = [s EXCEPT !.out[o].snap = @ \cup {t}]
           /\ Hold(t, {})
           /\ Go(t, [Idle EXCEPT !.pc = "setMode.out", !.mode = m, !.spOut = o])

SetMode(t, m) ==
  /\ Calling(t, "setMode") /\ HwFree
  /\ SetModeScanOut(t, m, hal)

SetModeLockOut(t) ==
  LET o == th[t].spOut
      s == [hal EXCEPT !.out[o].snap = @ \ {t}]
  IN  /\ th[t].pc = "setMode.out"
      /\ Free(o) /\ HwFree
      /\ IF o = hal.mOutput /\ t \in hal.out[o].snap
         THEN SetModeScanIn(t, th[t].mode, o, s)
         ELSE IF Dies(t, o, hal) THEN Stuck(t, {}, s)
         ELSE SetModeScanOut(t, th[t].mode, s)

SetModeLockIn(t) ==
  LET o == th[t].spOut
      i == th[t].spIn
      s == [hal EXCEPT !.in[i].snap = @ \ {t}]
  IN  /\ th[t].pc = "setMode.in"
      /\ Free(i) /\ HwFree
      /\ IF i \in ActiveInputs(hal) /\ t \in hal.in[i].snap
         THEN SetModeBody(t, th[t].mode, o, i, s)
         ELSE IF Dies(t, i, hal) THEN Stuck(t, {o} \ {None}, s)
         ELSE SetModeScanIn(t, th[t].mode, o, s)

(* Mutant: the active input keeps its route. *)
SetMicMuteNoStandby(t) ==
  /\ Calling(t, "setMicMute") /\ HwFree
  /\ hal' = [hal EXCEPT !.mMicMute = ~@]
  /\ UNCHANGED <<own, th>>

SetMicMute(t) ==
  LET s == [hal EXCEPT !.mMicMute = ~@]
  IN  /\ Calling(t, "setMicMute") /\ HwFree
      /\ IF hal.mMode = "IN_CALL" \/ ActiveInputs(hal) = {}
         THEN hal' = s /\ UNCHANGED <<own, th>>
         ELSE \E i \in ActiveInputs(hal) :
                /\ hal' = s
                /\ Go(t, [Idle EXCEPT !.pc = "inStandby", !.victim = i,
                                      !.spIn = i])
                /\ UNCHANGED own

(* setParameters() with the FM keys takes no mutex; the client calls it     *)
(* while no other thread is between two steps of a call but pcm_write and   *)
(* pcm_read, and only with an output open.                                  *)
FmQuiet(t) ==
  /\ hal.mOutput # None
  /\ \A u \in Threads \ {t} : th[u].pc \in {"idle", "write.io", "read.io"}

EnableFMRadio(t) ==
  /\ Calling(t, "fmOn") /\ FmQuiet(t) /\ (FmToggles => ~hal.mFmFd)
  /\ hal.mPcmOpenCnt < MaxCnt /\ hal.mMixerOpenCnt < MaxCnt
  /\ \E okPcm \in Outcomes("pcmOut"), okMixer \in Outcomes("mixer") :
        hal' = EnableFm(hal, okPcm, okMixer)
  /\ UNCHANGED <<own, th>>

DisableFMRadio(t) ==
  /\ Calling(t, "fmOff") /\ FmQuiet(t) /\ (FmToggles => hal.mFmFd)
  /\ hal' = DisableFm(hal)
  /\ UNCHANGED <<own, th>>

-----------------------------------------------------------------------------
OutCalls(t) ==
  \/ \E d \in OutDevices : OpenOutputStream(t, d) \/ OutSetParameters(t, d)
  \/ CloseOutputStream(t) \/ OutStandby(t)
  \/ WriteActive(t) \/ WriteExitStandby(t)

InCalls(t) ==
  \/ \E d \in InDevices : \/ OpenInputStream(t, d)
                          \/ \E i \in InStreams : InSetParameters(t, i, d)
  \/ \E i \in InStreams : \/ CloseInputStream(t, i) \/ InStandby(t, i)
                          \/ InSetSource(t, i)
                          \/ AddAudioEffect(t, i) \/ RemoveAudioEffect(t, i)
                          \/ ReadActive(t, i) \/ ReadExitStandby(t, i)

HwCalls(t) ==
  \/ \E m \in Modes : SetMode(t, m)
  \/ SetMicMute(t) \/ EnableFMRadio(t) \/ DisableFMRadio(t)

(* A thread that is in a call goes on with it.                              *)
Advance(t) ==
  \/ WriteLockIn(t) \/ OutStandbyLock(t) \/ ReadLockOut(t) \/ ReadLockIn(t)
  \/ InStandbyLock(t) \/ EchoLockOut(t) \/ EchoLockIn(t)
  \/ SetModeLockOut(t) \/ SetModeLockIn(t)
  \/ \E ok \in BOOLEAN : WriteDone(t, ok) \/ ReadDone(t, ok)

Next == \E t \in Threads : OutCalls(t) \/ InCalls(t) \/ HwCalls(t) \/ Advance(t)

Spec == Init /\ [][Next]_vars

(* The mutexes the next step of a thread in a call takes.                   *)
Wants(t) ==
  LET r == th[t]
  IN  CASE r.pc \in {"write.in", "setMode.in"} -> {r.spIn, "hw"}
        [] r.pc \in {"outStandby", "inStandby"} -> {r.victim, "hw"}
        [] r.pc = "read.out" -> {r.spOut}
        [] r.pc = "read.in" -> {r.obj, "hw"}
        [] r.pc = "echo.out" -> {r.echoOut}
        [] r.pc = "echo.in" -> {r.victim, "hw"}
        [] r.pc = "setMode.out" -> {r.spOut, "hw"}
        [] r.pc = "stuck" -> {"hw"}
        [] OTHER -> {}

(* A thread inside a call whose mutexes are free can go on: this is what    *)
(* ENABLED <<Advance(t)>>_vars comes to.                                    *)
CanAdvance(t) == th[t].pc # "idle" /\ \A l \in Wants(t) : Free(l)

(* Strong fairness of Advance: pcm_write and pcm_read return, and a thread  *)
(* gets the mutexes it waits for if they are free again and again.  That is *)
(* what prepareLock() is for: the thread that would take the mutex again at *)
(* once sleeps first and leaves it to the one that waits.                   *)
FairSpec ==
  Spec /\ \A t \in Threads :
            []<>CanAdvance(t) => []<><<Advance(t)>>_vars


-----------------------------------------------------------------------------
(* Properties                                                               *)

Rank(l) == CASE l \in OutStreams -> 1 [] l \in InStreams -> 2 [] OTHER -> 3

(* "Mutex acquisition order is always out -> in -> hw" (setMode, write,     *)
(* read, doStandby_l): no thread waits for a mutex while it holds that one, *)
(* another of its kind or a later one.                                      *)
LockOrder ==
  \A t \in Threads : \A l \in Held(t), k \in Wants(t) : Rank(l) < Rank(k)

(* A call has one use of the playback device and the mixer, and so has FM;  *)
(* a call that waits to give an echo reference back has given its use up.   *)
CallUse ==
  IF hal.mInCallAudioMode
     /\ ~\E t \in Threads : th[t].pc # "idle" /\ th[t].ret = "leaveCall"
  THEN 1 ELSE 0

FmUse == IF hal.mFmFd THEN 1 ELSE 0

PlayingOuts == {o \in OutStreams : hal.out[o].mPcm}

(* The counts of openPcmOut_l and openMixer_l are the uses the streams and  *)
(* the call have of the devices, through every reopening, failed opening,   *)
(* standby and destructor: no use is given back twice or never.             *)
PcmBalanced ==
  /\ hal.mPcmOpenCnt = Cardinality(PlayingOuts) + CallUse + FmUse
  /\ hal.mPcm = (hal.mPcmOpenCnt > 0)

MixerBalanced ==
  /\ hal.mMixerOpenCnt = Cardinality({o \in OutStreams : hal.out[o].mMixer})
                          + Cardinality({i \in InStreams : hal.in[i].mMixer})
                          + CallUse + FmUse
  /\ hal.mMixer = (hal.mMixerOpenCnt > 0)

(* Both, for the runs: a use that is lost keeps a device open for ever, and *)
(* one given back twice closes it under a stream that plays.                *)
DevicesBalanced == PcmBalanced /\ MixerBalanced

(* pcm_write and pcm_read, which run without the hardware mutex, never see  *)
(* their device closed by another thread: not by a reader that reopens the  *)
(* output, a writer that reopens the input, setMode, or a close.            *)
IoOnOpenDevice ==
  \A t \in Threads :
    /\ th[t].pc = "write.io" => /\ hal.out[th[t].obj].mPcm /\ hal.mPcm
                                /\ ~hal.out[th[t].obj].mStandby
                                /\ own[th[t].obj] = t
    /\ th[t].pc = "read.io" => /\ hal.in[th[t].obj].mPcm
                               /\ ~hal.in[th[t].obj].mStandby
                               /\ own[th[t].obj] = t

(* The wake lock, which the kernel knows by name and does not count, is     *)
(* held while an output is out of standby or a write() is leaving standby,  *)
(* and only then.                                                           *)
WakeLockMatchesPlayback ==
  hal.wakeLock = \/ \E o \in OutStreams : ~hal.out[o].mStandby
                 \/ \E t \in Threads : th[t].pc = "write.in"

(* Outside a call the output, if it plays, is routed to the device the      *)
(* policy chose last, whatever calls, routings and reopenings came in       *)
(* between.  (One that was closed and waits for its destructor has no route *)
(* of its own any more: the end of a call leaves it on the earpiece.)       *)
RouteFollowsPolicy ==
  LET o == hal.mOutput
  IN  o # None /\ ~hal.mInCallAudioMode /\ ~hal.out[o].mStandby /\ hal.out[o].mMixer
        => hal.playbackPath = OutputRoute(hal.out[o].mDevices)

(* Outside a call, once setMicMute has returned, an input that captures is  *)
(* routed to its device, or to nothing while the microphone is muted: no    *)
(* read() that leaves standby meanwhile keeps the old route.                *)
MicMuteHonoured ==
  \A i \in hal.mInputs :
    /\ ~hal.mInCallAudioMode /\ ~hal.in[i].mStandby /\ hal.in[i].mMixer
    /\ \A t \in Threads : th[t].victim # i
    => hal.memoPath = InputRoute(hal.mMicMute, hal.in[i].mDevices)

(* "return first input found not being in standby mode as only one input    *)
(* can be in this state" (getActiveInput_l).                                *)
OneActiveInput == Cardinality(ActiveInputs(hal)) <= 1

(* No stream keeps a pointer to an echo reference that was released.        *)
EchoReferenceLive ==
  /\ hal.mEchoReference \in hal.echoLive \cup {None}
  /\ \A o \in OutStreams :
       hal.out[o].mEchoReference \in hal.echoLive \cup {None}
  /\ \A i \in InStreams :
       hal.in[i].mEchoReference \in hal.echoLive \cup {None}

(* "this will safely release the echo reference by calling                  *)
(* releaseEchoReference() after placing the active input in standby"        *)
(* (closeOutputStream): an echo reference lives only while a capture stream *)
(* has it.                                                                  *)
EchoReferenceReturned ==
  hal.echoLive \subseteq {hal.in[i].mEchoReference : i \in InStreams}

(* Both, for the runs: through standby of either stream, effects that come  *)
(* and go, failed openings and destructors, the references that live are    *)
(* those of the capture streams, and no stream has one that was released.   *)
EchoReferencesMatch == EchoReferenceLive /\ EchoReferenceReturned

(* setMode has the mutexes of the streams that are active when the call     *)
(* route takes over or ends ("make sure that another thread did not change  *)
(* output state while the mutex is released"): no pcm_write and no pcm_read *)
(* is under way in that step.                                               *)
CallSwitchExclusive ==
  [][hal'.mInCallAudioMode # hal.mInCallAudioMode
       => \A t \in Threads : th[t].pc \notin {"write.io", "read.io"}]_vars

(* The weaker guarantee the waits of setMode do give: only an output that   *)
(* left standby while setMode waited for the input can be in pcm_write then. *)
CallSwitchGuarded ==
  [][hal'.mInCallAudioMode # hal.mInCallAudioMode
       => \A t \in Threads :
            /\ th[t].pc # "read.io"
            /\ th[t].pc = "write.io" =>
                 \E u \in Threads : th[u].pc = "setMode.in"]_vars

(* Every call returns: no set of threads waits for one another for ever and *)
(* no loop that retries with fresh pointers runs for ever.                  *)
EveryCallReturns ==
  \A t \in Threads : th[t].pc # "idle" ~> th[t].pc = "idle"

=============================================================================
