-------------------------- MODULE AudioSafety_proofs --------------------------
(* Theorems about the devices and the mutexes of AudioHardware where nobody  *)
(* cancels echoes and the devices of a call, and those of FM, open: no use   *)
(* of the playback pcm and the mixer is lost or given back twice, pcm_write  *)
(* and pcm_read keep their device, and at most one input captures.  Then the *)
(* order in which the mutexes are taken, and that the route of a call is     *)
(* switched only while no other thread uses a device.                        *)
EXTENDS AudioHardware_proofs

(* What is assumed of the clients and the drivers, theorem by theorem.       *)
NoEcho == \A t \in Threads : "addAec" \notin Calls[t]

CallsOpen == {"callPcm", "callMixer"} \cap Faults = {}

FmOpens ==
  (\E t \in Threads : {"fmOn", "fmOff"} \cap Calls[t] # {})
    => FmToggles /\ {"pcmOut", "mixer"} \cap Faults = {}

Assumed == NoEcho /\ CallsOpen /\ FmOpens

-----------------------------------------------------------------------------
(* The invariant.  First what it says of a state s of the object.            *)

Alive(s, x) ==
  (x \in OutStreams => s.out[x].alive) /\ (x \in InStreams => s.in[x].alive)

Member(s, x) == x = s.mOutput \/ x \in s.mInputs

MembersAlive(s) == \A x \in Streams : Member(s, x) => Alive(s, x)

(* A stream out of standby has its pcm; one in standby has no device, but    *)
(* for the streams X a step is busy with.                                    *)
Playing(p) == ~p.mStandby => p.mPcm /\ p.alive

Settled(p) == Playing(p) /\ (p.mStandby => Off(p))

AllPlaying(s) ==
  (\A o \in OutStreams : Playing(s.out[o])) /\ (\A i \in InStreams : Playing(s.in[i]))

AllSettled(s, X) ==
  /\ \A o \in OutStreams : o \notin X => Settled(s.out[o])
  /\ \A i \in InStreams : i \notin X => Settled(s.in[i])

OneCapture(s) ==
  \A i, j \in InStreams : s.in[i].mPcm /\ s.in[j].mPcm => i = j

FmCalled == \E t \in Threads : "fmOn" \in Calls[t]

FmKnown(s) ==
  /\ s.mFmFd \/ s.mFmResumeAfterCall => FmCalled
  /\ s.mFmResumeAfterCall => ~s.mFmFd

(* FM waits for the end of the call only while there is one.                 *)
FmWaits(s) == s.mFmResumeAfterCall => s.mMode = "IN_CALL"

FmPart(s) == IF s.mFmFd THEN 1 ELSE 0

UseOf(s) == (IF s.mInCallAudioMode THEN 1 ELSE 0) + FmPart(s)

HalSafe(s) ==
  /\ NoEchoRefs(s) /\ MembersAlive(s)
  /\ AllPlaying(s) /\ OneCapture(s)
  /\ FmKnown(s) /\ FmWaits(s)
  /\ Uses(s, UseOf(s))

(* What it says of the record q of a thread, alone and in state s, and of    *)
(* the records of two threads.                                               *)
LocksOf(q) ==
  CASE q.pc \in {"write.in", "write.io", "read.io"} -> {q.obj}
    [] q.pc \in {"read.in", "setMode.in"} -> {q.spOut} \ {None}
    [] OTHER -> {}

Form(q) ==
  /\ q.ret \in {"return", "free"} /\ q.pc \notin {"echo.out", "echo.in"}
  /\ q.pc = "idle" => q = Idle
  /\ q.ret = "free" => /\ q.pc \in {"outStandby", "inStandby"}
                       /\ q.victim \notin PointersOf(q)

Linked(q, s) ==
  /\ q.obj # None => Member(s, q.obj)
  /\ \A x \in PointersOf(q) : Alive(s, x)

Fits(q, s) ==
  /\ Linked(q, s)
  /\ q.ret = "free" => Alive(s, q.victim) /\ ~Member(s, q.victim)
  /\ q.pc = "write.io" => ~s.out[q.obj].mStandby
  /\ q.pc = "read.io" => ~s.in[q.obj].mStandby
  /\ q.pc = "write.in" => s.out[q.obj].mStandby
  /\ q.pc \in {"read.out", "read.in"} => s.in[q.obj].mStandby

Readers == {"read.out", "read.in", "read.io"}

Apart(q, r) ==
  /\ q.pc \in Readers /\ r.pc \in Readers => q.obj # r.obj
  /\ q.ret = "free" => q.victim \notin PointersOf(r)
  /\ r.ret = "free" => r.victim \notin PointersOf(q)
  /\ q.ret = "free" /\ r.ret = "free" => q.victim # r.victim

LocksHeld ==
  \A t \in Threads : IF th[t].pc = "stuck" THEN own["hw"] = t
                     ELSE Held(t) = LocksOf(th[t])

Safe ==
  /\ HalSafe(hal)
  /\ HwFree => AllSettled(hal, {})
  /\ LocksHeld
  /\ \A t \in Threads : Form(th[t]) /\ Fits(th[t], hal)
  /\ \A t, u \in Threads : t # u => Apart(th[t], th[u])

-----------------------------------------------------------------------------
(* A step of thread t.  The mutexes it may take; the streams the records of  *)
(* other threads say something about.                                        *)
Mine(t) == {l \in Locks : own[l] \in {t, None}}

Others(t) == Threads \ {t}

Guarded == {"write.io", "read.io", "write.in"}

LEMMA MineOnly ==
  ASSUME TypeOK, Safe, NEW t \in Threads, NEW u \in Others(t),
         th[u].pc \in Guarded
  PROVE  th[u].obj \notin Mine(t)
  <1>1. u \in Threads /\ u # t /\ u # None
    BY HalAssumption DEF Others
  <1>2. Held(u) = {th[u].obj}
    BY <1>1 DEF Safe, LocksHeld, LocksOf, Guarded
  <1>3. own[th[u].obj] = u
    BY <1>2 DEF Held
  <1> QED
    BY <1>1, <1>3 DEF Mine

LEMMA HoldEffect ==
  ASSUME TypeOK, NEW t \in Threads, NEW K, K \subseteq Mine(t), Hold(t, K)
  PROVE  /\ {l \in Locks : own'[l] = t} = K
         /\ \A u \in Others(t) : {l \in Locks : own'[l] = u} = Held(u)
  <1>0. None \notin Threads /\ K \subseteq Locks
    BY HalAssumption DEF Mine
  <1>1. \A l \in Locks : own'[l] = IF l \in K THEN t
                                   ELSE IF own[l] = t THEN None ELSE own[l]
    BY DEF Hold
  <1>2. {l \in Locks : own'[l] = t} = K
    BY <1>0, <1>1
  <1>3. ASSUME NEW u \in Others(t), NEW l \in Locks
        PROVE  own'[l] = u <=> own[l] = u
    BY <1>0, <1>1, <1>3 DEF Others, Mine
  <1> QED
    BY <1>2, <1>3 DEF Held

LEMMA FrameLives ==
  ASSUME NEW s, NEW a, NEW Y, Frame(s, a, Y)
  PROVE  /\ a \in HalState
         /\ \A x : Alive(a, x) <=> Alive(s, x)
         /\ \A x : Member(a, x) <=> Member(s, x)
         /\ MembersAlive(s) => MembersAlive(a)
         /\ NoEchoRefs(s) => NoEchoRefs(a)
  <1>1. /\ \A x : Alive(a, x) <=> Alive(s, x)
        /\ \A x : Member(a, x) <=> Member(s, x)
    BY DEF Frame, Alive, Member
  <1> QED
    BY <1>1 DEF Frame, MembersAlive

LEMMA FrameFits ==
  ASSUME NEW s, NEW a, NEW Y, Frame(s, a, Y), NEW q, HasPointers(q), Fits(q, s),
         q.pc \in Guarded => q.obj \notin Y,
         q.pc \in {"read.out", "read.in"} =>
           (s.in[q.obj].mStandby => a.in[q.obj].mStandby)
  PROVE  Fits(q, a)
  <1>1. Linked(q, a)
    BY FrameLives DEF Linked, Fits
  <1>2. q.ret = "free" => Alive(a, q.victim) /\ ~Member(a, q.victim)
    BY FrameLives DEF Fits
  <1>3. q.pc = "write.io" => ~a.out[q.obj].mStandby
    BY DEF Fits, Frame, SameDev, HasPointers, Guarded
  <1>4. q.pc = "read.io" => ~a.in[q.obj].mStandby
    BY DEF Fits, Frame, SameDev, HasPointers, Guarded
  <1>5. q.pc = "write.in" => a.out[q.obj].mStandby
    BY DEF Fits, Frame, SameDev, HasPointers, Guarded
  <1>6. q.pc \in {"read.out", "read.in"} => a.in[q.obj].mStandby
    BY DEF Fits
  <1> QED
    BY <1>1, <1>2, <1>3, <1>4, <1>5, <1>6 DEF Fits

(* A state of the object that thread t may leave behind.                     *)
Sound(t, s) ==
  /\ s \in HalState /\ HalSafe(s)
  /\ HwFree => AllSettled(s, {})
  /\ \A u \in Others(t) : Fits(th[u], s)

LEMMA GoSafe ==
  ASSUME TypeOK, Safe, NEW t \in Threads, th[t].pc # "stuck",
         NEW s, Sound(t, s), hal' = s,
         NEW q, NEW K, Hold(t, K), K \subseteq Mine(t), K = LocksOf(q),
         Go(t, q), q.pc # "stuck", Form(q), Fits(q, s),
         \A u \in Others(t) : Apart(q, th[u])
  PROVE  Safe'
  <1>1. th'[t] = q /\ \A u \in Others(t) : th'[u] = th[u]
    BY DEF Go, TypeOK, Others
  <1>2. HalSafe(hal')
    BY DEF Sound
  <1>3. own'["hw"] = None => own["hw"] = None
    <2>1. own["hw"] # t
      <3>1. "hw" \notin LocksOf(th[t])
        BY HalAssumption, ThreadFields DEF TypeOK, LocksOf, HasPointers, Streams
      <3> QED
        BY <3>1 DEF Safe, LocksHeld, Held, Locks
    <2>2. "hw" \in Locks /\ t # None
      BY HalAssumption DEF Locks
    <2> QED
      BY <2>1, <2>2 DEF Hold
  <1>4. (HwFree => AllSettled(hal, {}))'
    BY <1>3 DEF HwFree, Free, Sound
  <1>5. LocksHeld'
    <2> SUFFICES ASSUME NEW u \in Threads
                 PROVE  IF th'[u].pc = "stuck" THEN own'["hw"] = u
                        ELSE {l \in Locks : own'[l] = u} = LocksOf(th'[u])
      BY DEF LocksHeld, Held
    <2>1. CASE u = t
      BY <1>1, <2>1, HoldEffect
    <2>2. CASE u # t
      <3>1. u \in Others(t)
        BY <2>2 DEF Others
      <3>2. {l \in Locks : own'[l] = u} = Held(u) /\ th'[u] = th[u]
        BY <1>1, <3>1, HoldEffect
      <3>3. own["hw"] = u => own'["hw"] = u
        BY <3>2 DEF Held, Locks
      <3> QED
        BY <3>2, <3>3 DEF Safe, LocksHeld
    <2> QED
      BY <2>1, <2>2
  <1>6. \A u \in Threads : Form(th'[u]) /\ Fits(th'[u], hal')
    BY <1>1 DEF Safe, Sound, Others
  <1>7. \A u, v \in Threads : u # v => Apart(th'[u], th'[v])
    <2>1. \A u \in Others(t) : Apart(th[u], q)
      BY DEF Apart
    <2> QED
      BY <1>1, <2>1 DEF Safe, Others
  <1> QED
    BY <1>2, <1>4, <1>5, <1>6, <1>7 DEF Safe

(* A step of an idle thread that touches no mutex.                           *)
LEMMA IdleHolds ==
  ASSUME TypeOK, Safe, NEW t \in Threads, th[t].pc = "idle"
  PROVE  /\ th[t] = Idle /\ LocksOf(Idle) = {} /\ Form(Idle)
         /\ \A s : Fits(Idle, s)
         /\ \A u : Form(th[u]) => Apart(Idle, th[u])
         /\ own' = own => Hold(t, {})
         /\ th' = th => Go(t, Idle)
  <1>1. th[t] = Idle
    BY DEF Safe, Form
  <1>2. LocksOf(Idle) = {} /\ PointersOf(Idle) = {}
    BY DEF LocksOf, Idle, PointersOf
  <1>3. Form(Idle) /\ \A s : Fits(Idle, s)
    BY <1>2 DEF Form, Fits, Linked, Idle
  <1>4. \A u : Apart(Idle, th[u])
    BY <1>2 DEF Apart, Idle, Readers
  <1>5. own' = own => Hold(t, {})
    <2>1. Held(t) = {}
      BY <1>1, <1>2 DEF Safe, LocksHeld, Idle
    <2>2. \A l \in Locks : own[l] # t
      BY <2>1 DEF Held
    <2> QED
      BY <2>2 DEF Hold, TypeOK
  <1>6. th' = th => Go(t, Idle)
    BY <1>1 DEF Go, TypeOK
  <1> QED
    BY <1>1, <1>2, <1>3, <1>4, <1>5, <1>6

LEMMA KeepSafe ==
  ASSUME TypeOK, Safe, NEW t \in Threads, th[t].pc = "idle",
         NEW s, Sound(t, s), hal' = s, UNCHANGED <<own, th>>
  PROVE  Safe'
  <1>1. Hold(t, {}) /\ Go(t, Idle) /\ {} = LocksOf(Idle) /\ Idle.pc # "stuck"
    BY IdleHolds DEF Idle
  <1>2. Form(Idle) /\ Fits(Idle, s) /\ \A u \in Others(t) : Apart(Idle, th[u])
    BY IdleHolds DEF Safe, Others
  <1> QED
    BY <1>1, <1>2, GoSafe

-----------------------------------------------------------------------------
(* A state of the object on the way, inside a step of thread t: only streams *)
(* whose mutexes are its own were touched, none left standby, and all but X  *)
(* are settled.                                                              *)
Ready(t, s, X, n) ==
  /\ Frame(hal, s, Mine(t))
  /\ \A i \in InStreams : hal.in[i].mStandby => s.in[i].mStandby
  /\ Uses(s, n) /\ OneCapture(s) /\ FmKnown(s)
  /\ AllSettled(s, X)

LEMMA ReadyStart ==
  ASSUME TypeOK, Safe, HwFree, NEW t \in Threads
  PROVE  Ready(t, hal, {}, UseOf(hal)) /\ FmWaits(hal)
  <1>1. Frame(hal, hal, Mine(t))
    BY DEF Frame, SameDev, TypeOK
  <1> QED
    BY <1>1 DEF Safe, HalSafe, Ready

LEMMA ReadyStep ==
  ASSUME NEW t, NEW s, NEW X, NEW n, Ready(t, s, X, n),
         NEW a, NEW Y, Frame(s, a, Y), Y \subseteq Mine(t),
         \A i \in InStreams : s.in[i].mStandby => a.in[i].mStandby,
         NEW m, Uses(a, m), OneCapture(a), FmKnown(a),
         NEW Z, \A o \in OutStreams : o \notin Z /\ o \in X \cup Y => Settled(a.out[o]),
         \A i \in InStreams : i \notin Z /\ i \in X \cup Y => Settled(a.in[i])
  PROVE  Ready(t, a, Z, m)
  <1>1. Frame(hal, a, Mine(t))
    BY FrameMore, FrameTrans DEF Ready
  <1>2. AllSettled(a, Z)
    <2>1. ASSUME NEW o \in OutStreams, o \notin Z PROVE Settled(a.out[o])
      <3>1. CASE o \in X \cup Y
        BY <2>1, <3>1
      <3>2. CASE o \notin X \cup Y
        BY <3>2 DEF Ready, AllSettled, Frame, SameDev, Settled, Playing, Off
      <3> QED
        BY <3>1, <3>2
    <2>2. ASSUME NEW i \in InStreams, i \notin Z PROVE Settled(a.in[i])
      <3>1. CASE i \in X \cup Y
        BY <2>2, <3>1
      <3>2. CASE i \notin X \cup Y
        BY <3>2 DEF Ready, AllSettled, Frame, SameDev, Settled, Playing, Off
      <3> QED
        BY <3>1, <3>2
    <2> QED
      BY <2>1, <2>2 DEF AllSettled
  <1> QED
    BY <1>1, <1>2 DEF Ready

LEMMA ReadyCalm ==
  ASSUME NEW t, NEW s, NEW X, NEW n, Ready(t, s, X, n), NEW a, Calm(s, a), FmKnown(a)
  PROVE  Ready(t, a, X, n)
  <1>1. Frame(s, a, {}) /\ Uses(a, n)
    BY CalmUses DEF Ready, Calm
  <1>2. OneCapture(a) /\ \A i \in InStreams : s.in[i].mStandby => a.in[i].mStandby
    BY <1>1 DEF Ready, OneCapture, Frame, SameDev
  <1>3. Frame(hal, a, Mine(t))
    BY <1>1, FrameMore, FrameTrans DEF Ready
  <1>4. AllSettled(a, X)
    BY <1>1 DEF Ready, AllSettled, Frame, SameDev, Settled, Playing, Off
  <1> QED
    BY <1>1, <1>2, <1>3, <1>4 DEF Ready

LEMMA SameCallKeeps ==
  ASSUME NEW s, NEW a, SameCall(s, a)
  PROVE  /\ FmKnown(s) => FmKnown(a)
         /\ FmWaits(s) => FmWaits(a)
         /\ UseOf(a) = UseOf(s) /\ FmPart(a) = FmPart(s)
  BY DEF SameCall, FmKnown, FmWaits, UseOf, FmPart

(* What holds on the way.                                                    *)
LEMMA ReadyMeans ==
  ASSUME TypeOK, Safe, NEW t \in Threads, NEW s, NEW X, NEW n, Ready(t, s, X, n)
  PROVE  /\ s \in HalState /\ s.mOutput = hal.mOutput /\ s.mInputs = hal.mInputs
         /\ NoEchoRefs(s) /\ MembersAlive(s)
         /\ \A x : Alive(s, x) <=> Alive(hal, x)
         /\ \A x : Member(s, x) <=> Member(hal, x)
         /\ \A u \in Others(t) : Fits(th[u], s)
  <1>1. Frame(hal, s, Mine(t)) /\ NoEchoRefs(hal) /\ MembersAlive(hal)
    BY DEF Ready, Safe, HalSafe
  <1>2. ASSUME NEW u \in Others(t) PROVE Fits(th[u], s)
    <2>1. u \in Threads /\ HasPointers(th[u]) /\ Fits(th[u], hal)
      BY DEF Others, TypeOK, Safe
    <2>2. th[u].pc \in Guarded => th[u].obj \notin Mine(t)
      BY MineOnly
    <2>3. th[u].pc \in {"read.out", "read.in"} => th[u].obj \in InStreams
      BY <2>1 DEF HasPointers
    <2>4. th[u].pc \in {"read.out", "read.in"} =>
            (hal.in[th[u].obj].mStandby => s.in[th[u].obj].mStandby)
      BY <2>3 DEF Ready
    <2> QED
      BY <1>1, <2>1, <2>2, <2>4, FrameFits
  <1> QED
    BY <1>1, <1>2, FrameLives DEF Frame

LEMMA ReadySafe ==
  ASSUME TypeOK, Safe, NEW t \in Threads, NEW s, NEW X, Ready(t, s, X, UseOf(s)),
         FmWaits(s), AllPlaying(s)
  PROVE  HalSafe(s)
  BY ReadyMeans DEF Ready, HalSafe

LEMMA ReadySound ==
  ASSUME TypeOK, Safe, NEW t \in Threads, NEW s, Ready(t, s, {}, UseOf(s)),
         FmWaits(s)
  PROVE  Sound(t, s)
  <1>1. AllSettled(s, {})
    BY DEF Ready
  <1>2. AllPlaying(s)
    BY <1>1 DEF AllSettled, AllPlaying, Settled
  <1>3. HalSafe(s)
    BY <1>2, ReadySafe
  <1> QED
    BY <1>1, <1>3, ReadyMeans DEF Sound

(* Stream x is there, and no other thread destroys it.                       *)
Good(t, x) ==
  x # None => Alive(hal, x) /\ \A u \in Others(t) : th[u].ret = "free" => th[u].victim # x

LEMMA GoodMember ==
  ASSUME TypeOK, Safe, NEW t, NEW x, Member(hal, x), x \in Streams \cup {None}
  PROVE  Good(t, x)
  BY DEF Safe, HalSafe, MembersAlive, Fits, Good, Others

LEMMA GoodPointer ==
  ASSUME TypeOK, Safe, NEW t \in Threads, NEW x,
         x \in {th[t].spOut, th[t].spIn, th[t].echoOut}
  PROVE  Good(t, x)
  <1>1. x # None => x \in PointersOf(th[t])
    BY DEF PointersOf
  <1> QED
    BY <1>1 DEF Safe, Fits, Linked, Apart, Good, Others

LEMMA ApartGood ==
  ASSUME NEW t, NEW q, q.ret # "free", q.pc \notin Readers,
         \A x \in PointersOf(q) : Good(t, x)
  PROVE  \A u \in Others(t) : Apart(q, th[u])
  BY DEF Apart, Good, PointersOf

(* A thread that waits for the hardware mutex it holds.                      *)
LEMMA StuckSafe ==
  ASSUME TypeOK, Safe, HwFree, NEW t \in Threads, th[t].pc # "stuck",
         th[t].ret = "return", NEW s, NEW X, Ready(t, s, X, UseOf(s)), FmWaits(s),
         AllPlaying(s), NEW K, K \subseteq Mine(t), Stuck(t, K, s)
  PROVE  Safe'
  <1> DEFINE q == [th[t] EXCEPT !.pc = "stuck"]
             K2 == K \cup {"hw"}
  <1>1. th[t] \in ThreadState
    BY DEF TypeOK
  <1>2. /\ q.pc = "stuck" /\ q.ret = "return" /\ q.obj = th[t].obj
        /\ q.spOut = th[t].spOut /\ q.spIn = th[t].spIn /\ q.echoOut = th[t].echoOut
    BY <1>1 DEF ThreadState
  <1>3. hal' = s /\ Hold(t, K2) /\ Go(t, q)
    BY DEF Stuck
  <1> HIDE DEF q
  <1>4. K2 \subseteq Mine(t) /\ "hw" \in K2 /\ "hw" \in Locks
    BY DEF HwFree, Free, Mine, Locks
  <1> HIDE DEF K2
  <1>5. th'[t] = q /\ \A u \in Others(t) : th'[u] = th[u]
    BY <1>3 DEF Go, TypeOK, Others
  <1>6. HalSafe(s)
    BY ReadySafe
  <1>7. own'["hw"] = t /\ t # None
    BY <1>3, <1>4, HalAssumption DEF Hold
  <1>8. (HwFree => AllSettled(hal, {}))'
    BY <1>7 DEF HwFree, Free
  <1>9. LocksHeld'
    <2> SUFFICES ASSUME NEW u \in Threads
                 PROVE  IF th'[u].pc = "stuck" THEN own'["hw"] = u
                        ELSE {l \in Locks : own'[l] = u} = LocksOf(th'[u])
      BY DEF LocksHeld, Held
    <2>1. CASE u = t
      BY <1>2, <1>5, <1>7, <2>1
    <2>2. CASE u # t
      <3>1. u \in Others(t)
        BY <2>2 DEF Others
      <3>2. {l \in Locks : own'[l] = u} = Held(u) /\ th'[u] = th[u]
        BY <1>3, <1>4, <1>5, <3>1, HoldEffect
      <3>3. own["hw"] # u
        BY HalAssumption DEF HwFree, Free
      <3> QED
        BY <3>2, <3>3 DEF Safe, LocksHeld
    <2> QED
      BY <2>1, <2>2
  <1>10. PointersOf(q) = PointersOf(th[t])
    BY <1>2 DEF PointersOf
  <1>11. Form(q)
    BY <1>2 DEF Form
  <1>12. Linked(q, s)
    BY <1>2, <1>10, ReadyMeans DEF Safe, Fits, Linked
  <1>13. Fits(q, s)
    BY <1>2, <1>12 DEF Fits
  <1>14. \A u \in Others(t) : Fits(th[u], s)
    BY ReadyMeans
  <1>15. \A u \in Threads : Form(th'[u]) /\ Fits(th'[u], hal')
    BY <1>3, <1>5, <1>11, <1>13, <1>14 DEF Safe, Others
  <1>16. \A u \in Others(t) : Apart(q, th[u])
    BY <1>2, <1>10 DEF Safe, Apart, Others, Readers
  <1>17. \A u, v \in Threads : u # v => Apart(th'[u], th'[v])
    <2>1. \A u \in Others(t) : Apart(th[u], q)
      BY <1>16 DEF Apart
    <2> QED
      BY <1>5, <1>16, <2>1 DEF Safe, Others
  <1> QED
    BY <1>3, <1>6, <1>8, <1>9, <1>15, <1>17 DEF Safe

(* A call returns, and may destroy the stream it drops.                      *)
LEMMA LeaveSafe ==
  ASSUME TypeOK, Safe, NEW t \in Threads, th[t].pc # "stuck",
         NEW o \in OutStreams \cup {None}, NEW i \in InStreams \cup {None},
         Good(t, o), Good(t, i), NEW s, Sound(t, s),
         o # None => Alive(s, o), i # None => Alive(s, i), Leave(t, o, i, s)
  PROVE  Safe'
  <1> DEFINE p == [Idle EXCEPT !.pc = "outStandby", !.victim = o, !.ret = "free",
                               !.spIn = i]
             q == [Idle EXCEPT !.pc = "inStandby", !.victim = i, !.ret = "free"]
  <1>1. hal' = s /\ Hold(t, {}) /\ {} \subseteq Mine(t)
    BY DEF Leave
  <1>2. CASE Dies(t, o, s)
    <2>1. /\ p.pc = "outStandby" /\ p.victim = o /\ p.ret = "free" /\ p.obj = None
          /\ p.spOut = None /\ p.spIn = i /\ p.echoOut = None
      BY DEF Idle
    <2>2. Go(t, p)
      BY <1>2 DEF Leave
    <2> HIDE DEF p
    <2>3. PointersOf(p) = {i} \ {None} /\ o # None /\ ~Member(s, o)
      BY <1>2, <2>1 DEF PointersOf, Dies, Member
    <2>4. o # i
      BY <2>3, HalAssumption
    <2>5. Form(p) /\ Fits(p, s) /\ {} = LocksOf(p)
      BY <2>1, <2>3, <2>4 DEF Form, Fits, Linked, LocksOf
    <2>6. \A u \in Others(t) : Apart(p, th[u])
      BY <1>2, <2>1, <2>3 DEF Apart, Good, Dies, Others, Readers
    <2> QED
      BY <1>1, <2>1, <2>2, <2>5, <2>6, GoSafe
  <1>3. CASE ~Dies(t, o, s) /\ Dies(t, i, s)
    <2>1. /\ q.pc = "inStandby" /\ q.victim = i /\ q.ret = "free" /\ q.obj = None
          /\ q.spOut = None /\ q.spIn = None /\ q.echoOut = None
      BY DEF Idle
    <2>2. Go(t, q)
      BY <1>3 DEF Leave
    <2> HIDE DEF q
    <2>3. PointersOf(q) = {} /\ i # None /\ ~Member(s, i)
      BY <1>3, <2>1 DEF PointersOf, Dies, Member
    <2>4. Form(q) /\ Fits(q, s) /\ {} = LocksOf(q)
      BY <2>1, <2>3 DEF Form, Fits, Linked, LocksOf
    <2>5. \A u \in Others(t) : Apart(q, th[u])
      BY <1>3, <2>1, <2>3 DEF Apart, Good, Dies, Others, Readers
    <2> QED
      BY <1>1, <2>1, <2>2, <2>4, <2>5, GoSafe
  <1>4. CASE ~Dies(t, o, s) /\ ~Dies(t, i, s)
    <2>1. Go(t, Idle)
      BY <1>4 DEF Leave
    <2>2. PointersOf(Idle) = {} /\ Idle.pc = "idle" /\ Idle.ret = "return"
          /\ Idle.obj = None
      BY DEF PointersOf, Idle
    <2>3. Form(Idle) /\ Fits(Idle, s) /\ {} = LocksOf(Idle)
      BY <2>2 DEF Form, Fits, Linked, LocksOf
    <2>4. \A u \in Others(t) : Apart(Idle, th[u])
      BY <2>2, ApartGood DEF Readers
    <2> QED
      BY <1>1, <2>1, <2>2, <2>3, <2>4, GoSafe
  <1> QED
    BY <1>2, <1>3, <1>4

-----------------------------------------------------------------------------
(* The operations on a stream whose mutex the thread has.                    *)
LEMMA OutStep ==
  ASSUME NEW t, NEW s, NEW X, NEW n, Ready(t, s, X, n), NEW o \in OutStreams \cap Mine(t),
         NEW a, OutOnly(s, a, o), Uses(a, n), NEW Z, X \ {o} \subseteq Z,
         o \notin Z => Settled(a.out[o])
  PROVE  Ready(t, a, Z, n) /\ SameCall(s, a)
  <1>1. Frame(s, a, {o}) /\ {o} \subseteq Mine(t)
    BY OnlyFrame
  <1>2. a.in = s.in /\ SameCall(s, a)
    BY DEF OutOnly
  <1>3. OneCapture(a) /\ FmKnown(a)
    BY <1>2, SameCallKeeps DEF Ready, OneCapture
  <1>4. \A i \in InStreams : s.in[i].mStandby => a.in[i].mStandby
    BY <1>2
  <1>5. \A p \in OutStreams : p \notin Z /\ p \in X \cup {o} => Settled(a.out[p])
    OBVIOUS
  <1>6. \A i \in InStreams : i \notin Z /\ i \in X \cup {o} => Settled(a.in[i])
    <2>1. o \notin InStreams
      BY HalAssumption
    <2> QED
      BY <2>1
  <1> QED
    BY <1>1, <1>2, <1>3, <1>4, <1>5, <1>6, ReadyStep

LEMMA InStep ==
  ASSUME NEW t, NEW s, NEW X, NEW n, Ready(t, s, X, n), NEW i \in InStreams \cap Mine(t),
         NEW a, InOnly(s, a, i), Uses(a, n), s.in[i].mStandby => a.in[i].mStandby,
         a.in[i].mPcm => ~CaptureBusy(s, i), NEW Z, X \ {i} \subseteq Z,
         i \notin Z => Settled(a.in[i])
  PROVE  Ready(t, a, Z, n) /\ SameCall(s, a)
  <1>1. Frame(s, a, {i}) /\ {i} \subseteq Mine(t)
    BY OnlyFrame
  <1>2. /\ a.out = s.out /\ SameCall(s, a)
        /\ \A j \in InStreams \ {i} : a.in[j] = s.in[j]
    BY DEF InOnly
  <1>3. OneCapture(a) /\ FmKnown(a)
    BY <1>2, SameCallKeeps DEF Ready, OneCapture, CaptureBusy
  <1>4. \A j \in InStreams : s.in[j].mStandby => a.in[j].mStandby
    BY <1>2
  <1>5. \A o \in OutStreams : o \notin Z /\ o \in X \cup {i} => Settled(a.out[o])
    <2>1. i \notin OutStreams
      BY HalAssumption
    <2> QED
      BY <2>1
  <1>6. \A j \in InStreams : j \notin Z /\ j \in X \cup {i} => Settled(a.in[j])
    OBVIOUS
  <1> QED
    BY <1>1, <1>2, <1>3, <1>4, <1>5, <1>6, ReadyStep

LEMMA OutStandbyReady ==
  ASSUME NEW t, NEW s \in HalState, NEW X, NEW n \in Nat, Ready(t, s, X, n),
         NEW o \in OutStreams \cap Mine(t), NEW a, a = OutDoStandby(s, o)
  PROVE  Ready(t, a, X \ {o}, n) /\ SameCall(s, a)
  <1>1. /\ OutOnly(s, a, o) /\ Uses(a, n)
        /\ Off(a.out[o]) /\ a.out[o].mStandby
    BY OutDoStandbyEffect DEF Ready
  <1>2. Settled(a.out[o])
    BY <1>1 DEF Settled, Playing
  <1> QED
    BY <1>1, <1>2, OutStep

LEMMA InStandbyReady ==
  ASSUME NEW t, NEW s \in HalState, NEW X, NEW n \in Nat, Ready(t, s, X, n),
         NEW i \in InStreams \cap Mine(t), NEW a, a = InDoStandby(s, i)
  PROVE  Ready(t, a, X \ {i}, n) /\ SameCall(s, a)
  <1>1. /\ InOnly(s, a, i) /\ Uses(a, n)
        /\ Off(a.in[i]) /\ a.in[i].mStandby
    BY InDoStandbyEffect DEF Ready
  <1>2. Settled(a.in[i]) /\ ~a.in[i].mPcm
    BY <1>1 DEF Settled, Playing, Off
  <1> QED
    BY <1>1, <1>2, InStep

LEMMA UseNat ==
  ASSUME NEW s
  PROVE  UseOf(s) \in Nat /\ FmPart(s) \in Nat
  BY DEF UseOf, FmPart

(* No stream has an echo reference to give back: doStandby_l goes on.        *)
LEMMA StandbyGoesOn ==
  ASSUME NEW t, NEW K, NEW q, NEW s, NoEchoRefs(s), q.victim \in InStreams,
         InStandbyIn(t, K, q, s)
  PROVE  Resume(t, q, InDoStandby(s, q.victim))
  BY DEF InStandbyIn, NoEchoRefs

-----------------------------------------------------------------------------
(* The rest of a call, from each point on.                                   *)

(* write(), once the devices were opened behind its standby.                 *)
LEMMA WriteOpenedSafe ==
  ASSUME TypeOK, Safe, HwFree, NEW t \in Threads, th[t].pc # "stuck",
         th[t].ret = "return", NEW o \in OutStreams \cap Mine(t), Member(hal, o),
         NEW s, Ready(t, s, {o}, UseOf(s)), FmWaits(s), s.out[o].mStandby,
         s.out[o].mMixer => s.out[o].mPcm, NEW i, WriteOpened(t, o, i, s)
  PROVE  Safe'
  <1>1. /\ s \in HalState /\ Alive(s, o) /\ Member(s, o)
        /\ UseOf(s) \in Nat
    BY ReadyMeans, UseNat DEF Safe, HalSafe, MembersAlive, Streams
  <1>2. CASE Dies(t, i, s)
    <2>1. Stuck(t, {o}, s)
      BY <1>2 DEF WriteOpened
    <2>2. AllSettled(s, {o}) /\ o \notin InStreams
      BY HalAssumption DEF Ready
    <2>3. ASSUME NEW p \in OutStreams PROVE Playing(s.out[p])
      <3>1. CASE p = o
        BY <3>1 DEF Playing
      <3>2. CASE p # o
        BY <2>2, <3>2 DEF AllSettled, Settled
      <3> QED
        BY <3>1, <3>2
    <2>4. \A j \in InStreams : Playing(s.in[j])
      BY <2>2 DEF AllSettled, Settled
    <2>5. AllPlaying(s)
      BY <2>3, <2>4 DEF AllPlaying
    <2> QED
      BY <2>1, <2>5, StuckSafe
  <1>3. CASE ~Dies(t, i, s) /\ s.out[o].mPcm
    <2> DEFINE a == [s EXCEPT !.out[o].mStandby = FALSE]
               q == [Idle EXCEPT !.pc = "write.io", !.obj = o]
    <2>1. hal' = a /\ Hold(t, {o}) /\ Go(t, q)
      BY <1>3 DEF WriteOpened
    <2>2. /\ q.pc = "write.io" /\ q.obj = o /\ q.ret = "return"
          /\ q.spOut = None /\ q.spIn = None /\ q.echoOut = None
      BY DEF Idle
    <2> HIDE DEF q
    <2>3. Uses(s, UseOf(s)) /\ a = [s EXCEPT !.out[o].mStandby = FALSE]
      BY DEF Ready
    <2> HIDE DEF a
    <2>3a. /\ OutOnly(s, a, o) /\ Uses(a, UseOf(s))
           /\ ~a.out[o].mStandby /\ (a.out[o].mPcm <=> s.out[o].mPcm)
      BY <1>1, <2>3, LeaveStandby
    <2>3b. a.out[o].mPcm
      BY <1>3, <2>3a
    <2>4. a.out[o].alive
      BY <1>1, <2>3a DEF Alive, OutOnly
    <2>5. Settled(a.out[o])
      BY <2>3a, <2>3b, <2>4 DEF Settled, Playing
    <2>6. Ready(t, a, {}, UseOf(s)) /\ SameCall(s, a)
      BY <2>3a, <2>5, OutStep
    <2>7. Sound(t, a)
      BY <2>6, SameCallKeeps, ReadySound
    <2>8. PointersOf(q) = {} /\ Member(a, o) /\ o # None
      BY <1>1, <2>2, <2>3a, HalAssumption DEF PointersOf, OutOnly, Member
    <2>9. Form(q) /\ Fits(q, a) /\ {o} = LocksOf(q)
      BY <2>2, <2>3a, <2>8 DEF Form, Fits, Linked, LocksOf
    <2>10. \A u \in Others(t) : Apart(q, th[u])
      BY <2>2, <2>8, ApartGood DEF Readers
    <2> QED
      BY <2>1, <2>2, <2>7, <2>9, <2>10, GoSafe
  <1>4. CASE ~Dies(t, i, s) /\ ~s.out[o].mPcm
    <2> DEFINE a == [s EXCEPT !.wakeLock = FALSE]
               q == [Idle EXCEPT !.pc = "outStandby", !.obj = o, !.victim = o]
    <2>1. hal' = a /\ Hold(t, {}) /\ Go(t, q)
      BY <1>4 DEF WriteOpened
    <2>2. /\ q.pc = "outStandby" /\ q.obj = o /\ q.ret = "return"
          /\ q.spOut = None /\ q.spIn = None /\ q.echoOut = None
      BY DEF Idle
    <2> HIDE DEF q
    <2>3. Calm(s, a) /\ SameCall(s, a)
      BY <1>1, PathEffect, BaseCalm
    <2> HIDE DEF a
    <2>4. Ready(t, a, {o}, UseOf(s))
      BY <2>3, SameCallKeeps, ReadyCalm DEF Ready
    <2>5. Settled(a.out[o])
      BY <1>4, <2>3 DEF Calm, Frame, SameDev, Settled, Playing, Off
    <2>6. Ready(t, a, {}, UseOf(s))
      <3>1. AllSettled(a, {o}) /\ o \notin InStreams
        BY <2>4, HalAssumption DEF Ready
      <3>2. AllSettled(a, {})
        BY <2>5, <3>1 DEF AllSettled
      <3> QED
        BY <2>4, <3>2 DEF Ready
    <2>7. Sound(t, a)
      BY <2>3, <2>6, SameCallKeeps, ReadySound
    <2>8. PointersOf(q) = {} /\ Member(a, o) /\ o # None
      BY <1>1, <2>2, <2>3, HalAssumption DEF PointersOf, Calm, Frame, Member
    <2>9. Form(q) /\ Fits(q, a) /\ {} = LocksOf(q)
      BY <2>2, <2>8 DEF Form, Fits, Linked, LocksOf
    <2>10. \A u \in Others(t) : Apart(q, th[u])
      BY <2>2, <2>8, ApartGood DEF Readers
    <2> QED
      BY <2>1, <2>2, <2>7, <2>9, <2>10, GoSafe
  <1> QED
    BY <1>2, <1>3, <1>4

(* setMode(), from its last unlock.                                          *)
LEMMA ReadyLeaves ==
  ASSUME TypeOK, Safe, NEW t \in Threads, th[t].pc # "stuck",
         NEW o \in OutStreams \cup {None}, NEW i \in InStreams \cup {None},
         Good(t, o), Good(t, i), NEW s, Ready(t, s, {}, UseOf(s)), FmWaits(s),
         Leave(t, o, i, s)
  PROVE  Safe'
  <1>1. Sound(t, s)
    BY ReadySound
  <1>2. (o # None => Alive(s, o)) /\ (i # None => Alive(s, i))
    BY ReadyMeans DEF Good
  <1> QED
    BY <1>1, <1>2, LeaveSafe

LEMMA FmDevicesOpen ==
  ASSUME FmOpens, FmCalled
  PROVE  FmToggles /\ Outcomes("pcmOut") = {TRUE} /\ Outcomes("mixer") = {TRUE}
  BY DEF FmOpens, FmCalled, Outcomes

LEMMA SetModeReturnSafe ==
  ASSUME Assumed, TypeOK, Safe, NEW t \in Threads, th[t].pc # "stuck",
         NEW o \in OutStreams \cup {None}, NEW i \in InStreams \cup {None},
         Good(t, o), Good(t, i), NEW s, Ready(t, s, {}, UseOf(s)),
         SetModeReturn(t, o, i, s)
  PROVE  Safe'
  <1>1. s \in HalState /\ UseOf(s) \in Nat
    BY ReadyMeans, UseNat
  <1>2. CASE s.mFmResumeAfterCall
    <2> DEFINE b == [s EXCEPT !.mFmResumeAfterCall = FALSE]
               a == EnableFm(b, TRUE, TRUE)
    <2>1. FmCalled /\ ~s.mFmFd
      BY <1>2 DEF Ready, FmKnown
    <2>2. Leave(t, o, i, a)
      BY <1>2, <2>1, FmDevicesOpen DEF SetModeReturn, Assumed
    <2>3. /\ Calm(s, b)
          /\ b.mMode = s.mMode /\ b.mInCallAudioMode = s.mInCallAudioMode
          /\ b.mFmFd = s.mFmFd /\ b.mFmResumeAfterCall = FALSE
      BY <1>1, SetResume
    <2> HIDE DEF b
    <2>4. FmKnown(b) /\ UseOf(b) = UseOf(s)
      BY <2>1, <2>3 DEF FmKnown, UseOf, FmPart
    <2>5. Ready(t, b, {}, UseOf(s))
      BY <2>3, <2>4, ReadyCalm
    <2>6. b \in HalState /\ Uses(b, UseOf(s))
      BY <2>5, ReadyMeans DEF Ready
    <2>7. /\ Frame(b, a, {})
          /\ a.mMode = b.mMode /\ a.mInCallAudioMode = b.mInCallAudioMode
          /\ b.mMode = "IN_CALL" =>
               Uses(a, UseOf(s)) /\ a.mFmFd = b.mFmFd /\ a.mFmResumeAfterCall
          /\ b.mMode # "IN_CALL" =>
               /\ Uses(a, UseOf(s) + 1) /\ a.mFmFd
               /\ a.mFmResumeAfterCall = b.mFmResumeAfterCall
      BY <1>1, <2>6, EnableFmEffect
    <2> HIDE DEF a
    <2>8. Uses(a, UseOf(a)) /\ FmKnown(a) /\ FmWaits(a)
      <3>1. CASE b.mMode = "IN_CALL"
        <4>1. UseOf(a) = UseOf(s)
          BY <2>3, <2>7, <3>1 DEF UseOf, FmPart
        <4> QED
          BY <2>1, <2>3, <2>7, <3>1, <4>1 DEF FmKnown, FmWaits
      <3>2. CASE b.mMode # "IN_CALL"
        <4>1. UseOf(a) = UseOf(s) + 1
          BY <2>1, <2>3, <2>7, <3>2 DEF UseOf, FmPart
        <4> QED
          BY <2>1, <2>3, <2>7, <3>2, <4>1 DEF FmKnown, FmWaits
      <3> QED
        BY <3>1, <3>2
    <2>9. \A j \in InStreams : /\ b.in[j].mStandby => a.in[j].mStandby
                               /\ a.in[j].mPcm => b.in[j].mPcm
      BY <2>7 DEF Frame, SameDev
    <2>10. OneCapture(a)
      BY <2>5, <2>9 DEF Ready, OneCapture
    <2>11. Ready(t, a, {}, UseOf(a))
      BY <2>5, <2>7, <2>8, <2>9, <2>10, ReadyStep
    <2> QED
      BY <2>2, <2>8, <2>11, ReadyLeaves
  <1>3. CASE ~s.mFmResumeAfterCall
    BY <1>3, ReadyLeaves DEF SetModeReturn, FmWaits
  <1> QED
    BY <1>2, <1>3

LEMMA EnterCallSafe ==
  ASSUME Assumed, TypeOK, Safe, NEW t \in Threads, th[t].pc # "stuck",
         NEW o \in OutStreams \cup {None}, NEW i \in InStreams \cup {None},
         Good(t, o), Good(t, i), NEW s, Ready(t, s, {}, FmPart(s)),
         EnterCall(t, o, i, s)
  PROVE  Safe'
  <1> DEFINE b == OpenMixer(OpenPcmOut(s, TRUE), TRUE)
             a == [b EXCEPT !.mInCallAudioMode = TRUE]
  <1>1. s \in HalState /\ FmPart(s) \in Nat
    BY ReadyMeans, UseNat
  <1>2. Outcomes("callPcm") = {TRUE} /\ Outcomes("callMixer") = {TRUE}
    BY DEF Assumed, CallsOpen, Outcomes
  <1>3. SetModeReturn(t, o, i, a)
    BY <1>2 DEF EnterCall
  <1>4. Base(s, b) /\ Uses(b, FmPart(s) + 1)
    BY <1>1, OpenBothEffect DEF Ready
  <1> HIDE DEF b
  <1>5. b \in HalState /\ SameCall(s, b) /\ Frame(s, b, {})
    BY <1>4, BaseFrame DEF Base
  <1>6. b.in = s.in
    BY <1>4 DEF Base
  <1>7. OneCapture(b) /\ FmKnown(b)
    BY <1>5, <1>6, SameCallKeeps DEF Ready, OneCapture
  <1>8. Ready(t, b, {}, FmPart(s) + 1)
    BY <1>4, <1>5, <1>6, <1>7, ReadyStep
  <1>9. /\ Calm(b, a)
        /\ a.mMode = b.mMode /\ a.mInCallAudioMode = TRUE
        /\ a.mFmFd = b.mFmFd /\ a.mFmResumeAfterCall = b.mFmResumeAfterCall
    BY <1>5, SetInCall
  <1> HIDE DEF a
  <1>10. FmKnown(a)
    BY <1>7, <1>9 DEF FmKnown
  <1>11. UseOf(a) = FmPart(s) + 1
    BY <1>5, <1>9 DEF UseOf, FmPart, SameCall
  <1>12. Ready(t, a, {}, UseOf(a))
    BY <1>8, <1>9, <1>10, <1>11, ReadyCalm
  <1> QED
    BY <1>3, <1>12, SetModeReturnSafe

LEMMA LeaveCallSafe ==
  ASSUME Assumed, TypeOK, Safe, NEW t \in Threads, th[t].pc # "stuck",
         NEW o \in OutStreams \cup {None}, NEW i \in InStreams \cup {None},
         Good(t, o), Good(t, i), NEW s, Ready(t, s, {}, FmPart(s)),
         LeaveCall(t, o, i, s)
  PROVE  Safe'
  <1> DEFINE a == [s EXCEPT !.mInCallAudioMode = FALSE]
  <1>1. s \in HalState
    BY ReadyMeans
  <1>2. /\ Calm(s, a)
        /\ a.mMode = s.mMode /\ a.mInCallAudioMode = FALSE
        /\ a.mFmFd = s.mFmFd /\ a.mFmResumeAfterCall = s.mFmResumeAfterCall
    BY <1>1, SetInCall
  <1>3. SetModeReturn(t, o, i, a)
    BY DEF LeaveCall
  <1> HIDE DEF a
  <1>4. FmKnown(a)
    BY <1>2 DEF Ready, FmKnown
  <1>5. UseOf(a) = FmPart(s)
    BY <1>2 DEF UseOf, FmPart
  <1>6. Ready(t, a, {}, UseOf(a))
    BY <1>2, <1>4, <1>5, ReadyCalm
  <1> QED
    BY <1>3, <1>6, SetModeReturnSafe

LEMMA OutOpenReady ==
  ASSUME NEW t, NEW s \in HalState, NEW X, NEW n \in Nat, Ready(t, s, X, n),
         NEW o \in OutStreams \cap Mine(t), Off(s.out[o]),
         NEW okPcm \in BOOLEAN, NEW okMixer \in BOOLEAN,
         NEW a, a = OutOpen(s, o, okPcm, okMixer), NEW Z, X \subseteq Z, o \in Z
  PROVE  /\ Ready(t, a, Z, n) /\ SameCall(s, a) /\ a.in = s.in
         /\ a.out[o].mMixer => a.out[o].mPcm
         /\ a.out[o].mStandby <=> s.out[o].mStandby
  <1>1. /\ OutOnly(s, a, o) /\ Uses(a, n)
        /\ a.out[o].mMixer => a.out[o].mPcm
        /\ a.out[o].mStandby <=> s.out[o].mStandby
    BY OutOpenEffect DEF Ready
  <1> QED
    BY <1>1, OutStep DEF OutOnly

LEMMA InOpenReady ==
  ASSUME NEW t, NEW s \in HalState, NEW X, NEW n \in Nat, Ready(t, s, X, n),
         NEW i \in InStreams \cap Mine(t), Off(s.in[i]),
         NEW okPcm \in BOOLEAN, NEW okMixer \in BOOLEAN,
         NEW a, a = InOpen(s, i, okPcm, okMixer), NEW Z, X \subseteq Z, i \in Z
  PROVE  /\ Ready(t, a, Z, n) /\ SameCall(s, a) /\ a.out = s.out
         /\ a.in[i].mMixer => a.in[i].mPcm
         /\ a.in[i].mStandby <=> s.in[i].mStandby
  <1>1. /\ InOnly(s, a, i) /\ Uses(a, n)
        /\ a.in[i].mMixer => a.in[i].mPcm
        /\ a.in[i].mStandby <=> s.in[i].mStandby
        /\ a.in[i].mPcm => ~CaptureBusy(s, i)
    BY InOpenEffect DEF Ready
  <1>2. (s.in[i].mStandby => a.in[i].mStandby) /\ X \ {i} \subseteq Z
        /\ (i \notin Z => Settled(a.in[i]))
    BY <1>1
  <1>3. Ready(t, a, Z, n) /\ SameCall(s, a)
    BY <1>1, <1>2, InStep
  <1> QED
    BY <1>1, <1>3 DEF InOnly

LEMMA InCloseReady ==
  ASSUME NEW t, NEW s \in HalState, NEW X, NEW n \in Nat, Ready(t, s, X, n),
         NEW i \in InStreams \cap Mine(t), NEW a, a = InClose(s, i),
         NEW Z, X \subseteq Z, i \in Z
  PROVE  /\ Ready(t, a, Z, n) /\ SameCall(s, a) /\ a.out = s.out
         /\ Off(a.in[i]) /\ (a.in[i].mStandby <=> s.in[i].mStandby)
  <1>1. /\ InOnly(s, a, i) /\ Uses(a, n) /\ Off(a.in[i])
        /\ a.in[i].mStandby <=> s.in[i].mStandby
    BY InCloseEffect DEF Ready
  <1>2. (s.in[i].mStandby => a.in[i].mStandby) /\ X \ {i} \subseteq Z
        /\ (i \notin Z => Settled(a.in[i])) /\ ~a.in[i].mPcm
    BY <1>1 DEF Off
  <1>3. Ready(t, a, Z, n) /\ SameCall(s, a)
    BY <1>1, <1>2, InStep
  <1> QED
    BY <1>1, <1>3 DEF InOnly

(* The active input is closed and reopened behind an output in standby.      *)
LEMMA ReopenBehind ==
  ASSUME TypeOK, Safe, NEW t \in Threads, NEW s \in HalState, NEW n \in Nat,
         Ready(t, s, {}, n), NEW o \in OutStreams \cap Mine(t), s.out[o].mStandby,
         NEW i \in InStreams \cap Mine(t), ~s.in[i].mStandby,
         NEW okPcm \in BOOLEAN, NEW okMixer \in BOOLEAN,
         NEW okIn \in BOOLEAN, NEW okInMixer \in BOOLEAN,
         NEW a, a = InOpen(OutOpen(InClose(s, i), o, okPcm, okMixer), i, okIn, okInMixer)
  PROVE  /\ Ready(t, a, {o, i}, n) /\ SameCall(s, a)
         /\ a.out[o].mMixer => a.out[o].mPcm
         /\ a.out[o].mStandby
         /\ a.in[i].mPcm => Ready(t, a, {o}, n)
  <1> DEFINE b == InClose(s, i)
             c == OutOpen(b, o, okPcm, okMixer)
  <1>1. o \in OutStreams /\ i \in InStreams /\ o \notin InStreams
    BY HalAssumption
  <1>2. Off(s.out[o]) /\ s.in[i].alive
    BY <1>1 DEF Ready, AllSettled, Settled, Playing
  <1>3. /\ Ready(t, b, {o, i}, n) /\ SameCall(s, b) /\ b.out = s.out
        /\ Off(b.in[i]) /\ (b.in[i].mStandby <=> s.in[i].mStandby)
    BY InCloseReady
  <1>4. a = InOpen(c, i, okIn, okInMixer)
    OBVIOUS
  <1>5. c = OutOpen(b, o, okPcm, okMixer)
    OBVIOUS
  <1> HIDE DEF b, c
  <1>6. b \in HalState
    BY <1>3, ReadyMeans
  <1>7. Off(b.out[o])
    BY <1>2, <1>3
  <1>10. /\ Ready(t, c, {o, i}, n) /\ SameCall(b, c) /\ c.in = b.in
         /\ c.out[o].mMixer => c.out[o].mPcm
         /\ c.out[o].mStandby <=> b.out[o].mStandby
    BY <1>3, <1>5, <1>6, <1>7, OutOpenReady
  <1>11. c \in HalState /\ Off(c.in[i])
    BY <1>3, <1>10, ReadyMeans
  <1>12. /\ Ready(t, a, {o, i}, n) /\ SameCall(c, a)
         /\ a.out = c.out /\ (a.in[i].mStandby <=> c.in[i].mStandby)
    BY <1>4, <1>10, <1>11, InOpenReady
  <1>13. SameCall(s, a)
    BY <1>3, <1>10, <1>12 DEF SameCall
  <1>14. (a.out[o].mMixer => a.out[o].mPcm) /\ a.out[o].mStandby
    BY <1>3, <1>10, <1>12
  <1>15. ASSUME a.in[i].mPcm PROVE Ready(t, a, {o}, n)
    <2>1. a.in[i].alive
      <3>1. (Alive(s, i) <=> Alive(hal, i)) /\ (Alive(a, i) <=> Alive(hal, i))
        BY <1>12, ReadyMeans
      <3> QED
        BY <1>1, <1>2, <3>1, HalAssumption DEF Alive
    <2>2. Settled(a.in[i])
      BY <1>3, <1>10, <1>12, <1>15, <2>1 DEF Settled, Playing
    <2>3. AllSettled(a, {o})
      BY <1>12, <2>2, HalAssumption DEF Ready, AllSettled
    <2> QED
      BY <1>12, <2>3 DEF Ready
  <1> QED
    BY <1>12, <1>13, <1>14, <1>15

(* write() exits standby, with the active input i or with none.              *)
LEMMA OutcomesTruth ==
  ASSUME NEW f
  PROVE  Outcomes(f) \subseteq BOOLEAN
  BY DEF Outcomes

LEMMA WriteOpenSafe ==
  ASSUME TypeOK, Safe, HwFree, NEW t \in Threads, th[t].pc # "stuck",
         th[t].ret = "return", NEW o \in OutStreams \cap Mine(t), Member(hal, o),
         NEW s, Ready(t, s, {}, UseOf(s)), FmWaits(s), s.out[o].mStandby,
         NEW i, i # None => i \in InStreams \cap Mine(t) /\ ~s.in[i].mStandby,
         WriteOpen(t, o, i, s)
  PROVE  Safe'
  <1>1. s \in HalState /\ UseOf(s) \in Nat
    BY ReadyMeans, UseNat
  <1>2. CASE i = None
    <2>1. PICK okPcm \in Outcomes("pcmOut"), okMixer \in Outcomes("mixer") :
             WriteOpened(t, o, None, OutOpen(s, o, okPcm, okMixer))
      BY <1>2 DEF WriteOpen
    <2> DEFINE a == OutOpen(s, o, okPcm, okMixer)
    <2>2. Off(s.out[o]) /\ okPcm \in BOOLEAN /\ okMixer \in BOOLEAN
      BY OutcomesTruth DEF Ready, AllSettled, Settled
    <2>3. /\ Ready(t, a, {o}, UseOf(s)) /\ SameCall(s, a)
          /\ a.out[o].mMixer => a.out[o].mPcm
          /\ a.out[o].mStandby <=> s.out[o].mStandby
      BY <1>1, <2>2, OutOpenReady
    <2>4. WriteOpened(t, o, None, a)
      BY <2>1
    <2> HIDE DEF a
    <2>5. UseOf(a) = UseOf(s) /\ FmWaits(a)
      BY <2>3, SameCallKeeps
    <2>6. Ready(t, a, {o}, UseOf(a)) /\ a.out[o].mStandby
      BY <2>3, <2>5
    <2> QED
      BY <2>3, <2>4, <2>5, <2>6, WriteOpenedSafe
  <1>3. CASE i # None
    <2>0. i \in InStreams \cap Mine(t) /\ ~s.in[i].mStandby
      BY <1>3
    <2>1. PICK okPcm \in Outcomes("pcmOut"), okMixer \in Outcomes("mixer"),
               okIn \in Outcomes("pcmIn"), okInMixer \in Outcomes("mixer") :
             LET a == InOpen(OutOpen(InClose(s, i), o, okPcm, okMixer),
                             i, okIn, okInMixer)
             IN  IF a.in[i].mPcm THEN WriteOpened(t, o, i, a)
                 ELSE InStandbyIn(t, {o, i},
                        [Idle EXCEPT !.obj = o, !.spIn = i, !.victim = i,
                                     !.ret = "write"], a)
      BY <1>3 DEF WriteOpen
    <2> DEFINE a == InOpen(OutOpen(InClose(s, i), o, okPcm, okMixer), i, okIn, okInMixer)
               q == [Idle EXCEPT !.obj = o, !.spIn = i, !.victim = i, !.ret = "write"]
    <2>2. /\ okPcm \in BOOLEAN /\ okMixer \in BOOLEAN
          /\ okIn \in BOOLEAN /\ okInMixer \in BOOLEAN
      BY OutcomesTruth
    <2>3. IF a.in[i].mPcm THEN WriteOpened(t, o, i, a)
          ELSE InStandbyIn(t, {o, i}, q, a)
      BY <2>1
    <2>4. /\ Ready(t, a, {o, i}, UseOf(s)) /\ SameCall(s, a)
          /\ a.out[o].mMixer => a.out[o].mPcm
          /\ a.out[o].mStandby
          /\ a.in[i].mPcm => Ready(t, a, {o}, UseOf(s))
      BY <1>1, <2>0, <2>2, ReopenBehind
    <2> HIDE DEF a
    <2>5. UseOf(a) = UseOf(s) /\ FmWaits(a) /\ a \in HalState /\ NoEchoRefs(a)
      BY <2>4, SameCallKeeps, ReadyMeans
    <2>6. CASE a.in[i].mPcm
      BY <2>3, <2>4, <2>5, <2>6, WriteOpenedSafe
    <2>7. CASE ~a.in[i].mPcm
      <3> DEFINE b == InDoStandby(a, i)
      <3>1. /\ q.victim = i /\ q.ret = "write" /\ q.obj = o /\ q.spIn = i
        BY DEF Idle
      <3>2. InStandbyIn(t, {o, i}, q, a)
        BY <2>3, <2>7
      <3> HIDE DEF q
      <3>3. Resume(t, q, b)
        BY <2>0, <2>5, <3>1, <3>2, StandbyGoesOn
      <3>4. WriteOpened(t, o, i, b)
        BY <3>1, <3>3 DEF Resume
      <3>5. Ready(t, b, {o, i} \ {i}, UseOf(s)) /\ SameCall(a, b)
        BY <1>1, <2>0, <2>4, <2>5, InStandbyReady
      <3>6. b.out = a.out
        BY <1>1, <2>0, <2>4, <2>5, InDoStandbyEffect DEF Ready, InOnly
      <3> HIDE DEF b
      <3>7. {o, i} \ {i} = {o}
        BY <2>0, HalAssumption
      <3>8. UseOf(b) = UseOf(s) /\ FmWaits(b)
        BY <2>5, <3>5, SameCallKeeps
      <3>9. Ready(t, b, {o}, UseOf(b))
        BY <3>5, <3>7, <3>8
      <3>10. b.out[o].mStandby /\ (b.out[o].mMixer => b.out[o].mPcm)
        BY <2>4, <3>6
      <3> QED
        BY <3>4, <3>8, <3>9, <3>10, WriteOpenedSafe
    <2> QED
      BY <2>6, <2>7
  <1> QED
    BY <1>2, <1>3

LEMMA ReadyOn ==
  ASSUME NEW t, NEW s, NEW X, Ready(t, s, X, UseOf(s)), FmWaits(s), NEW a,
         Calm(s, a), SameCall(s, a)
  PROVE  Ready(t, a, X, UseOf(a)) /\ FmWaits(a)
  BY SameCallKeeps, ReadyCalm DEF Ready

LEMMA ReadySnapIn ==
  ASSUME NEW t \in Threads, NEW s \in HalState, NEW X, Ready(t, s, X, UseOf(s)),
         FmWaits(s), NEW i \in InStreams, NEW a,
         a \in {[s EXCEPT !.in[i].snap = @ \cup {t}], [s EXCEPT !.in[i].snap = @ \ {t}]}
  PROVE  Ready(t, a, X, UseOf(a)) /\ FmWaits(a) /\ Calm(s, a)
  <1>1. s.in[i].snap \in SUBSET Threads
    BY DEF HalState, InState
  <1>2. PICK T \in SUBSET Threads : a = [s EXCEPT !.in[i].snap = T]
    BY <1>1
  <1>3. Calm(s, a) /\ SameCall(s, a)
    BY <1>2, SetInField
  <1> QED
    BY <1>3, ReadyOn

LEMMA ReadySnapOut ==
  ASSUME NEW t \in Threads, NEW s \in HalState, NEW X, Ready(t, s, X, UseOf(s)),
         FmWaits(s), NEW o \in OutStreams, NEW a,
         a \in {[s EXCEPT !.out[o].snap = @ \cup {t}], [s EXCEPT !.out[o].snap = @ \ {t}]}
  PROVE  Ready(t, a, X, UseOf(a)) /\ FmWaits(a) /\ Calm(s, a)
  <1>1. s.out[o].snap \in SUBSET Threads
    BY DEF HalState, OutState
  <1>2. PICK T \in SUBSET Threads : a = [s EXCEPT !.out[o].snap = T]
    BY <1>1
  <1>3. Calm(s, a) /\ SameCall(s, a)
    BY <1>2, SetOutField
  <1> QED
    BY <1>3, ReadyOn

(* What a step that is Calm leaves of a stream.                              *)
LEMMA CalmStreams ==
  ASSUME NEW s, NEW a, Calm(s, a)
  PROVE  /\ \A o \in OutStreams : /\ a.out[o].mStandby <=> s.out[o].mStandby
                                  /\ a.out[o].mPcm <=> s.out[o].mPcm
         /\ \A i \in InStreams : /\ a.in[i].mStandby <=> s.in[i].mStandby
                                 /\ a.in[i].mPcm <=> s.in[i].mPcm
         /\ a.mOutput = s.mOutput /\ a.mInputs = s.mInputs
  BY DEF Calm, Frame, SameDev

LEMMA ActiveInput ==
  ASSUME NEW s \in HalState, NEW i \in ActiveInputs(s)
  PROVE  i \in InStreams /\ i \in s.mInputs /\ ~s.in[i].mStandby /\ i # None
  BY HalAssumption DEF ActiveInputs, HalState

(* write() looks for an active input, waits for its mutex or goes on.        *)
LEMMA WriteScanSafe ==
  ASSUME TypeOK, Safe, HwFree, NEW t \in Threads, th[t].pc # "stuck",
         th[t].ret = "return", NEW o \in OutStreams \cap Mine(t), Member(hal, o),
         NEW s, Ready(t, s, {}, UseOf(s)), FmWaits(s), s.out[o].mStandby,
         WriteScan(t, o, s)
  PROVE  Safe'
  <1>1. s \in HalState /\ MembersAlive(s) /\ s.mInputs = hal.mInputs
    BY ReadyMeans
  <1>2. CASE ActiveInputs(s) = {}
    <2>1. WriteOpen(t, o, None, s)
      BY <1>2 DEF WriteScan
    <2> QED
      BY <2>1, WriteOpenSafe
  <1>3. CASE ActiveInputs(s) # {}
    <2>1. PICK i \in ActiveInputs(s) :
             /\ hal' = [s EXCEPT !.in[i].snap = @ \cup {t}]
             /\ Hold(t, {o})
             /\ Go(t, [Idle EXCEPT !.pc = "write.in", !.obj = o, !.spIn = i])
      BY <1>3 DEF WriteScan
    <2> DEFINE a == [s EXCEPT !.in[i].snap = @ \cup {t}]
               q == [Idle EXCEPT !.pc = "write.in", !.obj = o, !.spIn = i]
    <2>2. /\ q.pc = "write.in" /\ q.obj = o /\ q.ret = "return"
          /\ q.spOut = None /\ q.spIn = i /\ q.echoOut = None
      BY DEF Idle
    <2>3. hal' = a /\ Go(t, q)
      BY <2>1
    <2>4. a \in {[s EXCEPT !.in[i].snap = @ \cup {t}], [s EXCEPT !.in[i].snap = @ \ {t}]}
      OBVIOUS
    <2> HIDE DEF a, q
    <2>5. i \in InStreams /\ i \in s.mInputs /\ i # None
      BY <1>1, ActiveInput
    <2>6. Ready(t, a, {}, UseOf(a)) /\ FmWaits(a) /\ Calm(s, a)
      BY <1>1, <2>4, <2>5, ReadySnapIn
    <2>7. Sound(t, a)
      BY <2>6, ReadySound
    <2>8. /\ MembersAlive(a) /\ a.mInputs = hal.mInputs /\ a.out[o].mStandby
          /\ Member(a, o)
      BY <1>1, <2>6, ReadyMeans, CalmStreams
    <2>9. PointersOf(q) = {i} /\ Alive(a, i)
      BY <1>1, <2>2, <2>5, <2>8 DEF PointersOf, MembersAlive, Member, Streams
    <2>10. Form(q) /\ Fits(q, a) /\ {o} = LocksOf(q)
      BY <2>2, <2>8, <2>9 DEF Form, Fits, Linked, LocksOf
    <2>11. Good(t, i)
      BY <1>1, <2>5, GoodMember DEF Member, Streams
    <2>12. \A u \in Others(t) : Apart(q, th[u])
      BY <2>2, <2>9, <2>11, ApartGood DEF Readers
    <2> QED
      BY <2>1, <2>2, <2>3, <2>7, <2>10, <2>12, GoSafe
  <1> QED
    BY <1>2, <1>3

LEMMA ReadyAtRest ==
  ASSUME TypeOK, Safe, HwFree, NEW t \in Threads
  PROVE  /\ hal \in HalState /\ MembersAlive(hal) /\ NoEchoRefs(hal)
         /\ Ready(t, hal, {}, UseOf(hal)) /\ FmWaits(hal)
         /\ th[t] \in ThreadState /\ HasPointers(th[t])
         /\ Form(th[t]) /\ Fits(th[t], hal)
  BY ReadyStart DEF TypeOK, Safe, HalSafe

LEMMA WriteExitStandbySafe ==
  ASSUME TypeOK, Safe, NEW t \in Threads, WriteExitStandby(t)
  PROVE  Safe'
  <1> DEFINE o == hal.mOutput
             s == [hal EXCEPT !.wakeLock = TRUE]
  <1>1. /\ HwFree /\ th[t].pc = "idle" /\ o # None /\ Free(o) /\ hal.out[o].mStandby
        /\ WriteScan(t, o, s)
    BY DEF WriteExitStandby, Calling
  <1>2. hal \in HalState /\ Ready(t, hal, {}, UseOf(hal)) /\ FmWaits(hal)
    BY <1>1, ReadyAtRest
  <1>3. o \in OutStreams /\ o \in Mine(t) /\ Member(hal, o)
    BY <1>1, <1>2 DEF HalState, Mine, Free, Locks, Streams, Member
  <1>4. Calm(hal, s) /\ SameCall(hal, s)
    BY <1>2, PathEffect, BaseCalm
  <1> HIDE DEF s
  <1>5. Ready(t, s, {}, UseOf(s)) /\ FmWaits(s)
    BY <1>2, <1>4, ReadyOn
  <1>6. s.out[o].mStandby
    BY <1>1, <1>3, <1>4, CalmStreams
  <1>7. th[t].ret = "return"
    BY <1>1, IdleHolds DEF Idle
  <1> QED
    BY <1>1, <1>3, <1>5, <1>6, <1>7, WriteScanSafe

LEMMA WriteLockInSafe ==
  ASSUME TypeOK, Safe, NEW t \in Threads, WriteLockIn(t)
  PROVE  Safe'
  <1> DEFINE o == th[t].obj
             i == th[t].spIn
             s == [hal EXCEPT !.in[i].snap = @ \ {t}]
  <1>1. /\ HwFree /\ th[t].pc = "write.in" /\ Free(i)
        /\ IF i \in ActiveInputs(hal) /\ t \in hal.in[i].snap
           THEN WriteOpen(t, o, i, s)
           ELSE IF Dies(t, i, hal) THEN Stuck(t, {o}, s)
           ELSE WriteScan(t, o, s)
    BY DEF WriteLockIn
  <1>2. /\ hal \in HalState /\ Ready(t, hal, {}, UseOf(hal)) /\ FmWaits(hal)
        /\ HasPointers(th[t]) /\ Form(th[t]) /\ Fits(th[t], hal)
    BY <1>1, ReadyAtRest
  <1>3. o \in OutStreams /\ i \in InStreams /\ hal.out[o].mStandby /\ th[t].ret = "return"
    BY <1>1, <1>2 DEF HasPointers, Fits, Form
  <1>4. o \in Mine(t) /\ i \in Mine(t) /\ Member(hal, o)
    <2>1. Held(t) = {o}
      BY <1>1 DEF Safe, LocksHeld, LocksOf
    <2>2. o # None
      BY <1>3, HalAssumption
    <2> QED
      BY <1>1, <1>2, <1>3, <2>1, <2>2 DEF Held, Mine, Free, Locks, Streams, Fits, Linked
  <1>5. s \in {[hal EXCEPT !.in[i].snap = @ \cup {t}], [hal EXCEPT !.in[i].snap = @ \ {t}]}
    OBVIOUS
  <1> HIDE DEF s, o, i
  <1>6. Ready(t, s, {}, UseOf(s)) /\ FmWaits(s) /\ Calm(hal, s)
    BY <1>2, <1>3, <1>5, ReadySnapIn
  <1>7. s.out[o].mStandby /\ (s.in[i].mStandby <=> hal.in[i].mStandby)
    BY <1>3, <1>6, CalmStreams
  <1>8. CASE i \in ActiveInputs(hal) /\ t \in hal.in[i].snap
    <2>1. WriteOpen(t, o, i, s)
      BY <1>1, <1>8
    <2>2. ~s.in[i].mStandby
      BY <1>7, <1>8 DEF ActiveInputs
    <2> QED
      BY <1>1, <1>3, <1>4, <1>6, <1>7, <2>1, <2>2, WriteOpenSafe
  <1>9. CASE ~(i \in ActiveInputs(hal) /\ t \in hal.in[i].snap) /\ Dies(t, i, hal)
    <2>1. Stuck(t, {o}, s)
      BY <1>1, <1>9
    <2>2. AllPlaying(s)
      BY <1>6 DEF Ready, AllSettled, AllPlaying, Settled
    <2> QED
      BY <1>1, <1>3, <1>4, <1>6, <2>1, <2>2, StuckSafe
  <1>10. CASE ~(i \in ActiveInputs(hal) /\ t \in hal.in[i].snap) /\ ~Dies(t, i, hal)
    <2>1. WriteScan(t, o, s)
      BY <1>1, <1>10
    <2> QED
      BY <1>1, <1>3, <1>4, <1>6, <1>7, <2>1, WriteScanSafe
  <1> QED
    BY <1>8, <1>9, <1>10

(* read() closes and reopens an active output, or leaves it in standby.      *)
LEMMA ReopenOut ==
  ASSUME TypeOK, Safe, NEW t \in Threads, NEW n \in Nat, Ready(t, hal, {}, n),
         NEW o \in OutStreams \cap Mine(t), ~hal.out[o].mStandby,
         NEW okPcm \in BOOLEAN, NEW okMixer \in BOOLEAN,
         NEW r, r = OutOpen(OutClose(hal, o), o, okPcm, okMixer),
         NEW a, a = IF r.out[o].mPcm THEN r ELSE OutDoStandby(r, o)
  PROVE  Ready(t, a, {}, n) /\ SameCall(hal, a) /\ a.in = hal.in
  <1> DEFINE b == OutClose(hal, o)
  <1>1. hal \in HalState /\ o \in OutStreams /\ o \notin InStreams
    BY HalAssumption DEF TypeOK
  <1>2. hal.out[o].alive
    BY <1>1 DEF Ready, AllSettled, Settled, Playing
  <1>3. /\ OutOnly(hal, b, o) /\ Uses(b, n) /\ Off(b.out[o])
        /\ b.out[o].mStandby <=> hal.out[o].mStandby
    BY <1>1, OutCloseEffect DEF Ready
  <1>4. r = OutOpen(b, o, okPcm, okMixer)
    OBVIOUS
  <1> HIDE DEF b
  <1>5. Ready(t, b, {o}, n) /\ SameCall(hal, b)
    <2>1. {} \ {o} \subseteq {o}
      OBVIOUS
    <2> QED
      BY <1>3, <2>1, OutStep
  <1>6. b \in HalState /\ b.in = hal.in
    BY <1>3, <1>5, ReadyMeans DEF OutOnly
  <1>7. /\ Ready(t, r, {o}, n) /\ SameCall(b, r) /\ r.in = b.in
        /\ r.out[o].mMixer => r.out[o].mPcm
        /\ r.out[o].mStandby <=> b.out[o].mStandby
    BY <1>3, <1>4, <1>5, <1>6, OutOpenReady
  <1>8. SameCall(hal, r) /\ r \in HalState /\ (Alive(r, o) <=> Alive(hal, o))
    BY <1>5, <1>7, ReadyMeans DEF SameCall
  <1>9. CASE r.out[o].mPcm
    <2>1. r.out[o].alive
      BY <1>1, <1>2, <1>8 DEF Alive
    <2>2. Settled(r.out[o])
      BY <1>3, <1>7, <1>9, <2>1 DEF Settled, Playing
    <2>3. AllSettled(r, {})
      BY <1>1, <1>7, <2>2 DEF Ready, AllSettled
    <2>4. Ready(t, r, {}, n)
      BY <1>7, <2>3 DEF Ready
    <2> QED
      BY <1>6, <1>7, <1>8, <1>9, <2>4
  <1>10. CASE ~r.out[o].mPcm
    <2>1. a = OutDoStandby(r, o)
      BY <1>10
    <2>2. Ready(t, a, {o} \ {o}, n) /\ SameCall(r, a)
      BY <1>7, <1>8, <2>1, OutStandbyReady
    <2>3. a.in = r.in
      BY <1>7, <1>8, <2>1, OutDoStandbyEffect DEF Ready, OutOnly
    <2>4. {o} \ {o} = {}
      OBVIOUS
    <2> QED
      BY <1>6, <1>7, <1>8, <2>2, <2>3, <2>4 DEF SameCall
  <1> QED
    BY <1>9, <1>10

(* read() opens its own device.                                              *)
LEMMA ReadOpenedSafe ==
  ASSUME TypeOK, Safe, HwFree, NEW t \in Threads, th[t].pc # "stuck",
         NEW i \in InStreams \cap Mine(t), Member(hal, i),
         \A u \in Others(t) : th[u].pc \in Readers => th[u].obj # i,
         NEW c, Ready(t, c, {i}, UseOf(c)), FmWaits(c), c.in[i].mPcm,
         hal' = [c EXCEPT !.in[i].mStandby = FALSE], Hold(t, {i}),
         Go(t, [Idle EXCEPT !.pc = "read.io", !.obj = i])
  PROVE  Safe'
  <1> DEFINE d == [c EXCEPT !.in[i].mStandby = FALSE]
             q == [Idle EXCEPT !.pc = "read.io", !.obj = i]
  <1>1. i \in InStreams /\ i \notin OutStreams /\ i # None
    BY HalAssumption
  <1>3. /\ c \in HalState /\ NoEchoRefs(c) /\ MembersAlive(c)
        /\ Member(c, i) /\ \A u \in Others(t) : Fits(th[u], c)
    BY ReadyMeans
  <1>4. Uses(c, UseOf(c)) /\ d = [c EXCEPT !.in[i].mStandby = FALSE]
    BY DEF Ready
  <1>5. hal' = d /\ Go(t, q)
    OBVIOUS
  <1> HIDE DEF d
  <1>6. /\ InOnly(c, d, i) /\ Uses(d, UseOf(c)) /\ ~d.in[i].mStandby
        /\ d.in[i].mPcm <=> c.in[i].mPcm
    BY <1>3, <1>4, LeaveStandby
  <1>7. Frame(c, d, {i}) /\ SameCall(c, d) /\ d.out = c.out
        /\ \A j \in InStreams \ {i} : d.in[j] = c.in[j]
    BY <1>6, OnlyFrame DEF InOnly
  <1>8. /\ d \in HalState /\ MembersAlive(d) /\ NoEchoRefs(d) /\ Member(d, i)
        /\ Alive(d, i) /\ d.in[i].alive
    <2>1. /\ d \in HalState /\ MembersAlive(d) /\ NoEchoRefs(d) /\ Member(d, i)
      BY <1>3, <1>7, FrameLives
    <2> QED
      BY <1>1, <2>1 DEF MembersAlive, Alive, Streams
  <1>9. UseOf(d) = UseOf(c) /\ FmKnown(d) /\ FmWaits(d)
    BY <1>7, SameCallKeeps DEF Ready
  <1>10. OneCapture(d)
    <2>1. \A j \in InStreams : d.in[j].mPcm <=> c.in[j].mPcm
      BY <1>6, <1>7
    <2> QED
      BY <2>1 DEF Ready, OneCapture
  <1>11. AllSettled(d, {})
    <2>1. Settled(d.in[i])
      BY <1>6, <1>8 DEF Settled, Playing
    <2> QED
      BY <1>1, <1>7, <2>1 DEF Ready, AllSettled
  <1>12. AllPlaying(d)
    BY <1>11 DEF AllSettled, AllPlaying, Settled
  <1>13. HalSafe(d)
    BY <1>6, <1>8, <1>9, <1>10, <1>12 DEF HalSafe
  <1>14. ASSUME NEW u \in Others(t) PROVE Fits(th[u], d)
    <2>1. u \in Threads /\ HasPointers(th[u]) /\ Fits(th[u], c)
      BY <1>3 DEF Others, TypeOK
    <2>2. th[u].pc \in Guarded => th[u].obj \notin {i}
      BY MineOnly
    <2>3. th[u].pc \in {"read.out", "read.in"} => th[u].obj \in InStreams \ {i}
      BY <2>1 DEF HasPointers, Readers
    <2>4. th[u].pc \in {"read.out", "read.in"} =>
            (c.in[th[u].obj].mStandby => d.in[th[u].obj].mStandby)
      BY <1>7, <2>3
    <2> QED
      BY <1>7, <2>1, <2>2, <2>4, FrameFits
  <1>15. Sound(t, d)
    BY <1>8, <1>11, <1>13, <1>14 DEF Sound
  <1>16. /\ q.pc = "read.io" /\ q.obj = i /\ q.ret = "return"
         /\ q.spOut = None /\ q.spIn = None /\ q.echoOut = None
    BY DEF Idle
  <1> HIDE DEF q
  <1>17. PointersOf(q) = {}
    BY <1>16 DEF PointersOf
  <1>18. Form(q) /\ Fits(q, d) /\ {i} = LocksOf(q)
    BY <1>6, <1>8, <1>16, <1>17 DEF Form, Fits, Linked, LocksOf
  <1>19. \A u \in Others(t) : Apart(q, th[u])
    BY <1>16, <1>17 DEF Apart, Others, Safe, Form
  <1> QED
    BY <1>5, <1>15, <1>16, <1>18, <1>19, GoSafe

LEMMA ReadFailedSafe ==
  ASSUME TypeOK, Safe, NEW t \in Threads, th[t].pc # "stuck",
         NEW i \in InStreams, Member(hal, i),
         NEW c, Ready(t, c, {}, UseOf(c)), FmWaits(c), hal' = c, Hold(t, {}),
         Go(t, [Idle EXCEPT !.pc = "inStandby", !.obj = i, !.victim = i])
  PROVE  Safe'
  <1> DEFINE q == [Idle EXCEPT !.pc = "inStandby", !.obj = i, !.victim = i]
  <1>7. Sound(t, c) /\ Member(c, i)
    BY ReadySound, ReadyMeans
  <1>8. /\ q.pc = "inStandby" /\ q.obj = i /\ q.ret = "return"
        /\ q.spOut = None /\ q.spIn = None /\ q.echoOut = None
    BY DEF Idle
  <1>9. Go(t, q)
    OBVIOUS
  <1> HIDE DEF q
  <1>10. PointersOf(q) = {}
    BY <1>8 DEF PointersOf
  <1>11. Form(q) /\ Fits(q, c) /\ {} = LocksOf(q)
    BY <1>7, <1>8, <1>10 DEF Form, Fits, Linked, LocksOf
  <1>12. \A u \in Others(t) : Apart(q, th[u])
    BY <1>8, <1>10, ApartGood DEF Readers
  <1> QED
    BY <1>7, <1>8, <1>9, <1>11, <1>12, GoSafe

LEMMA ReadOpenSafe ==
  ASSUME TypeOK, Safe, HwFree, NEW t \in Threads, th[t].pc # "stuck",
         NEW i \in InStreams \cap Mine(t), Member(hal, i), hal.in[i].mStandby,
         \A u \in Others(t) : th[u].pc \in Readers => th[u].obj # i,
         NEW o, o # None => o \in OutStreams \cap Mine(t), ReadOpen(t, i, o, hal)
  PROVE  Safe'
  <1>1. /\ hal \in HalState /\ Ready(t, hal, {}, UseOf(hal)) /\ FmWaits(hal)
        /\ NoEchoRefs(hal) /\ UseOf(hal) \in Nat
    BY ReadyAtRest, UseNat
  <1>2. ~hal.in[i].mNeedEchoReference
    BY <1>1 DEF NoEchoRefs
  <1>3. PICK okPcm \in Outcomes("pcmOut"), okMixer \in Outcomes("mixer"),
             okIn \in Outcomes("pcmIn"), okInMixer \in Outcomes("mixer"),
             okEcho \in Outcomes("echo") :
          ReadOpen(t, i, o, hal)!(okPcm, okMixer, okIn, okInMixer, okEcho)
    BY DEF ReadOpen
  <1> DEFINE r == OutOpen(OutClose(hal, o), o, okPcm, okMixer)
             a == IF o = None \/ hal.out[o].mStandby THEN hal
                  ELSE IF r.out[o].mPcm THEN r ELSE OutDoStandby(r, o)
             c == InOpen(a, i, okIn, okInMixer)
  <1>4. /\ okPcm \in BOOLEAN /\ okMixer \in BOOLEAN
        /\ okIn \in BOOLEAN /\ okInMixer \in BOOLEAN
    BY OutcomesTruth
  <1>5. IF c.in[i].mPcm
        THEN /\ hal' = [c EXCEPT !.in[i].mStandby = FALSE]
             /\ Hold(t, {i})
             /\ Go(t, [Idle EXCEPT !.pc = "read.io", !.obj = i])
        ELSE /\ hal' = c
             /\ Hold(t, {})
             /\ Go(t, [Idle EXCEPT !.pc = "inStandby", !.obj = i, !.victim = i])
    BY <1>2, <1>3
  <1>6. Ready(t, a, {}, UseOf(hal)) /\ SameCall(hal, a) /\ a.in = hal.in
    <2>1. CASE o = None \/ hal.out[o].mStandby
      BY <1>1, <2>1 DEF SameCall
    <2>2. CASE ~(o = None \/ hal.out[o].mStandby)
      <3>1. a = IF r.out[o].mPcm THEN r ELSE OutDoStandby(r, o)
        BY <2>2
      <3> HIDE DEF a
      <3> QED
        BY <1>1, <1>4, <2>2, <3>1, ReopenOut
    <2> QED
      BY <2>1, <2>2
  <1>7. c = InOpen(a, i, okIn, okInMixer)
    OBVIOUS
  <1> HIDE DEF a, c
  <1>8. /\ a \in HalState /\ Off(a.in[i]) /\ FmWaits(a) /\ UseOf(a) = UseOf(hal)
        /\ a.in[i].mStandby
    BY <1>1, <1>6, ReadyMeans, SameCallKeeps DEF Ready, AllSettled, Settled
  <1>9. /\ Ready(t, c, {i}, UseOf(hal)) /\ SameCall(a, c)
        /\ c.in[i].mMixer => c.in[i].mPcm
        /\ c.in[i].mStandby <=> a.in[i].mStandby
    <2>1. {} \subseteq {i} /\ i \in {i}
      OBVIOUS
    <2> QED
      BY <1>1, <1>4, <1>6, <1>7, <1>8, <2>1, InOpenReady
  <1>10. UseOf(c) = UseOf(hal) /\ FmWaits(c)
    BY <1>8, <1>9, SameCallKeeps
  <1>11. CASE c.in[i].mPcm
    BY <1>5, <1>9, <1>10, <1>11, ReadOpenedSafe
  <1>12. CASE ~c.in[i].mPcm
    <2>1. Settled(c.in[i])
      BY <1>8, <1>9, <1>12 DEF Settled, Playing, Off
    <2>2. AllSettled(c, {})
      BY <1>9, <2>1, HalAssumption DEF Ready, AllSettled
    <2>3. Ready(t, c, {}, UseOf(c))
      BY <1>9, <1>10, <2>2 DEF Ready
    <2> QED
      BY <1>5, <1>10, <1>12, <2>3, ReadFailedSafe
  <1> QED
    BY <1>11, <1>12

LEMMA SoundNow ==
  ASSUME TypeOK, Safe, NEW t \in Threads
  PROVE  Sound(t, hal)
  BY DEF Sound, Safe, TypeOK, Others

(* read() looks for an output, waits for its mutex or goes on.               *)
LEMMA ReadScanSafe ==
  ASSUME TypeOK, Safe, HwFree, NEW t \in Threads, th[t].pc # "stuck",
         NEW i \in InStreams \cap Mine(t), Member(hal, i), hal.in[i].mStandby,
         \A u \in Others(t) : th[u].pc \in Readers => th[u].obj # i,
         ReadScan(t, i, hal)
  PROVE  Safe'
  <1>1. CASE hal.mOutput = None
    <2>1. ReadOpen(t, i, None, hal)
      BY <1>1 DEF ReadScan
    <2> QED
      BY <2>1, ReadOpenSafe
  <1>2. CASE hal.mOutput # None
    <2> DEFINE o == hal.mOutput
               q == [Idle EXCEPT !.pc = "read.out", !.obj = i, !.spOut = o]
    <2>1. hal' = hal /\ Hold(t, {}) /\ Go(t, q)
      BY <1>2 DEF ReadScan
    <2>2. /\ q.pc = "read.out" /\ q.obj = i /\ q.ret = "return"
          /\ q.spOut = o /\ q.spIn = None /\ q.echoOut = None
      BY DEF Idle
    <2> HIDE DEF q
    <2>3. o \in OutStreams /\ Member(hal, o) /\ Good(t, o) /\ Alive(hal, o)
      BY <1>2, GoodMember, ReadyAtRest DEF HalState, Member, Streams, Good
    <2>4. PointersOf(q) = {o}
      BY <1>2, <2>2 DEF PointersOf
    <2>5. Form(q) /\ Fits(q, hal) /\ {} = LocksOf(q)
      BY <2>2, <2>3, <2>4 DEF Form, Fits, Linked, LocksOf
    <2>6. \A u \in Others(t) : Apart(q, th[u])
      BY <1>2, <2>2, <2>3, <2>4 DEF Apart, Good
    <2> QED
      BY <2>1, <2>2, <2>5, <2>6, SoundNow, GoSafe
  <1> QED
    BY <1>1, <1>2

LEMMA ReadExitStandbySafe ==
  ASSUME TypeOK, Safe, NEW t \in Threads, NEW i \in InStreams, ReadExitStandby(t, i)
  PROVE  Safe'
  <1>1. /\ th[t].pc = "idle" /\ i \in hal.mInputs /\ Free(i) /\ HwFree
        /\ hal.in[i].mStandby /\ ReadScan(t, i, hal)
        /\ \A u \in Threads \ {t} : th[u].obj = i => th[u].pc \notin Readers
    BY DEF ReadExitStandby, ReaderOf, Calling, Readers
  <1>2. i \in Mine(t) /\ Member(hal, i)
    BY <1>1 DEF Mine, Free, Locks, Streams, Member
  <1> QED
    BY <1>1, <1>2, ReadScanSafe DEF Others

LEMMA ReadLockInSafe ==
  ASSUME TypeOK, Safe, NEW t \in Threads, ReadLockIn(t)
  PROVE  Safe'
  <1> DEFINE i == th[t].obj
             o == th[t].spOut
  <1>1. /\ HwFree /\ th[t].pc = "read.in" /\ Free(i)
        /\ IF o = hal.mOutput THEN ReadOpen(t, i, o, hal)
           ELSE IF Dies(t, o, hal) THEN Stuck(t, {i}, hal)
           ELSE ReadScan(t, i, hal)
    BY DEF ReadLockIn
  <1>2. /\ hal \in HalState /\ Ready(t, hal, {}, UseOf(hal)) /\ FmWaits(hal)
        /\ HasPointers(th[t]) /\ Form(th[t]) /\ Fits(th[t], hal)
    BY <1>1, ReadyAtRest
  <1>3. o \in OutStreams /\ i \in InStreams /\ hal.in[i].mStandby /\ th[t].ret = "return"
    BY <1>1, <1>2 DEF HasPointers, Fits, Form
  <1>4. o \in Mine(t) /\ i \in Mine(t) /\ Member(hal, i)
    <2>1. o # None /\ i # None
      BY <1>3, HalAssumption
    <2>2. Held(t) = {o} \ {None}
      BY <1>1 DEF Safe, LocksHeld, LocksOf
    <2> QED
      BY <1>1, <1>2, <1>3, <2>1, <2>2 DEF Held, Mine, Free, Locks, Streams, Fits, Linked
  <1>5. \A u \in Others(t) : th[u].pc \in Readers => th[u].obj # i
    BY <1>1 DEF Safe, Apart, Others, Readers
  <1> HIDE DEF i, o
  <1>6. CASE o = hal.mOutput
    <2>1. ReadOpen(t, i, o, hal)
      BY <1>1, <1>6
    <2> QED
      BY <1>1, <1>3, <1>4, <1>5, <2>1, ReadOpenSafe
  <1>7. CASE o # hal.mOutput /\ Dies(t, o, hal)
    <2>1. Stuck(t, {i}, hal)
      BY <1>1, <1>7
    <2>2. AllPlaying(hal)
      BY <1>2 DEF Ready, AllSettled, AllPlaying, Settled
    <2> QED
      BY <1>1, <1>2, <1>3, <1>4, <2>1, <2>2, StuckSafe
  <1>8. CASE o # hal.mOutput /\ ~Dies(t, o, hal)
    <2>1. ReadScan(t, i, hal)
      BY <1>1, <1>8
    <2> QED
      BY <1>1, <1>3, <1>4, <1>5, <2>1, ReadScanSafe
  <1> QED
    BY <1>6, <1>7, <1>8

(* The steps that leave the hardware object alone.                           *)
LEMMA ReadLockOutSafe ==
  ASSUME TypeOK, Safe, NEW t \in Threads, ReadLockOut(t)
  PROVE  Safe'
  <1> DEFINE o == th[t].spOut
             q == [th[t] EXCEPT !.pc = "read.in"]
  <1>1. th[t].pc = "read.out" /\ Free(o) /\ Hold(t, {o}) /\ Go(t, q) /\ hal' = hal
    BY DEF ReadLockOut
  <1>2. th[t] \in ThreadState /\ HasPointers(th[t]) /\ Form(th[t]) /\ Fits(th[t], hal)
    BY DEF TypeOK, Safe
  <1>3. /\ q.pc = "read.in" /\ q.obj = th[t].obj /\ q.ret = th[t].ret
        /\ q.spOut = o /\ q.spIn = th[t].spIn /\ q.echoOut = th[t].echoOut
    BY <1>2 DEF ThreadState
  <1> HIDE DEF q
  <1>4. q.ret = "return" /\ PointersOf(q) = PointersOf(th[t])
    BY <1>1, <1>2, <1>3 DEF Form, PointersOf
  <1>5. o \in OutStreams /\ o # None /\ {o} \subseteq Mine(t)
    BY <1>1, <1>2, HalAssumption DEF HasPointers, Mine, Free, Locks, Streams
  <1>6. Form(q) /\ Fits(q, hal) /\ {o} = LocksOf(q)
    BY <1>1, <1>2, <1>3, <1>4, <1>5 DEF Form, Fits, Linked, LocksOf
  <1>7. \A u \in Others(t) : Apart(q, th[u])
    BY <1>1, <1>3, <1>4 DEF Safe, Apart, Others, Readers
  <1> QED
    BY <1>1, <1>3, <1>5, <1>6, <1>7, SoundNow, GoSafe

LEMMA WriteActiveSafe ==
  ASSUME TypeOK, Safe, NEW t \in Threads, WriteActive(t)
  PROVE  Safe'
  <1> DEFINE o == hal.mOutput
             q == [Idle EXCEPT !.pc = "write.io", !.obj = o]
  <1>1. /\ th[t].pc = "idle" /\ o # None /\ Free(o) /\ ~hal.out[o].mStandby
        /\ Hold(t, {o}) /\ Go(t, q) /\ hal' = hal
    BY DEF WriteActive, Calling
  <1>2. /\ q.pc = "write.io" /\ q.obj = o /\ q.ret = "return"
        /\ q.spOut = None /\ q.spIn = None /\ q.echoOut = None
    BY DEF Idle
  <1> HIDE DEF q
  <1>3. o \in OutStreams /\ Member(hal, o) /\ {o} \subseteq Mine(t)
    BY <1>1 DEF TypeOK, HalState, Member, Mine, Free, Locks, Streams
  <1>4. PointersOf(q) = {}
    BY <1>2 DEF PointersOf
  <1>5. Form(q) /\ Fits(q, hal) /\ {o} = LocksOf(q)
    BY <1>1, <1>2, <1>3, <1>4 DEF Form, Fits, Linked, LocksOf
  <1>6. \A u \in Others(t) : Apart(q, th[u])
    BY <1>2, <1>4, ApartGood DEF Readers
  <1> QED
    BY <1>1, <1>2, <1>3, <1>5, <1>6, SoundNow, GoSafe

LEMMA ReadActiveSafe ==
  ASSUME TypeOK, Safe, NEW t \in Threads, NEW i \in InStreams, ReadActive(t, i)
  PROVE  Safe'
  <1> DEFINE q == [Idle EXCEPT !.pc = "read.io", !.obj = i]
  <1>1. /\ th[t].pc = "idle" /\ i \in hal.mInputs /\ Free(i) /\ ~hal.in[i].mStandby
        /\ Hold(t, {i}) /\ Go(t, q) /\ hal' = hal
        /\ \A u \in Threads \ {t} : th[u].obj = i => th[u].pc \notin Readers
    BY DEF ReadActive, ReaderOf, Calling, Readers
  <1>2. /\ q.pc = "read.io" /\ q.obj = i /\ q.ret = "return"
        /\ q.spOut = None /\ q.spIn = None /\ q.echoOut = None
    BY DEF Idle
  <1> HIDE DEF q
  <1>3. Member(hal, i) /\ {i} \subseteq Mine(t)
    BY <1>1 DEF Member, Mine, Free, Locks, Streams
  <1>4. PointersOf(q) = {}
    BY <1>2 DEF PointersOf
  <1>5. Form(q) /\ Fits(q, hal) /\ {i} = LocksOf(q)
    BY <1>1, <1>2, <1>3, <1>4 DEF Form, Fits, Linked, LocksOf
  <1>6. \A u \in Others(t) : Apart(q, th[u])
    BY <1>1, <1>2, <1>4 DEF Apart, Others, Safe, Form
  <1> QED
    BY <1>1, <1>2, <1>3, <1>5, <1>6, SoundNow, GoSafe

(* pcm_write and pcm_read return; after an error comes standby().            *)
LEMMA DoneSafe ==
  ASSUME TypeOK, Safe, NEW t \in Threads, th[t].pc \in {"write.io", "read.io"},
         Hold(t, {}), hal' = hal, NEW x \in {"outStandby", "inStandby"},
         \/ Go(t, Idle)
         \/ Go(t, [th[t] EXCEPT !.pc = x, !.victim = th[t].obj])
  PROVE  Safe'
  <1>1. th[t] \in ThreadState /\ Form(th[t]) /\ Fits(th[t], hal)
    BY DEF TypeOK, Safe
  <1>2. CASE Go(t, Idle)
    <2>1. /\ Idle.pc = "idle" /\ Idle.ret = "return" /\ Idle.obj = None
          /\ PointersOf(Idle) = {}
      BY DEF Idle, PointersOf
    <2>2. Form(Idle) /\ Fits(Idle, hal) /\ {} = LocksOf(Idle)
      BY <2>1 DEF Form, Fits, Linked, LocksOf
    <2>3. \A u \in Others(t) : Apart(Idle, th[u])
      BY <2>1, ApartGood DEF Readers
    <2> QED
      BY <1>2, <2>1, <2>2, <2>3, SoundNow, GoSafe
  <1>3. CASE Go(t, [th[t] EXCEPT !.pc = x, !.victim = th[t].obj])
    <2> DEFINE q == [th[t] EXCEPT !.pc = x, !.victim = th[t].obj]
    <2>1. /\ q.pc = x /\ q.obj = th[t].obj /\ q.ret = th[t].ret
          /\ q.spOut = th[t].spOut /\ q.spIn = th[t].spIn /\ q.echoOut = th[t].echoOut
      BY <1>1 DEF ThreadState
    <2>2. Go(t, q)
      BY <1>3
    <2> HIDE DEF q
    <2>3. q.ret = "return" /\ PointersOf(q) = PointersOf(th[t]) /\ th[t].ret = "return"
      BY <1>1, <2>1 DEF Form, PointersOf
    <2>4. Form(q) /\ Fits(q, hal) /\ {} = LocksOf(q)
      BY <1>1, <2>1, <2>3 DEF Form, Fits, Linked, LocksOf
    <2>5. \A u \in Others(t) : Apart(q, th[u])
      BY <2>1, <2>3 DEF Safe, Apart, Others, Readers
    <2> QED
      BY <2>1, <2>2, <2>4, <2>5, SoundNow, GoSafe
  <1> QED
    BY <1>2, <1>3

LEMMA IoDoneSafe ==
  ASSUME TypeOK, Safe, NEW t \in Threads, NEW ok, WriteDone(t, ok) \/ ReadDone(t, ok)
  PROVE  Safe'
  <1>1. CASE WriteDone(t, ok)
    BY <1>1, DoneSafe DEF WriteDone
  <1>2. CASE ReadDone(t, ok)
    BY <1>2, DoneSafe DEF ReadDone
  <1> QED
    BY <1>1, <1>2

(* The destructor's standby() is done: the stream's memory is free.          *)
LEMMA FreedSound ==
  ASSUME TypeOK, Safe, NEW t \in Threads, th[t].ret = "free",
         NEW x \in Streams, x = th[t].victim,
         NEW s, Ready(t, s, {}, UseOf(s)), FmWaits(s),
         x \in OutStreams => Off(s.out[x]), x \in InStreams => Off(s.in[x]),
         NEW a, a = Freed(s, x)
  PROVE  Sound(t, a) /\ \A y \in Streams : y # x /\ Alive(s, y) => Alive(a, y)
  <1>1. /\ s \in HalState /\ NoEchoRefs(s) /\ MembersAlive(s) /\ Uses(s, UseOf(s))
        /\ \A u \in Others(t) : Fits(th[u], s)
        /\ ~Member(s, x)
    BY ReadyMeans DEF Ready, Safe, Fits
  <1>2. \A u \in Others(t) : x \notin PointersOf(th[u])
                             /\ (th[u].ret = "free" => th[u].victim # x)
    BY DEF Safe, Apart, Others
  <1>3. /\ a \in HalState /\ Uses(a, UseOf(s)) /\ SameCall(s, a)
        /\ a.mOutput = s.mOutput /\ a.mInputs = s.mInputs
        /\ \A o \in OutStreams : o # x => a.out[o] = s.out[o]
        /\ \A i \in InStreams : i # x => a.in[i] = s.in[i]
        /\ x \in OutStreams => a.out[x] = NoOut
        /\ x \in InStreams => a.in[x] = NoIn
    <2>1. CASE x \in OutStreams
      <3>1. NoOut \in OutState /\ Off(NoOut) /\ x \notin InStreams
        BY <2>1, HalAssumption DEF NoOut, OutState, Off, AllOutDevices
      <3>2. a = SetOut(s, x, NoOut)
        BY <2>1 DEF Freed, SetOut
      <3> QED
        BY <1>1, <2>1, <3>1, <3>2, ReplaceOut
    <2>2. CASE x \in InStreams
      <3>1. NoIn \in InState /\ Off(NoIn) /\ x \notin OutStreams
        BY <2>2, HalAssumption DEF NoIn, InState, Off, AllInDevices
      <3>2. a = SetIn(s, x, NoIn)
        BY <2>2, <3>1 DEF Freed, SetIn
      <3> QED
        BY <1>1, <2>2, <3>1, <3>2, ReplaceIn
    <2> QED
      BY <2>1, <2>2 DEF Streams
  <1>4. \A y : Member(a, y) <=> Member(s, y)
    BY <1>3 DEF Member
  <1>5. \A y : y # x /\ Alive(s, y) => Alive(a, y)
    BY <1>3 DEF Alive
  <1>6. MembersAlive(a)
    BY <1>1, <1>4, <1>5 DEF MembersAlive
  <1>7. NoEchoRefs(a) /\ OneCapture(a)
    BY <1>1, <1>3 DEF NoEchoRefs, OneCapture, NoIn, Ready
  <1>8. AllSettled(a, {})
    BY <1>3 DEF Ready, AllSettled, Settled, Playing, Off, NoOut, NoIn
  <1>9. AllPlaying(a)
    BY <1>8 DEF AllSettled, AllPlaying, Settled
  <1>10. FmKnown(a) /\ FmWaits(a) /\ UseOf(a) = UseOf(s)
    BY <1>3, SameCallKeeps DEF Ready
  <1>11. HalSafe(a)
    BY <1>3, <1>6, <1>7, <1>9, <1>10 DEF HalSafe
  <1>12. ASSUME NEW u \in Others(t) PROVE Fits(th[u], a)
    <2>1. /\ HasPointers(th[u]) /\ Fits(th[u], s) /\ x \notin PointersOf(th[u])
          /\ th[u].ret = "free" => th[u].victim # x
      BY <1>1, <1>2 DEF Others, TypeOK
    <2>2. th[u].obj # None => th[u].obj # x
      BY <1>1, <2>1 DEF Fits, Linked
    <2>3. Linked(th[u], a)
      BY <1>4, <1>5, <2>1 DEF Fits, Linked
    <2>4. th[u].ret = "free" => Alive(a, th[u].victim) /\ ~Member(a, th[u].victim)
      BY <1>4, <1>5, <2>1 DEF Fits
    <2>5. /\ th[u].pc \in {"write.io", "write.in"} =>
               th[u].obj \in OutStreams /\ th[u].obj # x
          /\ th[u].pc \in Readers => th[u].obj \in InStreams /\ th[u].obj # x
      BY <2>1, <2>2, HalAssumption DEF HasPointers, Readers
    <2>6. /\ th[u].pc \in {"write.io", "write.in"} =>
               a.out[th[u].obj] = s.out[th[u].obj]
          /\ th[u].pc \in Readers => a.in[th[u].obj] = s.in[th[u].obj]
      BY <1>3, <2>5
    <2> QED
      BY <2>1, <2>3, <2>4, <2>6 DEF Fits, Readers
  <1> QED
    BY <1>3, <1>5, <1>8, <1>11, <1>12 DEF Sound

(* What follows standby(), by the client or by the destructor.               *)
LEMMA StandbyDoneSafe ==
  ASSUME TypeOK, Safe, NEW t \in Threads, th[t].pc \in {"outStandby", "inStandby"},
         th[t].victim \in Streams,
         NEW s, Ready(t, s, {}, UseOf(s)), FmWaits(s),
         th[t].victim \in OutStreams => Off(s.out[th[t].victim]),
         th[t].victim \in InStreams => Off(s.in[th[t].victim]),
         Resume(t, th[t], s)
  PROVE  Safe'
  <1>1. th[t] \in ThreadState /\ Form(th[t]) /\ Fits(th[t], hal) /\ th[t].pc # "stuck"
    BY DEF TypeOK, Safe
  <1>2. /\ th[t].spOut \in OutStreams \cup {None} /\ th[t].spIn \in InStreams \cup {None}
        /\ Good(t, th[t].spOut) /\ Good(t, th[t].spIn)
    BY <1>1, GoodPointer DEF ThreadState
  <1>3. CASE th[t].ret = "return"
    <2>1. Leave(t, th[t].spOut, th[t].spIn, s)
      BY <1>3 DEF Resume
    <2> QED
      BY <1>1, <1>2, <2>1, ReadyLeaves
  <1>4. CASE th[t].ret = "free"
    <2> DEFINE a == Freed(s, th[t].victim)
    <2>1. Leave(t, th[t].spOut, th[t].spIn, a)
      BY <1>4 DEF Resume
    <2>2. Sound(t, a) /\ \A y \in Streams : y # th[t].victim /\ Alive(s, y) => Alive(a, y)
      BY <1>4, FreedSound
    <2> HIDE DEF a
    <2>3. ASSUME NEW y \in {th[t].spOut, th[t].spIn}, y # None PROVE Alive(a, y)
      <3>1. y # th[t].victim /\ y \in Streams
        BY <1>1, <1>2, <1>4, <2>3 DEF Form, PointersOf, Streams
      <3>2. Alive(s, y)
        BY <1>2, <2>3, ReadyMeans DEF Good
      <3> QED
        BY <2>2, <3>1, <3>2
    <2> QED
      BY <1>1, <1>2, <2>1, <2>2, <2>3, LeaveSafe
  <1> QED
    BY <1>1, <1>3, <1>4 DEF Form

LEMMA OutStandbyLockSafe ==
  ASSUME TypeOK, Safe, NEW t \in Threads, OutStandbyLock(t)
  PROVE  Safe'
  <1> DEFINE o == th[t].victim
             a == OutDoStandby(hal, o)
  <1>1. th[t].pc = "outStandby" /\ Free(o) /\ HwFree /\ Resume(t, th[t], a)
    BY DEF OutStandbyLock
  <1>2. /\ hal \in HalState /\ Ready(t, hal, {}, UseOf(hal)) /\ FmWaits(hal)
        /\ HasPointers(th[t]) /\ UseOf(hal) \in Nat
    BY <1>1, ReadyAtRest, UseNat
  <1>3. o \in OutStreams /\ o \in Mine(t) /\ o \notin InStreams /\ o \in Streams
    BY <1>1, <1>2, HalAssumption DEF HasPointers, Mine, Free, Locks, Streams
  <1>4. /\ Ready(t, a, {} \ {o}, UseOf(hal)) /\ SameCall(hal, a) /\ Off(a.out[o])
    BY <1>2, <1>3, OutStandbyReady, OutDoStandbyEffect DEF Ready
  <1> HIDE DEF a, o
  <1>5. {} \ {o} = {} /\ UseOf(a) = UseOf(hal) /\ FmWaits(a)
    BY <1>2, <1>4, SameCallKeeps
  <1>6. Ready(t, a, {}, UseOf(a))
    BY <1>4, <1>5
  <1>7. o = th[t].victim
    BY DEF o
  <1> QED
    BY <1>1, <1>3, <1>4, <1>5, <1>6, <1>7, StandbyDoneSafe

LEMMA InStandbyLockSafe ==
  ASSUME TypeOK, Safe, NEW t \in Threads, InStandbyLock(t)
  PROVE  Safe'
  <1> DEFINE i == th[t].victim
             a == InDoStandby(hal, i)
  <1>1. /\ th[t].pc = "inStandby" /\ Free(i) /\ HwFree
        /\ InStandbyIn(t, {i}, th[t], hal)
    BY DEF InStandbyLock
  <1>2. /\ hal \in HalState /\ Ready(t, hal, {}, UseOf(hal)) /\ FmWaits(hal)
        /\ HasPointers(th[t]) /\ NoEchoRefs(hal) /\ UseOf(hal) \in Nat
    BY <1>1, ReadyAtRest, UseNat
  <1>3. i \in InStreams /\ i \in Mine(t) /\ i \notin OutStreams /\ i \in Streams
    BY <1>1, <1>2, HalAssumption DEF HasPointers, Mine, Free, Locks, Streams
  <1>4. Resume(t, th[t], a)
    BY <1>1, <1>2, <1>3, StandbyGoesOn
  <1>5. Ready(t, a, {} \ {i}, UseOf(hal)) /\ SameCall(hal, a) /\ Off(a.in[i])
    BY <1>2, <1>3, InStandbyReady, InDoStandbyEffect DEF Ready
  <1> HIDE DEF a, i
  <1>6. {} \ {i} = {} /\ UseOf(a) = UseOf(hal) /\ FmWaits(a)
    BY <1>2, <1>5, SameCallKeeps
  <1>7. Ready(t, a, {}, UseOf(a))
    BY <1>5, <1>6
  <1>8. i = th[t].victim
    BY DEF i
  <1> QED
    BY <1>1, <1>3, <1>4, <1>5, <1>6, <1>7, <1>8, StandbyDoneSafe

-----------------------------------------------------------------------------
(* The calls of the client that one step completes.                          *)

(* A state with the same streams but x, which others do not point to: it     *)
(* comes, or its client has done with it.                                    *)
LEMMA NewSound ==
  ASSUME TypeOK, Safe, HwFree, NEW t \in Threads, NEW x \in Streams, ~Alive(hal, x),
         NEW a \in HalState, Uses(a, UseOf(hal)), SameCall(hal, a),
         \A y : y # None => (Member(a, y) <=> Member(hal, y) \/ y = x),
         \A o \in OutStreams : o # x => a.out[o] = hal.out[o],
         \A i \in InStreams : i # x => a.in[i] = hal.in[i],
         x \in OutStreams =>
           a.out[x].alive /\ a.out[x].mStandby /\ Off(a.out[x]),
         x \in InStreams =>
           /\ a.in[x].alive /\ a.in[x].mStandby /\ Off(a.in[x])
           /\ a.in[x].mNeedEchoReference = FALSE /\ a.in[x].mEchoReference = None
  PROVE  Sound(t, a)
  <1>1. /\ Ready(t, hal, {}, UseOf(hal)) /\ FmWaits(hal) /\ MembersAlive(hal)
        /\ NoEchoRefs(hal)
    BY ReadyAtRest
  <1>2. \A y : Alive(hal, y) => Alive(a, y)
    BY DEF Alive
  <1>3. MembersAlive(a)
    BY <1>1, <1>2, HalAssumption DEF MembersAlive, Alive, Streams
  <1>4. NoEchoRefs(a)
    BY <1>1 DEF NoEchoRefs
  <1>5. OneCapture(a)
    BY <1>1 DEF Ready, OneCapture, Off
  <1>6. AllSettled(a, {})
    BY <1>1 DEF Ready, AllSettled, Settled, Playing
  <1>7. AllPlaying(a)
    BY <1>6 DEF AllSettled, AllPlaying, Settled
  <1>8. FmKnown(a) /\ FmWaits(a) /\ UseOf(a) = UseOf(hal)
    BY <1>1, SameCallKeeps DEF Ready
  <1>9. HalSafe(a)
    BY <1>3, <1>4, <1>5, <1>7, <1>8 DEF HalSafe
  <1>10. ASSUME NEW u \in Others(t) PROVE Fits(th[u], a)
    <2>1. HasPointers(th[u]) /\ Fits(th[u], hal)
      BY DEF Others, TypeOK, Safe
    <2>2. th[u].obj # None /\ th[u].obj \in Streams => th[u].obj # x
      BY <1>1, <2>1 DEF Fits, Linked, MembersAlive
    <2>3. Linked(th[u], a)
      BY <1>2, <2>1 DEF Fits, Linked
    <2>4. th[u].ret = "free" => Alive(a, th[u].victim) /\ ~Member(a, th[u].victim)
      <3>1. th[u].ret = "free" => th[u].victim # None
        BY <2>1, HalAssumption DEF Others, Safe, Form, HasPointers
      <3> QED
        BY <1>1, <1>2, <2>1, <3>1 DEF Fits
    <2>5. /\ th[u].pc \in {"write.io", "write.in"} =>
               th[u].obj \in OutStreams /\ th[u].obj # x
          /\ th[u].pc \in Readers => th[u].obj \in InStreams /\ th[u].obj # x
      BY <2>1, <2>2, HalAssumption DEF HasPointers, Readers, Streams
    <2>6. /\ th[u].pc \in {"write.io", "write.in"} =>
               a.out[th[u].obj] = hal.out[th[u].obj]
          /\ th[u].pc \in Readers => a.in[th[u].obj] = hal.in[th[u].obj]
      BY <2>5
    <2> QED
      BY <2>1, <2>3, <2>4, <2>6 DEF Fits, Readers
  <1> QED
    BY <1>6, <1>9, <1>10 DEF Sound

LEMMA DropSound ==
  ASSUME TypeOK, Safe, HwFree, NEW t \in Threads, NEW x, ClientDone(x),
         NEW a \in HalState, Uses(a, UseOf(hal)), SameCall(hal, a),
         \A y : y # None => (Member(a, y) <=> Member(hal, y) /\ y # x),
         a.out = hal.out, a.in = hal.in
  PROVE  Sound(t, a) /\ \A y : Alive(a, y) <=> Alive(hal, y)
  <1>1. /\ Ready(t, hal, {}, UseOf(hal)) /\ FmWaits(hal) /\ MembersAlive(hal)
        /\ NoEchoRefs(hal)
    BY ReadyAtRest
  <1>2. \A y : Alive(hal, y) <=> Alive(a, y)
    BY DEF Alive
  <1>3. MembersAlive(a)
    BY <1>1, <1>2, HalAssumption DEF MembersAlive, Streams
  <1>4. NoEchoRefs(a) /\ OneCapture(a) /\ AllSettled(a, {})
    BY <1>1 DEF NoEchoRefs, Ready, OneCapture, AllSettled
  <1>5. AllPlaying(a)
    BY <1>4 DEF AllSettled, AllPlaying, Settled
  <1>6. FmKnown(a) /\ FmWaits(a) /\ UseOf(a) = UseOf(hal)
    BY <1>1, SameCallKeeps DEF Ready
  <1>7. HalSafe(a)
    BY <1>3, <1>4, <1>5, <1>6 DEF HalSafe
  <1>8. ASSUME NEW u \in Others(t) PROVE Fits(th[u], a)
    <2>1. /\ Fits(th[u], hal) /\ th[u].obj # x
          /\ th[u].ret = "free" => th[u].victim # None
      BY HalAssumption DEF Others, TypeOK, Safe, ClientDone, Form, HasPointers
    <2> QED
      BY <1>2, <2>1 DEF Fits, Linked
  <1> QED
    BY <1>2, <1>4, <1>7, <1>8 DEF Sound

LEMMA Unused ==
  ASSUME TypeOK, Safe, HwFree
  PROVE  /\ \A o \in OutStreams : ~hal.out[o].alive => Off(hal.out[o]) /\ ~Alive(hal, o)
         /\ \A i \in InStreams : ~hal.in[i].alive => Off(hal.in[i]) /\ ~Alive(hal, i)
  BY DEF Safe, AllSettled, Settled, Playing, Alive

LEMMA OpenOutputSafe ==
  ASSUME TypeOK, Safe, NEW t \in Threads, NEW d \in OutDevices, OpenOutputStream(t, d)
  PROVE  Safe'
  <1>1. /\ th[t].pc = "idle" /\ HwFree /\ hal.mOutput = None
        /\ UNCHANGED <<own, th>>
    BY DEF OpenOutputStream, Calling
  <1>2. PICK o \in OutStreams :
          /\ ~hal.out[o].alive
          /\ hal' = [hal EXCEPT !.mOutput = o,
                       !.out[o] = [NoOut EXCEPT !.alive = TRUE, !.mDevices = d]]
    BY DEF OpenOutputStream
  <1> DEFINE q == [NoOut EXCEPT !.alive = TRUE, !.mDevices = d]
             b == SetOut(hal, o, q)
             a == [b EXCEPT !.mOutput = o]
  <1>3. hal \in HalState /\ Uses(hal, UseOf(hal))
    BY <1>1, ReadyAtRest DEF Ready
  <1>4. Off(hal.out[o]) /\ ~Alive(hal, o) /\ o \notin InStreams /\ o \in Streams
    BY <1>1, <1>2, Unused, HalAssumption DEF Streams
  <1>5. /\ q \in OutState /\ Off(q) /\ q.alive /\ q.mStandby
    BY HalAssumption DEF NoOut, OutState, Off
  <1>6. hal' = a
    BY <1>2, <1>3 DEF SetOut, HalState
  <1> HIDE DEF q
  <1>7. /\ b \in HalState /\ Uses(b, UseOf(hal))
        /\ b.out[o] = q /\ \A p \in OutStreams \ {o} : b.out[p] = hal.out[p]
        /\ b.in = hal.in /\ b.mOutput = hal.mOutput /\ b.mInputs = hal.mInputs
        /\ SameCall(hal, b)
    BY <1>3, <1>4, <1>5, ReplaceOut
  <1> HIDE DEF b
  <1>8. a = [b EXCEPT !.mOutput = o] /\ o \in OutStreams \cup {None}
    OBVIOUS
  <1> HIDE DEF a
  <1>9. /\ a \in HalState /\ Uses(a, UseOf(hal)) /\ SameCall(b, a)
        /\ a.out = b.out /\ a.in = b.in
        /\ a.mOutput = o /\ a.mInputs = b.mInputs
    BY <1>7, <1>8, SetMembers
  <1>10. SameCall(hal, a)
    BY <1>7, <1>9 DEF SameCall
  <1>11. \A y : y # None => (Member(a, y) <=> Member(hal, y) \/ y = o)
    BY <1>1, <1>7, <1>9 DEF Member
  <1>12. /\ a.out[o].alive /\ a.out[o].mStandby /\ Off(a.out[o])
         /\ \A p \in OutStreams : p # o => a.out[p] = hal.out[p]
         /\ \A i \in InStreams : i # o => a.in[i] = hal.in[i]
    BY <1>5, <1>7, <1>9
  <1>13. Sound(t, a)
    BY <1>1, <1>4, <1>9, <1>10, <1>11, <1>12, NewSound
  <1> QED
    BY <1>1, <1>6, <1>13, KeepSafe

LEMMA OpenInputSafe ==
  ASSUME TypeOK, Safe, NEW t \in Threads, NEW d \in InDevices, OpenInputStream(t, d)
  PROVE  Safe'
  <1>1. th[t].pc = "idle" /\ HwFree /\ UNCHANGED <<own, th>>
    BY DEF OpenInputStream, Calling
  <1>2. PICK i \in InStreams :
          /\ ~hal.in[i].alive
          /\ hal' = [hal EXCEPT !.mInputs = @ \cup {i},
                       !.in[i] = [NoIn EXCEPT !.alive = TRUE, !.mDevices = d]]
    BY DEF OpenInputStream
  <1> DEFINE q == [NoIn EXCEPT !.alive = TRUE, !.mDevices = d]
             b == SetIn(hal, i, q)
             I == hal.mInputs \cup {i}
             a == [b EXCEPT !.mInputs = I]
  <1>3. hal \in HalState /\ Uses(hal, UseOf(hal))
    BY <1>1, ReadyAtRest DEF Ready
  <1>4. Off(hal.in[i]) /\ ~Alive(hal, i) /\ i \notin OutStreams /\ i \in Streams
    BY <1>1, <1>2, Unused, HalAssumption DEF Streams
  <1>5. /\ q \in InState /\ Off(q) /\ q.alive /\ q.mStandby
        /\ q.mNeedEchoReference = FALSE /\ q.mEchoReference = None
    BY HalAssumption DEF NoIn, InState, Off
  <1>6. hal' = a
    BY <1>2, <1>3 DEF SetIn, HalState
  <1> HIDE DEF q
  <1>7. /\ b \in HalState /\ Uses(b, UseOf(hal))
        /\ b.in[i] = q /\ \A j \in InStreams \ {i} : b.in[j] = hal.in[j]
        /\ b.out = hal.out /\ b.mOutput = hal.mOutput /\ b.mInputs = hal.mInputs
        /\ SameCall(hal, b)
    BY <1>3, <1>4, <1>5, ReplaceIn
  <1> HIDE DEF b
  <1>8. a = [b EXCEPT !.mInputs = I] /\ I \in SUBSET InStreams
    BY <1>3 DEF HalState
  <1> HIDE DEF a
  <1>9. /\ a \in HalState /\ Uses(a, UseOf(hal)) /\ SameCall(b, a)
        /\ a.out = b.out /\ a.in = b.in
        /\ a.mOutput = b.mOutput /\ a.mInputs = I
    BY <1>7, <1>8, SetMembers
  <1>10. SameCall(hal, a)
    BY <1>7, <1>9 DEF SameCall
  <1>11. \A y : Member(a, y) <=> Member(hal, y) \/ y = i
    BY <1>7, <1>9 DEF Member
  <1>12. /\ a.in[i].alive /\ a.in[i].mStandby /\ Off(a.in[i])
         /\ a.in[i].mNeedEchoReference = FALSE /\ a.in[i].mEchoReference = None
         /\ \A o \in OutStreams : o # i => a.out[o] = hal.out[o]
         /\ \A j \in InStreams : j # i => a.in[j] = hal.in[j]
    BY <1>5, <1>7, <1>9
  <1>13. Sound(t, a)
    BY <1>1, <1>4, <1>9, <1>10, <1>11, <1>12, NewSound
  <1> QED
    BY <1>1, <1>6, <1>13, KeepSafe

LEMMA CloseInputSafe ==
  ASSUME TypeOK, Safe, NEW t \in Threads, NEW i \in InStreams, CloseInputStream(t, i)
  PROVE  Safe'
  <1> DEFINE I == hal.mInputs \ {i}
             a == [hal EXCEPT !.mInputs = I]
  <1>1. /\ th[t].pc = "idle" /\ HwFree /\ i \in hal.mInputs /\ ClientDone(i)
        /\ Leave(t, None, i, a)
    BY DEF CloseInputStream, Calling
  <1>2. hal \in HalState /\ Uses(hal, UseOf(hal)) /\ MembersAlive(hal)
    BY <1>1, ReadyAtRest DEF Ready
  <1>3. a = [hal EXCEPT !.mInputs = I] /\ I \in SUBSET InStreams
    BY <1>2 DEF HalState
  <1> HIDE DEF a, I
  <1>4. /\ a \in HalState /\ Uses(a, UseOf(hal)) /\ SameCall(hal, a)
        /\ a.out = hal.out /\ a.in = hal.in
        /\ a.mOutput = hal.mOutput /\ a.mInputs = I
    BY <1>2, <1>3, SetMembers
  <1>5. i # hal.mOutput /\ i # None
    BY <1>2, HalAssumption DEF HalState
  <1>6. \A y : Member(a, y) <=> Member(hal, y) /\ y # i
    BY <1>4, <1>5 DEF Member, I
  <1>7. Sound(t, a) /\ \A y : Alive(a, y) <=> Alive(hal, y)
    BY <1>1, <1>4, <1>6, DropSound
  <1>8. Good(t, i) /\ Good(t, None) /\ Alive(hal, i)
    BY <1>1, <1>2, <1>5, GoodMember DEF Member, Streams, Good
  <1> QED
    BY <1>1, <1>7, <1>8, LeaveSafe

LEMMA CloseOutputSafe ==
  ASSUME TypeOK, Safe, NEW t \in Threads, CloseOutputStream(t)
  PROVE  Safe'
  <1> DEFINE o == hal.mOutput
             a == [hal EXCEPT !.mOutput = None]
  <1>1. /\ th[t].pc = "idle" /\ HwFree /\ o # None /\ ClientDone(o)
        /\ IF hal.mEchoReference # None /\ ActiveInputs(hal) # {}
           THEN \E i \in ActiveInputs(hal) :
                  /\ hal' = a
                  /\ Go(t, [Idle EXCEPT !.pc = "inStandby", !.victim = i,
                                        !.spOut = o, !.spIn = i])
                  /\ UNCHANGED own
           ELSE Leave(t, o, None, a)
    BY DEF CloseOutputStream, Calling
  <1>2. hal \in HalState /\ Uses(hal, UseOf(hal)) /\ MembersAlive(hal)
    BY <1>1, ReadyAtRest DEF Ready
  <1>3. /\ a \in HalState /\ Uses(a, UseOf(hal)) /\ SameCall(hal, a)
        /\ a.out = hal.out /\ a.in = hal.in
        /\ a.mOutput = None /\ a.mInputs = hal.mInputs
    BY <1>2, SetMembers
  <1> HIDE DEF a
  <1>4. o \in OutStreams /\ o \notin hal.mInputs /\ None \notin hal.mInputs
    BY <1>1, <1>2, HalAssumption DEF HalState
  <1>5. \A y : y # None => (Member(a, y) <=> Member(hal, y) /\ y # o)
    BY <1>3, <1>4 DEF Member
  <1>6. Sound(t, a) /\ \A y : Alive(a, y) <=> Alive(hal, y)
    BY <1>1, <1>3, <1>5, DropSound
  <1>7. Good(t, o) /\ Good(t, None) /\ Alive(hal, o)
    BY <1>1, <1>2, <1>4, GoodMember DEF Member, Streams, Good
  <1>8. CASE hal.mEchoReference # None /\ ActiveInputs(hal) # {}
    <2>1. PICK i \in ActiveInputs(hal) :
            /\ hal' = a
            /\ Go(t, [Idle EXCEPT !.pc = "inStandby", !.victim = i,
                                  !.spOut = o, !.spIn = i])
            /\ UNCHANGED own
      BY <1>1, <1>8
    <2> DEFINE q == [Idle EXCEPT !.pc = "inStandby", !.victim = i,
                                 !.spOut = o, !.spIn = i]
    <2>2. /\ q.pc = "inStandby" /\ q.obj = None /\ q.ret = "return"
          /\ q.spOut = o /\ q.spIn = i /\ q.echoOut = None
      BY DEF Idle
    <2>3. Go(t, q) /\ hal' = a
      BY <2>1
    <2> HIDE DEF q
    <2>4. i \in InStreams /\ i \in hal.mInputs /\ i # None
      BY <1>2, ActiveInput
    <2>5. Good(t, i) /\ Alive(hal, i)
      BY <1>2, <2>4, GoodMember DEF Member, Streams, Good
    <2>6. PointersOf(q) = {o, i}
      BY <1>1, <2>2, <2>4 DEF PointersOf
    <2>7. Form(q) /\ Fits(q, a) /\ {} = LocksOf(q)
      BY <1>6, <1>7, <2>2, <2>5, <2>6 DEF Form, Fits, Linked, LocksOf
    <2>8. \A u \in Others(t) : Apart(q, th[u])
      BY <1>7, <2>2, <2>5, <2>6, ApartGood DEF Readers
    <2>9. Hold(t, {})
      BY <1>1, <2>1, IdleHolds
    <2> QED
      BY <1>1, <1>6, <2>2, <2>3, <2>7, <2>8, <2>9, GoSafe
  <1>9. CASE ~(hal.mEchoReference # None /\ ActiveInputs(hal) # {})
    <2>1. Leave(t, o, None, a)
      BY <1>1, <1>9
    <2> QED
      BY <1>1, <1>4, <1>6, <1>7, <2>1, LeaveSafe
  <1> QED
    BY <1>8, <1>9

LEMMA ClientStandbySafe ==
  ASSUME TypeOK, Safe, HwFree, NEW t \in Threads, th[t].pc = "idle",
         NEW i \in InStreams \cap Mine(t), NEW s, Ready(t, s, {}, UseOf(s)), FmWaits(s),
         InStandbyIn(t, {i}, [Idle EXCEPT !.obj = i, !.victim = i], s)
  PROVE  Safe'
  <1> DEFINE q == [Idle EXCEPT !.obj = i, !.victim = i]
             a == InDoStandby(s, i)
  <1>1. q.victim = i /\ q.ret = "return" /\ q.spOut = None /\ q.spIn = None
    BY DEF Idle
  <1>2. InStandbyIn(t, {i}, q, s)
    OBVIOUS
  <1> HIDE DEF q
  <1>3. s \in HalState /\ NoEchoRefs(s) /\ UseOf(s) \in Nat
    BY ReadyMeans, UseNat
  <1>4. Resume(t, q, a)
    BY <1>1, <1>2, <1>3, StandbyGoesOn
  <1>5. Leave(t, None, None, a)
    BY <1>1, <1>4 DEF Resume
  <1>6. Ready(t, a, {} \ {i}, UseOf(s)) /\ SameCall(s, a)
    BY <1>3, InStandbyReady
  <1> HIDE DEF a
  <1>7. {} \ {i} = {} /\ UseOf(a) = UseOf(s) /\ FmWaits(a)
    BY <1>6, SameCallKeeps
  <1>8. Ready(t, a, {}, UseOf(a)) /\ Good(t, None)
    BY <1>6, <1>7 DEF Good
  <1> QED
    BY <1>5, <1>7, <1>8, ReadyLeaves

LEMMA MineInput ==
  ASSUME TypeOK, NEW t, NEW i \in hal.mInputs, Free(i)
  PROVE  i \in InStreams \cap Mine(t)
  BY DEF TypeOK, HalState, Mine, Free, Locks, Streams

LEMMA MineOutput ==
  ASSUME TypeOK, NEW t, hal.mOutput # None, Free(hal.mOutput)
  PROVE  hal.mOutput \in OutStreams \cap Mine(t)
  BY DEF TypeOK, HalState, Mine, Free, Locks, Streams

LEMMA InStandbySafe ==
  ASSUME TypeOK, Safe, NEW t \in Threads, NEW i \in InStreams, InStandby(t, i)
  PROVE  Safe'
  <1>1. /\ th[t].pc = "idle" /\ i \in hal.mInputs /\ Free(i) /\ HwFree
        /\ InStandbyIn(t, {i}, [Idle EXCEPT !.obj = i, !.victim = i], hal)
    BY DEF InStandby, Calling
  <1> QED
    BY <1>1, MineInput, ReadyAtRest, ClientStandbySafe

LEMMA InSetParametersSafe ==
  ASSUME TypeOK, Safe, NEW t \in Threads, NEW i \in InStreams, NEW d \in InDevices,
         InSetParameters(t, i, d)
  PROVE  Safe'
  <1> DEFINE s == [hal EXCEPT !.in[i].mDevices = d]
  <1>1. /\ th[t].pc = "idle" /\ i \in hal.mInputs /\ Free(i) /\ HwFree
        /\ IF hal.mMode = "IN_CALL"
           THEN hal' = s /\ UNCHANGED <<own, th>>
           ELSE InStandbyIn(t, {i}, [Idle EXCEPT !.obj = i, !.victim = i], s)
    BY DEF InSetParameters, Calling
  <1>2. hal \in HalState /\ Ready(t, hal, {}, UseOf(hal)) /\ FmWaits(hal)
    BY <1>1, ReadyAtRest
  <1>3. d \in AllInDevices /\ s = [hal EXCEPT !.in[i].mDevices = d]
    BY HalAssumption
  <1> HIDE DEF s
  <1>4. Calm(hal, s) /\ SameCall(hal, s)
    BY <1>2, <1>3, SetInField
  <1>5. Ready(t, s, {}, UseOf(s)) /\ FmWaits(s)
    BY <1>2, <1>4, ReadyOn
  <1>6. i \in InStreams \cap Mine(t)
    BY <1>1, MineInput
  <1>7. CASE hal.mMode = "IN_CALL"
    BY <1>1, <1>5, <1>7, ReadySound, KeepSafe
  <1>8. CASE hal.mMode # "IN_CALL"
    BY <1>1, <1>5, <1>6, <1>8, ClientStandbySafe
  <1> QED
    BY <1>7, <1>8

(* The mixer is opened and closed again, or cannot be opened.                *)
LEMMA OpenAndClose ==
  ASSUME NEW s \in HalState, Handles(s), NEW ok \in BOOLEAN,
         NEW a, a = CloseMixer(OpenMixer(s, ok))
  PROVE  Calm(s, a) /\ SameCall(s, a)
  <1> DEFINE b == OpenMixer(s, ok)
  <1>1. /\ Base(s, b) /\ SamePcm(s, b) /\ Handles(b)
        /\ MixerHandle(s, ok) => b.mMixerOpenCnt = s.mMixerOpenCnt + 1
        /\ ~MixerHandle(s, ok) => b.mMixerOpenCnt = s.mMixerOpenCnt
    BY OpenMixerEffect
  <1>2. a = CloseMixer(b)
    OBVIOUS
  <1> HIDE DEF b
  <1>3. /\ b \in HalState /\ s.mMixerOpenCnt \in Nat /\ b.mMixerOpenCnt \in Nat
    BY <1>1 DEF Base, HalState
  <1>4. Base(s, a) /\ SamePcm(s, a) /\ SameMixer(s, a)
    <2>1. CASE MixerHandle(s, ok)
      <3>1. b.mMixerOpenCnt > 0
        BY <1>1, <1>3, <2>1
      <3>2. /\ Base(b, a) /\ SamePcm(b, a) /\ Handles(a)
            /\ a.mMixerOpenCnt = b.mMixerOpenCnt - 1
        BY <1>1, <1>2, <1>3, <3>1, CloseMixerEffect
      <3>3. a.mMixerOpenCnt = s.mMixerOpenCnt
        BY <1>1, <1>3, <2>1, <3>2
      <3>4. a.mMixer <=> s.mMixer
        BY <3>2, <3>3 DEF Handles
      <3> QED
        BY <1>1, <3>2, <3>3, <3>4, BaseTrans DEF SamePcm, SameMixer
    <2>2. CASE ~MixerHandle(s, ok)
      <3>1. ~(s.mMixerOpenCnt > 0)
        BY <2>2 DEF MixerHandle, Handles
      <3>2. b.mMixerOpenCnt = 0
        BY <1>1, <1>3, <2>2, <3>1
      <3>3. a = b
        BY <1>2, <3>2 DEF CloseMixer
      <3>4. a.mMixer <=> s.mMixer
        BY <1>1, <2>2, <3>3 DEF Handles
      <3> QED
        BY <1>1, <2>2, <3>3, <3>4 DEF SameMixer
    <2> QED
      BY <2>1, <2>2
  <1> QED
    BY <1>4, BaseCalm

LEMMA InSetSourceSafe ==
  ASSUME TypeOK, Safe, NEW t \in Threads, NEW i \in InStreams, InSetSource(t, i)
  PROVE  Safe'
  <1>1. th[t].pc = "idle" /\ HwFree /\ UNCHANGED <<own, th>>
    BY DEF InSetSource, Calling
  <1>2. PICK ok \in BOOLEAN : hal' = CloseMixer(OpenMixer(hal, ok))
    BY OutcomesTruth DEF InSetSource
  <1> DEFINE a == CloseMixer(OpenMixer(hal, ok))
  <1>3. /\ hal \in HalState /\ Handles(hal)
        /\ Ready(t, hal, {}, UseOf(hal)) /\ FmWaits(hal)
    BY <1>1, ReadyAtRest DEF Ready, Uses
  <1>4. Calm(hal, a) /\ SameCall(hal, a)
    BY <1>3, OpenAndClose
  <1>5. hal' = a
    BY <1>2
  <1> HIDE DEF a
  <1>6. Sound(t, a)
    BY <1>3, <1>4, ReadyOn, ReadySound
  <1> QED
    BY <1>1, <1>5, <1>6, KeepSafe

(* No client adds an echo canceller, so there is none to remove.             *)
LEMMA NoEffects ==
  ASSUME NoEcho, TypeOK, Safe, NEW t \in Threads, NEW i \in InStreams
  PROVE  ~AddAudioEffect(t, i) /\ ~RemoveAudioEffect(t, i)
  BY DEF NoEcho, Safe, HalSafe, NoEchoRefs, AddAudioEffect, RemoveAudioEffect,
         SetNeedEcho, Calling

LEMMA OutStandbySafe ==
  ASSUME TypeOK, Safe, NEW t \in Threads, OutStandby(t)
  PROVE  Safe'
  <1> DEFINE o == hal.mOutput
             a == OutDoStandby(hal, o)
  <1>1. /\ th[t].pc = "idle" /\ o # None /\ Free(o) /\ HwFree
        /\ hal' = a /\ UNCHANGED <<own, th>>
    BY DEF OutStandby, Calling
  <1>2. /\ hal \in HalState /\ Ready(t, hal, {}, UseOf(hal)) /\ FmWaits(hal)
        /\ UseOf(hal) \in Nat /\ o \in OutStreams \cap Mine(t)
    BY <1>1, ReadyAtRest, UseNat, MineOutput
  <1>3. Ready(t, a, {} \ {o}, UseOf(hal)) /\ SameCall(hal, a)
    BY <1>2, OutStandbyReady
  <1> HIDE DEF a
  <1>4. {} \ {o} = {} /\ UseOf(a) = UseOf(hal) /\ FmWaits(a)
    BY <1>2, <1>3, SameCallKeeps
  <1>5. Ready(t, a, {}, UseOf(a))
    BY <1>3, <1>4
  <1> QED
    BY <1>1, <1>4, <1>5, ReadySound, KeepSafe

LEMMA OutSetParametersSafe ==
  ASSUME TypeOK, Safe, NEW t \in Threads, NEW d \in OutDevices, OutSetParameters(t, d)
  PROVE  Safe'
  <1> DEFINE o == hal.mOutput
             s == [hal EXCEPT !.out[o].mDevices = d]
             a == OutDoStandby(s, o)
  <1>1. /\ th[t].pc = "idle" /\ o # None /\ Free(o) /\ HwFree
        /\ hal' = (IF hal.mMode = "IN_CALL" THEN s ELSE a)
        /\ UNCHANGED <<own, th>>
    BY DEF OutSetParameters, Calling
  <1>2. /\ hal \in HalState /\ Ready(t, hal, {}, UseOf(hal)) /\ FmWaits(hal)
        /\ o \in OutStreams \cap Mine(t)
    BY <1>1, ReadyAtRest, MineOutput
  <1>3. d \in AllOutDevices /\ s = [hal EXCEPT !.out[o].mDevices = d]
        /\ a = OutDoStandby(s, o)
    BY HalAssumption
  <1> HIDE DEF s, a, o
  <1>4. Calm(hal, s) /\ SameCall(hal, s)
    BY <1>2, <1>3, SetOutField
  <1>5. Ready(t, s, {}, UseOf(s)) /\ FmWaits(s)
    BY <1>2, <1>4, ReadyOn
  <1>6. s \in HalState /\ UseOf(s) \in Nat
    BY <1>5, ReadyMeans, UseNat
  <1>7. Ready(t, a, {} \ {o}, UseOf(s)) /\ SameCall(s, a)
    BY <1>2, <1>3, <1>5, <1>6, OutStandbyReady
  <1>8. {} \ {o} = {} /\ UseOf(a) = UseOf(s) /\ FmWaits(a)
    BY <1>5, <1>7, SameCallKeeps
  <1>9. Ready(t, a, {}, UseOf(a))
    BY <1>7, <1>8
  <1>10. Sound(t, s) /\ Sound(t, a)
    BY <1>5, <1>8, <1>9, ReadySound
  <1> QED
    BY <1>1, <1>10, KeepSafe

LEMMA SetMicMuteSafe ==
  ASSUME TypeOK, Safe, NEW t \in Threads, SetMicMute(t)
  PROVE  Safe'
  <1> DEFINE s == [hal EXCEPT !.mMicMute = ~@]
  <1>1. /\ th[t].pc = "idle" /\ HwFree
        /\ IF hal.mMode = "IN_CALL" \/ ActiveInputs(hal) = {}
           THEN hal' = s /\ UNCHANGED <<own, th>>
           ELSE \E i \in ActiveInputs(hal) :
                  /\ hal' = s
                  /\ Go(t, [Idle EXCEPT !.pc = "inStandby", !.victim = i, !.spIn = i])
                  /\ UNCHANGED own
    BY DEF SetMicMute, Calling
  <1>2. /\ hal \in HalState /\ Ready(t, hal, {}, UseOf(hal)) /\ FmWaits(hal)
        /\ MembersAlive(hal)
    BY <1>1, ReadyAtRest
  <1>3. (~hal.mMicMute) \in BOOLEAN /\ s = [hal EXCEPT !.mMicMute = ~hal.mMicMute]
    BY <1>2
  <1> HIDE DEF s
  <1>4. Calm(hal, s) /\ SameCall(hal, s)
    BY <1>2, <1>3, SetMute
  <1>5. Ready(t, s, {}, UseOf(s)) /\ FmWaits(s)
    BY <1>2, <1>4, ReadyOn
  <1>6. Sound(t, s)
    BY <1>5, ReadySound
  <1>7. CASE hal.mMode = "IN_CALL" \/ ActiveInputs(hal) = {}
    BY <1>1, <1>6, <1>7, KeepSafe
  <1>8. CASE ~(hal.mMode = "IN_CALL" \/ ActiveInputs(hal) = {})
    <2>1. PICK i \in ActiveInputs(hal) :
            /\ hal' = s
            /\ Go(t, [Idle EXCEPT !.pc = "inStandby", !.victim = i, !.spIn = i])
            /\ UNCHANGED own
      BY <1>1, <1>8
    <2> DEFINE q == [Idle EXCEPT !.pc = "inStandby", !.victim = i, !.spIn = i]
    <2>2. /\ q.pc = "inStandby" /\ q.obj = None /\ q.ret = "return"
          /\ q.spOut = None /\ q.spIn = i /\ q.echoOut = None
      BY DEF Idle
    <2>3. Go(t, q)
      BY <2>1
    <2> HIDE DEF q
    <2>4. i \in InStreams /\ i \in hal.mInputs /\ i # None
      BY <1>2, ActiveInput
    <2>5. Good(t, i) /\ Alive(s, i)
      BY <1>2, <1>5, <2>4, GoodMember, ReadyMeans DEF Member, Streams, Good
    <2>6. PointersOf(q) = {i}
      BY <2>2, <2>4 DEF PointersOf
    <2>7. Form(q) /\ Fits(q, s) /\ {} = LocksOf(q)
      BY <2>2, <2>5, <2>6 DEF Form, Fits, Linked, LocksOf
    <2>8. \A u \in Others(t) : Apart(q, th[u])
      BY <2>2, <2>5, <2>6, ApartGood DEF Readers
    <2>9. Hold(t, {})
      BY <1>1, <2>1, IdleHolds
    <2> QED
      BY <1>1, <1>6, <2>1, <2>2, <2>3, <2>7, <2>8, <2>9, GoSafe
  <1> QED
    BY <1>7, <1>8

(* FM: the streams stay as they are, and nobody waits for a mutex.           *)
LEMMA FrameSound ==
  ASSUME TypeOK, Safe, NEW t \in Threads, NEW a, Frame(hal, a, {}),
         Uses(a, UseOf(a)), FmKnown(a), FmWaits(a)
  PROVE  Sound(t, a)
  <1>1. /\ a \in HalState /\ NoEchoRefs(a) /\ MembersAlive(a)
    BY FrameLives DEF Safe, HalSafe
  <1>2. /\ \A o \in OutStreams : SameDev(a.out[o], hal.out[o])
                                 /\ (a.out[o].alive <=> hal.out[o].alive)
        /\ \A i \in InStreams : SameDev(a.in[i], hal.in[i])
                                /\ (a.in[i].alive <=> hal.in[i].alive)
    BY DEF Frame
  <1>3. AllPlaying(a) /\ OneCapture(a)
    BY <1>2 DEF Safe, HalSafe, AllPlaying, Playing, OneCapture, SameDev
  <1>4. HwFree => AllSettled(a, {})
    BY <1>2 DEF Safe, AllSettled, Settled, Playing, Off, SameDev
  <1>5. ASSUME NEW u \in Others(t) PROVE Fits(th[u], a)
    <2>1. u \in Threads /\ HasPointers(th[u]) /\ Fits(th[u], hal)
      BY DEF Others, TypeOK, Safe
    <2>2. th[u].pc \in {"read.out", "read.in"} =>
            (hal.in[th[u].obj].mStandby => a.in[th[u].obj].mStandby)
      BY <1>2, <2>1 DEF HasPointers, SameDev
    <2> QED
      BY <2>1, <2>2, FrameFits
  <1> QED
    BY <1>1, <1>3, <1>4, <1>5 DEF Sound, HalSafe

LEMMA EnableFMSafe ==
  ASSUME Assumed, TypeOK, Safe, NEW t \in Threads, EnableFMRadio(t)
  PROVE  Safe'
  <1> DEFINE a == EnableFm(hal, TRUE, TRUE)
  <1>1. th[t].pc = "idle" /\ FmCalled /\ UNCHANGED <<own, th>>
        /\ (FmToggles => ~hal.mFmFd)
    BY DEF EnableFMRadio, Calling, FmCalled
  <1>2. hal' = a /\ ~hal.mFmFd
    BY <1>1, FmDevicesOpen DEF EnableFMRadio, Assumed
  <1>3. /\ hal \in HalState /\ Uses(hal, UseOf(hal)) /\ FmKnown(hal) /\ FmWaits(hal)
        /\ UseOf(hal) \in Nat
    BY UseNat DEF TypeOK, Safe, HalSafe
  <1>4. /\ Frame(hal, a, {})
        /\ a.mMode = hal.mMode /\ a.mInCallAudioMode = hal.mInCallAudioMode
        /\ hal.mMode = "IN_CALL" =>
             Uses(a, UseOf(hal)) /\ a.mFmFd = hal.mFmFd /\ a.mFmResumeAfterCall
        /\ hal.mMode # "IN_CALL" =>
             /\ Uses(a, UseOf(hal) + 1) /\ a.mFmFd
             /\ a.mFmResumeAfterCall = hal.mFmResumeAfterCall
    BY <1>3, EnableFmEffect
  <1> HIDE DEF a
  <1>5. Uses(a, UseOf(a)) /\ FmKnown(a) /\ FmWaits(a)
    <2>1. CASE hal.mMode = "IN_CALL"
      <3>1. UseOf(a) = UseOf(hal)
        BY <1>4, <2>1 DEF UseOf, FmPart
      <3> QED
        BY <1>1, <1>2, <1>4, <2>1, <3>1 DEF FmKnown, FmWaits
    <2>2. CASE hal.mMode # "IN_CALL"
      <3>1. UseOf(a) = UseOf(hal) + 1
        BY <1>2, <1>4, <2>2 DEF UseOf, FmPart
      <3> QED
        BY <1>1, <1>2, <1>3, <1>4, <2>2, <3>1 DEF FmKnown, FmWaits
    <2> QED
      BY <2>1, <2>2
  <1>6. Sound(t, a)
    BY <1>4, <1>5, FrameSound
  <1> QED
    BY <1>1, <1>2, <1>6, KeepSafe

LEMMA DisableFMSafe ==
  ASSUME Assumed, TypeOK, Safe, NEW t \in Threads, DisableFMRadio(t)
  PROVE  Safe'
  <1> DEFINE a == DisableFm(hal)
             n == IF hal.mInCallAudioMode THEN 1 ELSE 0
  <1>1. /\ th[t].pc = "idle" /\ UNCHANGED <<own, th>> /\ hal' = a
        /\ "fmOff" \in Calls[t] /\ (FmToggles => hal.mFmFd)
    BY DEF DisableFMRadio, Calling
  <1>2. hal.mFmFd
    BY <1>1 DEF Assumed, FmOpens
  <1>3. /\ hal \in HalState /\ Uses(hal, UseOf(hal)) /\ FmKnown(hal) /\ FmWaits(hal)
    BY DEF TypeOK, Safe, HalSafe
  <1>4. n \in Nat /\ UseOf(hal) = n + 1
    BY <1>2 DEF UseOf, FmPart
  <1>5. \A k \in Nat : Uses(hal, k + 1) =>
          /\ Frame(hal, a, {}) /\ Uses(a, k)
          /\ a.mMode = hal.mMode /\ a.mInCallAudioMode = hal.mInCallAudioMode
          /\ ~a.mFmFd /\ a.mFmResumeAfterCall = hal.mFmResumeAfterCall
    BY <1>3, DisableFmEffect
  <1>6. Uses(hal, n + 1)
    BY <1>3, <1>4
  <1> HIDE DEF a
  <1>7. /\ Frame(hal, a, {}) /\ Uses(a, n)
        /\ a.mMode = hal.mMode /\ a.mInCallAudioMode = hal.mInCallAudioMode
        /\ ~a.mFmFd /\ a.mFmResumeAfterCall = hal.mFmResumeAfterCall
    BY <1>4, <1>5, <1>6
  <1>8. UseOf(a) = n
    BY <1>7 DEF UseOf, FmPart
  <1>9. FmKnown(a) /\ FmWaits(a)
    BY <1>3, <1>7 DEF FmKnown, FmWaits
  <1>10. Sound(t, a)
    BY <1>7, <1>8, <1>9, FrameSound
  <1> QED
    BY <1>1, <1>10, KeepSafe

-----------------------------------------------------------------------------
(* setMode().                                                                *)

(* The active output goes to standby, if there is one.                       *)
LEMMA OutDownReady ==
  ASSUME TypeOK, Safe, NEW t \in Threads, NEW s, NEW n \in Nat, Ready(t, s, {}, n),
         NEW o, o # None => o \in OutStreams \cap Mine(t),
         NEW a, a = IF o = None THEN s ELSE OutDoStandby(s, o)
  PROVE  Ready(t, a, {}, n) /\ SameCall(s, a)
  <1>1. s \in HalState
    BY ReadyMeans
  <1>2. CASE o = None
    BY <1>2 DEF SameCall
  <1>3. CASE o # None
    <2>1. Ready(t, a, {} \ {o}, n) /\ SameCall(s, a)
      BY <1>1, <1>3, OutStandbyReady
    <2>2. {} \ {o} = {}
      OBVIOUS
    <2> QED
      BY <2>1, <2>2
  <1> QED
    BY <1>2, <1>3

(* The active input goes to standby, then the call route takes over or ends. *)
LEMMA InDownSafe ==
  ASSUME Assumed, TypeOK, Safe, NEW t \in Threads, th[t].pc # "stuck",
         NEW o \in OutStreams \cup {None}, NEW i \in InStreams \cap Mine(t),
         Good(t, o), Good(t, i), NEW s, Ready(t, s, {}, FmPart(s)), NEW K,
         NEW ret \in {"enterCall", "leaveCall"},
         InStandbyIn(t, K, [Idle EXCEPT !.spOut = o, !.spIn = i, !.victim = i,
                                        !.ret = ret], s)
  PROVE  Safe'
  <1> DEFINE q == [Idle EXCEPT !.spOut = o, !.spIn = i, !.victim = i, !.ret = ret]
             a == InDoStandby(s, i)
  <1>1. q.victim = i /\ q.ret = ret /\ q.spOut = o /\ q.spIn = i
    BY DEF Idle
  <1>2. InStandbyIn(t, K, q, s)
    OBVIOUS
  <1> HIDE DEF q
  <1>3. s \in HalState /\ NoEchoRefs(s) /\ FmPart(s) \in Nat
    BY ReadyMeans, UseNat
  <1>4. Resume(t, q, a)
    BY <1>1, <1>2, <1>3, StandbyGoesOn
  <1>5. Ready(t, a, {} \ {i}, FmPart(s)) /\ SameCall(s, a)
    BY <1>3, InStandbyReady
  <1> HIDE DEF a
  <1>6. {} \ {i} = {} /\ FmPart(a) = FmPart(s)
    BY <1>5, SameCallKeeps
  <1>7. Ready(t, a, {}, FmPart(a))
    BY <1>5, <1>6
  <1>8. CASE ret = "enterCall"
    <2>1. EnterCall(t, o, i, a)
      BY <1>1, <1>4, <1>8 DEF Resume
    <2> QED
      BY <1>7, <2>1, EnterCallSafe
  <1>9. CASE ret = "leaveCall"
    <2>1. LeaveCall(t, o, i, a)
      BY <1>1, <1>4, <1>9 DEF Resume
    <2> QED
      BY <1>7, <2>1, LeaveCallSafe
  <1> QED
    BY <1>8, <1>9

LEMMA SetModeBodySafe ==
  ASSUME Assumed, TypeOK, Safe, HwFree, NEW t \in Threads, th[t].pc # "stuck",
         NEW m \in AllModes, NEW o, NEW i, Good(t, o), Good(t, i),
         o # None => o \in OutStreams \cap Mine(t),
         i # None => i \in InStreams \cap Mine(t),
         NEW s, Ready(t, s, {}, UseOf(s)), SetModeBody(t, m, o, i, s)
  PROVE  Safe'
  <1>1. s \in HalState /\ FmPart(s) \in Nat /\ UseOf(s) \in Nat
        /\ o \in OutStreams \cup {None} /\ i \in InStreams \cup {None}
    BY ReadyMeans, UseNat
  <1>2. PICK ril \in Outcomes("ril") : SetModeBody(t, m, o, i, s)!(ril)
    BY DEF SetModeBody
  <1> DEFINE cp == m # "NORMAL" /\ (s.mActivatedCP \/ (s.mMode = "NORMAL" /\ ril))
             a == [s EXCEPT !.mMode = m, !.mActivatedCP = cp]
             path == IF a.mMixer THEN "RCV" ELSE a.playbackPath
             reset == [a EXCEPT !.playbackPath = path]
             OutDown(b) == IF o = None THEN b ELSE OutDoStandby(b, o)
             InDown(ret, b) ==
               InStandbyIn(t, {o, i} \ {None},
                 [Idle EXCEPT !.spOut = o, !.spIn = i, !.victim = i, !.ret = ret], b)
             closed == ClosePcmOut(CloseMixer(reset))
  <1>3. /\ m = s.mMode => SetModeReturn(t, o, i, s)
        /\ m # s.mMode /\ m = "IN_CALL" /\ ~s.mInCallAudioMode =>
             IF i = None THEN EnterCall(t, o, i, OutDown(a))
             ELSE InDown("enterCall", OutDown(a))
        /\ m # s.mMode /\ m = "NORMAL" /\ s.mInCallAudioMode =>
             IF i = None THEN LeaveCall(t, o, i, OutDown(closed))
             ELSE InDown("leaveCall", OutDown(closed))
        /\ /\ m # s.mMode
           /\ ~(m = "IN_CALL" /\ ~s.mInCallAudioMode)
           /\ ~(m = "NORMAL" /\ s.mInCallAudioMode)
           => SetModeReturn(t, o, i, a)
    BY <1>2
  <1>4. cp \in BOOLEAN /\ a = [s EXCEPT !.mMode = m, !.mActivatedCP = cp]
    BY OutcomesTruth
  <1> HIDE DEF cp, a
  <1>5. /\ Calm(s, a)
        /\ a.mMode = m /\ a.mInCallAudioMode = s.mInCallAudioMode
        /\ a.mFmFd = s.mFmFd /\ a.mFmResumeAfterCall = s.mFmResumeAfterCall
    <2>1. s \in HalState /\ m \in AllModes
      BY <1>1
    <2>2. Calm(s, a)
      BY <1>4, <2>1, SetMMode
    <2>3. /\ a.mMode = m /\ a.mInCallAudioMode = s.mInCallAudioMode
          /\ a.mFmFd = s.mFmFd /\ a.mFmResumeAfterCall = s.mFmResumeAfterCall
      BY <1>4, <2>1 DEF HalState
    <2> QED
      BY <2>2, <2>3
  <1>6. path \in {"RCV", "SPK", "HP", "BT", "off"}
    BY <1>5 DEF Calm, Frame, HalState
  <1> HIDE DEF path
  <1>7. FmKnown(a) /\ UseOf(a) = UseOf(s)
    BY <1>5 DEF Ready, FmKnown, UseOf, FmPart
  <1>8. Ready(t, a, {}, UseOf(a))
    BY <1>5, <1>7, ReadyCalm
  <1>9. a \in HalState /\ FmPart(a) \in Nat
    BY <1>8, ReadyMeans, UseNat
  <1>10. CASE m = s.mMode
    BY <1>1, <1>3, <1>10, SetModeReturnSafe
  <1>11. CASE m # s.mMode /\ m = "IN_CALL" /\ ~s.mInCallAudioMode
    <2> DEFINE b == OutDown(a)
    <2>1. UseOf(a) = FmPart(a)
      BY <1>5, <1>9, <1>11 DEF UseOf
    <2>2. Ready(t, a, {}, FmPart(a))
      BY <1>8, <2>1
    <2>3. Ready(t, b, {}, FmPart(a)) /\ SameCall(a, b)
      BY <1>9, <2>2, OutDownReady
    <2>4. IF i = None THEN EnterCall(t, o, i, b) ELSE InDown("enterCall", b)
      BY <1>3, <1>11
    <2> HIDE DEF b
    <2>5. Ready(t, b, {}, FmPart(b))
      BY <2>3, SameCallKeeps
    <2>6. CASE i = None
      BY <1>1, <2>4, <2>5, <2>6, EnterCallSafe
    <2>7. CASE i # None
      BY <1>1, <2>4, <2>5, <2>7, InDownSafe
    <2> QED
      BY <2>6, <2>7
  <1>12. CASE m # s.mMode /\ m = "NORMAL" /\ s.mInCallAudioMode
    <2> DEFINE b == OutDown(closed)
    <2>1. IF i = None THEN LeaveCall(t, o, i, b) ELSE InDown("leaveCall", b)
      BY <1>3, <1>12
    <2>2. Calm(a, reset) /\ SameCall(a, reset)
      BY <1>6, <1>9, PathEffect, BaseCalm
    <2> HIDE DEF reset
    <2>3. Ready(t, reset, {}, UseOf(a)) /\ FmPart(reset) = FmPart(a)
          /\ UseOf(reset) = UseOf(a)
      BY <1>8, <2>2, SameCallKeeps, ReadyCalm DEF Ready
    <2>4. UseOf(a) = FmPart(reset) + 1
      BY <1>5, <1>9, <1>12, <2>3 DEF UseOf
    <2>5. reset \in HalState /\ Uses(reset, FmPart(reset) + 1) /\ FmPart(reset) \in Nat
      BY <1>9, <2>3, <2>4, ReadyMeans DEF Ready
    <2>6. Base(reset, closed) /\ Uses(closed, FmPart(reset))
      BY <2>5, CloseBothEffect
    <2> HIDE DEF closed
    <2>7. /\ Frame(reset, closed, {}) /\ SameCall(reset, closed)
          /\ closed.in = reset.in
      BY <2>6, BaseFrame DEF Base
    <2>8. OneCapture(closed) /\ FmKnown(closed) /\ FmPart(closed) = FmPart(reset)
      BY <2>3, <2>7, SameCallKeeps DEF Ready, OneCapture
    <2>9. Ready(t, closed, {}, FmPart(reset))
      BY <2>3, <2>6, <2>7, <2>8, ReadyStep
    <2>10. Ready(t, b, {}, FmPart(reset)) /\ SameCall(closed, b)
      BY <2>5, <2>9, OutDownReady
    <2> HIDE DEF b
    <2>11. Ready(t, b, {}, FmPart(b))
      BY <2>8, <2>10, SameCallKeeps
    <2>12. CASE i = None
      BY <1>1, <2>1, <2>11, <2>12, LeaveCallSafe
    <2>13. CASE i # None
      BY <1>1, <2>1, <2>11, <2>13, InDownSafe
    <2> QED
      BY <2>12, <2>13
  <1>13. CASE /\ m # s.mMode
              /\ ~(m = "IN_CALL" /\ ~s.mInCallAudioMode)
              /\ ~(m = "NORMAL" /\ s.mInCallAudioMode)
    BY <1>1, <1>3, <1>8, <1>13, SetModeReturnSafe
  <1> QED
    BY <1>10, <1>11, <1>12, <1>13

(* setMode() looks for an active input, waits for its mutex or goes on.      *)
LEMMA SetModeScanInSafe ==
  ASSUME Assumed, TypeOK, Safe, HwFree, NEW t \in Threads, th[t].pc # "stuck",
         NEW m \in AllModes, NEW o, Good(t, o),
         o # None => o \in OutStreams \cap Mine(t),
         NEW s, Ready(t, s, {}, UseOf(s)), FmWaits(s), SetModeScanIn(t, m, o, s)
  PROVE  Safe'
  <1>1. /\ s \in HalState /\ s.mInputs = hal.mInputs /\ MembersAlive(s)
        /\ Good(t, None)
    BY ReadyMeans DEF Good
  <1>2. CASE ActiveInputs(s) = {}
    <2>1. SetModeBody(t, m, o, None, s)
      BY <1>2 DEF SetModeScanIn
    <2> QED
      BY <1>1, <2>1, SetModeBodySafe
  <1>3. CASE ActiveInputs(s) # {}
    <2>1. PICK i \in ActiveInputs(s) :
            /\ hal' = [s EXCEPT !.in[i].snap = @ \cup {t}]
            /\ Hold(t, {o} \ {None})
            /\ Go(t, [Idle EXCEPT !.pc = "setMode.in", !.mode = m, !.spOut = o,
                                  !.spIn = i])
      BY <1>3 DEF SetModeScanIn
    <2> DEFINE a == [s EXCEPT !.in[i].snap = @ \cup {t}]
               q == [Idle EXCEPT !.pc = "setMode.in", !.mode = m, !.spOut = o,
                                 !.spIn = i]
    <2>2. /\ q.pc = "setMode.in" /\ q.obj = None /\ q.ret = "return"
          /\ q.spOut = o /\ q.spIn = i /\ q.echoOut = None
      BY DEF Idle
    <2>3. hal' = a /\ Go(t, q)
      BY <2>1
    <2>4. a \in {[s EXCEPT !.in[i].snap = @ \cup {t}], [s EXCEPT !.in[i].snap = @ \ {t}]}
      OBVIOUS
    <2> HIDE DEF a, q
    <2>5. i \in InStreams /\ i \in s.mInputs /\ i # None
      BY <1>1, ActiveInput
    <2>6. Ready(t, a, {}, UseOf(a)) /\ FmWaits(a)
      BY <1>1, <2>4, <2>5, ReadySnapIn
    <2>7. Sound(t, a)
      BY <2>6, ReadySound
    <2>8. Good(t, i)
      BY <1>1, <2>5, GoodMember DEF Member, Streams
    <2>9. PointersOf(q) = {o, i} \ {None} /\ LocksOf(q) = {o} \ {None}
      BY <2>2 DEF PointersOf, LocksOf
    <2>10. \A x \in PointersOf(q) : Good(t, x) /\ Alive(a, x)
      <3>1. \A x : Alive(a, x) <=> Alive(hal, x)
        BY <2>6, ReadyMeans
      <3> QED
        BY <2>8, <2>9, <3>1 DEF Good
    <2>11. Form(q) /\ Fits(q, a)
      BY <2>2, <2>10 DEF Form, Fits, Linked
    <2>12. \A u \in Others(t) : Apart(q, th[u])
      BY <2>2, <2>10, ApartGood DEF Readers
    <2>13. {o} \ {None} \subseteq Mine(t)
      OBVIOUS
    <2> QED
      BY <2>1, <2>2, <2>3, <2>7, <2>9, <2>11, <2>12, <2>13, GoSafe
  <1> QED
    BY <1>2, <1>3

LEMMA SetModeScanOutSafe ==
  ASSUME Assumed, TypeOK, Safe, HwFree, NEW t \in Threads, th[t].pc # "stuck",
         NEW m \in AllModes, NEW s, Ready(t, s, {}, UseOf(s)), FmWaits(s),
         SetModeScanOut(t, m, s)
  PROVE  Safe'
  <1> DEFINE o == s.mOutput
  <1>1. /\ s \in HalState /\ s.mOutput = hal.mOutput /\ MembersAlive(s)
        /\ Good(t, None)
    BY ReadyMeans DEF Good
  <1>2. CASE o = None \/ s.out[o].mStandby
    <2>1. SetModeScanIn(t, m, None, s)
      BY <1>2 DEF SetModeScanOut
    <2> QED
      BY <1>1, <2>1, SetModeScanInSafe
  <1>3. CASE ~(o = None \/ s.out[o].mStandby)
    <2> DEFINE a == [s EXCEPT !.out[o].snap = @ \cup {t}]
               q == [Idle EXCEPT !.pc = "setMode.out", !.mode = m, !.spOut = o]
    <2>1. hal' = a /\ Hold(t, {}) /\ Go(t, q)
      BY <1>3 DEF SetModeScanOut
    <2>2. /\ q.pc = "setMode.out" /\ q.obj = None /\ q.ret = "return"
          /\ q.spOut = o /\ q.spIn = None /\ q.echoOut = None
      BY DEF Idle
    <2>3. o \in OutStreams
      BY <1>1, <1>3 DEF HalState
    <2>4. a \in {[s EXCEPT !.out[o].snap = @ \cup {t}], [s EXCEPT !.out[o].snap = @ \ {t}]}
      OBVIOUS
    <2> HIDE DEF a, q
    <2>5. Good(t, o)
      BY <1>1, <2>3, GoodMember DEF Member, Streams
    <2> HIDE DEF o
    <2>6. Ready(t, a, {}, UseOf(a)) /\ FmWaits(a)
      BY <1>1, <2>3, <2>4, ReadySnapOut
    <2>7. Sound(t, a)
      BY <2>6, ReadySound
    <2>8. PointersOf(q) = {o} \ {None} /\ LocksOf(q) = {}
      BY <2>2 DEF PointersOf, LocksOf
    <2>9. \A x \in PointersOf(q) : Good(t, x) /\ Alive(a, x)
      <3>1. \A x : Alive(a, x) <=> Alive(hal, x)
        BY <2>6, ReadyMeans
      <3> QED
        BY <2>5, <2>8, <3>1 DEF Good
    <2>10. Form(q) /\ Fits(q, a)
      BY <2>2, <2>9 DEF Form, Fits, Linked
    <2>11. \A u \in Others(t) : Apart(q, th[u])
      BY <2>2, <2>9, ApartGood DEF Readers
    <2> QED
      BY <2>1, <2>2, <2>7, <2>8, <2>10, <2>11, GoSafe
  <1> QED
    BY <1>2, <1>3

LEMMA SetModeLockOutSafe ==
  ASSUME Assumed, TypeOK, Safe, NEW t \in Threads, SetModeLockOut(t)
  PROVE  Safe'
  <1> DEFINE o == th[t].spOut
             m == th[t].mode
             s == [hal EXCEPT !.out[o].snap = @ \ {t}]
  <1>1. /\ HwFree /\ th[t].pc = "setMode.out" /\ Free(o)
        /\ IF o = hal.mOutput /\ t \in hal.out[o].snap
           THEN SetModeScanIn(t, m, o, s)
           ELSE IF Dies(t, o, hal) THEN Stuck(t, {}, s)
           ELSE SetModeScanOut(t, m, s)
    BY DEF SetModeLockOut
  <1>2. /\ hal \in HalState /\ Ready(t, hal, {}, UseOf(hal)) /\ FmWaits(hal)
        /\ th[t] \in ThreadState /\ HasPointers(th[t]) /\ Form(th[t])
    BY <1>1, ReadyAtRest
  <1>3. o \in OutStreams /\ m \in AllModes /\ th[t].ret = "return" /\ Good(t, o)
    BY <1>1, <1>2, GoodPointer DEF HasPointers, Form, ThreadState
  <1>4. o \in Mine(t)
    BY <1>1, <1>3 DEF Mine, Free, Locks, Streams
  <1>5. s \in {[hal EXCEPT !.out[o].snap = @ \cup {t}], [hal EXCEPT !.out[o].snap = @ \ {t}]}
    OBVIOUS
  <1> HIDE DEF s, o, m
  <1>6. Ready(t, s, {}, UseOf(s)) /\ FmWaits(s)
    BY <1>2, <1>3, <1>5, ReadySnapOut
  <1>7. CASE o = hal.mOutput /\ t \in hal.out[o].snap
    <2>1. SetModeScanIn(t, m, o, s)
      BY <1>1, <1>7
    <2> QED
      BY <1>1, <1>3, <1>4, <1>6, <2>1, SetModeScanInSafe
  <1>8. CASE ~(o = hal.mOutput /\ t \in hal.out[o].snap) /\ Dies(t, o, hal)
    <2>1. Stuck(t, {}, s)
      BY <1>1, <1>8
    <2>2. AllPlaying(s)
      BY <1>6 DEF Ready, AllSettled, AllPlaying, Settled
    <2>3. {} \subseteq Mine(t)
      OBVIOUS
    <2> QED
      BY <1>1, <1>3, <1>6, <2>1, <2>2, <2>3, StuckSafe
  <1>9. CASE ~(o = hal.mOutput /\ t \in hal.out[o].snap) /\ ~Dies(t, o, hal)
    <2>1. SetModeScanOut(t, m, s)
      BY <1>1, <1>9
    <2> QED
      BY <1>1, <1>3, <1>6, <2>1, SetModeScanOutSafe
  <1> QED
    BY <1>7, <1>8, <1>9

LEMMA SetModeLockInSafe ==
  ASSUME Assumed, TypeOK, Safe, NEW t \in Threads, SetModeLockIn(t)
  PROVE  Safe'
  <1> DEFINE o == th[t].spOut
             i == th[t].spIn
             m == th[t].mode
             s == [hal EXCEPT !.in[i].snap = @ \ {t}]
  <1>1. /\ HwFree /\ th[t].pc = "setMode.in" /\ Free(i)
        /\ IF i \in ActiveInputs(hal) /\ t \in hal.in[i].snap
           THEN SetModeBody(t, m, o, i, s)
           ELSE IF Dies(t, i, hal) THEN Stuck(t, {o} \ {None}, s)
           ELSE SetModeScanIn(t, m, o, s)
    BY DEF SetModeLockIn
  <1>2. /\ hal \in HalState /\ Ready(t, hal, {}, UseOf(hal)) /\ FmWaits(hal)
        /\ th[t] \in ThreadState /\ HasPointers(th[t]) /\ Form(th[t])
    BY <1>1, ReadyAtRest
  <1>3. /\ i \in InStreams /\ o \in OutStreams \cup {None} /\ m \in AllModes
        /\ th[t].ret = "return" /\ Good(t, o) /\ Good(t, i)
    BY <1>1, <1>2, GoodPointer DEF HasPointers, Form, ThreadState
  <1>4. i \in Mine(t) /\ (o # None => o \in OutStreams \cap Mine(t))
    <2>1. Held(t) = {o} \ {None}
      BY <1>1 DEF Safe, LocksHeld, LocksOf
    <2> QED
      BY <1>1, <1>3, <2>1 DEF Held, Mine, Free, Locks, Streams
  <1>5. s \in {[hal EXCEPT !.in[i].snap = @ \cup {t}], [hal EXCEPT !.in[i].snap = @ \ {t}]}
    OBVIOUS
  <1> HIDE DEF s, o, i, m
  <1>6. Ready(t, s, {}, UseOf(s)) /\ FmWaits(s)
    BY <1>2, <1>3, <1>5, ReadySnapIn
  <1>7. CASE i \in ActiveInputs(hal) /\ t \in hal.in[i].snap
    <2>1. SetModeBody(t, m, o, i, s)
      BY <1>1, <1>7
    <2> QED
      BY <1>1, <1>3, <1>4, <1>6, <2>1, SetModeBodySafe
  <1>8. CASE ~(i \in ActiveInputs(hal) /\ t \in hal.in[i].snap) /\ Dies(t, i, hal)
    <2>1. Stuck(t, {o} \ {None}, s)
      BY <1>1, <1>8
    <2>2. AllPlaying(s)
      BY <1>6 DEF Ready, AllSettled, AllPlaying, Settled
    <2>3. {o} \ {None} \subseteq Mine(t)
      BY <1>4
    <2> QED
      BY <1>1, <1>3, <1>6, <2>1, <2>2, <2>3, StuckSafe
  <1>9. CASE ~(i \in ActiveInputs(hal) /\ t \in hal.in[i].snap) /\ ~Dies(t, i, hal)
    <2>1. SetModeScanIn(t, m, o, s)
      BY <1>1, <1>9
    <2> QED
      BY <1>1, <1>3, <1>4, <1>6, <2>1, SetModeScanInSafe
  <1> QED
    BY <1>7, <1>8, <1>9

LEMMA SetModeSafe ==
  ASSUME Assumed, TypeOK, Safe, NEW t \in Threads, NEW m \in Modes, SetMode(t, m)
  PROVE  Safe'
  <1>1. th[t].pc = "idle" /\ HwFree /\ SetModeScanOut(t, m, hal)
    BY DEF SetMode, Calling
  <1>2. Ready(t, hal, {}, UseOf(hal)) /\ FmWaits(hal) /\ m \in AllModes
    BY <1>1, ReadyAtRest, HalAssumption
  <1> QED
    BY <1>1, <1>2, SetModeScanOutSafe

-----------------------------------------------------------------------------
LEMMA SafeInit ==
  ASSUME Init
  PROVE  Safe
  <1>1. /\ hal.mOutput = None /\ hal.mInputs = {}
        /\ hal.mPcm = FALSE /\ hal.mPcmOpenCnt = 0
        /\ hal.mMixer = FALSE /\ hal.mMixerOpenCnt = 0
        /\ hal.mInCallAudioMode = FALSE
        /\ hal.mFmFd = FALSE /\ hal.mFmResumeAfterCall = FALSE
        /\ \A o \in OutStreams : hal.out[o] = NoOut
        /\ \A i \in InStreams : hal.in[i] = NoIn
    BY DEF Init
  <1>2. Uses(hal, UseOf(hal))
    <2>1. Outs(hal) = {} /\ OutMixers(hal) = {} /\ InMixers(hal) = {}
      BY <1>1 DEF Outs, OutMixers, InMixers, NoOut, NoIn
    <2>2. Cardinality({}) = 0
      BY FS_EmptySet
    <2>3. UseOf(hal) = 0
      BY <1>1 DEF UseOf, FmPart
    <2> QED
      BY <1>1, <2>1, <2>2, <2>3 DEF Uses, Handles, PcmCount, MixerCount
  <1>3. AllSettled(hal, {}) /\ OneCapture(hal) /\ NoEchoRefs(hal)
    BY <1>1 DEF AllSettled, Settled, Playing, Off, OneCapture, NoEchoRefs, NoOut, NoIn
  <1>4. AllPlaying(hal)
    BY <1>3 DEF AllSettled, AllPlaying, Settled
  <1>5. MembersAlive(hal) /\ FmKnown(hal) /\ FmWaits(hal)
    BY <1>1, HalAssumption DEF MembersAlive, Member, FmKnown, FmWaits, Streams
  <1>6. HalSafe(hal)
    BY <1>2, <1>3, <1>4, <1>5 DEF HalSafe
  <1>7. \A t \in Threads : th[t] = Idle
    BY DEF Init
  <1>8. PointersOf(Idle) = {} /\ Idle.pc = "idle" /\ Idle.ret = "return"
        /\ Idle.obj = None
    BY DEF PointersOf, Idle
  <1>9. LocksHeld
    <2>1. \A t \in Threads : Held(t) = {}
      BY HalAssumption DEF Held, Init
    <2> QED
      BY <1>7, <1>8, <2>1 DEF LocksHeld, LocksOf
  <1>10. \A t \in Threads : Form(th[t]) /\ Fits(th[t], hal)
    BY <1>7, <1>8 DEF Form, Fits, Linked
  <1>11. \A t, u \in Threads : t # u => Apart(th[t], th[u])
    BY <1>7, <1>8 DEF Apart, Readers
  <1> QED
    BY <1>3, <1>6, <1>9, <1>10, <1>11 DEF Safe

LEMMA OutCallsSafe ==
  ASSUME TypeOK, Safe, NEW t \in Threads, OutCalls(t)
  PROVE  Safe'
  <1>1. ASSUME NEW d \in OutDevices, OpenOutputStream(t, d) PROVE Safe'
    BY <1>1, OpenOutputSafe
  <1>2. ASSUME NEW d \in OutDevices, OutSetParameters(t, d) PROVE Safe'
    BY <1>2, OutSetParametersSafe
  <1>3. CASE CloseOutputStream(t)
    BY <1>3, CloseOutputSafe
  <1>4. CASE OutStandby(t)
    BY <1>4, OutStandbySafe
  <1>5. CASE WriteActive(t)
    BY <1>5, WriteActiveSafe
  <1>6. CASE WriteExitStandby(t)
    BY <1>6, WriteExitStandbySafe
  <1> QED
    BY <1>1, <1>2, <1>3, <1>4, <1>5, <1>6 DEF OutCalls

LEMMA InCallsSafe ==
  ASSUME NoEcho, TypeOK, Safe, NEW t \in Threads, InCalls(t)
  PROVE  Safe'
  <1>1. ASSUME NEW d \in InDevices, OpenInputStream(t, d) PROVE Safe'
    BY <1>1, OpenInputSafe
  <1>2. ASSUME NEW d \in InDevices, NEW i \in InStreams, InSetParameters(t, i, d)
        PROVE  Safe'
    BY <1>2, InSetParametersSafe
  <1>3. ASSUME NEW i \in InStreams, CloseInputStream(t, i) PROVE Safe'
    BY <1>3, CloseInputSafe
  <1>4. ASSUME NEW i \in InStreams, InStandby(t, i) PROVE Safe'
    BY <1>4, InStandbySafe
  <1>5. ASSUME NEW i \in InStreams, InSetSource(t, i) PROVE Safe'
    BY <1>5, InSetSourceSafe
  <1>6. ASSUME NEW i \in InStreams, AddAudioEffect(t, i) \/ RemoveAudioEffect(t, i)
        PROVE  Safe'
    BY <1>6, NoEffects
  <1>7. ASSUME NEW i \in InStreams, ReadActive(t, i) PROVE Safe'
    BY <1>7, ReadActiveSafe
  <1>8. ASSUME NEW i \in InStreams, ReadExitStandby(t, i) PROVE Safe'
    BY <1>8, ReadExitStandbySafe
  <1> QED
    BY <1>1, <1>2, <1>3, <1>4, <1>5, <1>6, <1>7, <1>8 DEF InCalls

LEMMA HwCallsSafe ==
  ASSUME Assumed, TypeOK, Safe, NEW t \in Threads, HwCalls(t)
  PROVE  Safe'
  <1>1. ASSUME NEW m \in Modes, SetMode(t, m) PROVE Safe'
    BY <1>1, SetModeSafe
  <1>2. CASE SetMicMute(t)
    BY <1>2, SetMicMuteSafe
  <1>3. CASE EnableFMRadio(t)
    BY <1>3, EnableFMSafe
  <1>4. CASE DisableFMRadio(t)
    BY <1>4, DisableFMSafe
  <1> QED
    BY <1>1, <1>2, <1>3, <1>4 DEF HwCalls

LEMMA AdvanceSafe ==
  ASSUME Assumed, TypeOK, Safe, NEW t \in Threads, Advance(t)
  PROVE  Safe'
  <1>1. CASE WriteLockIn(t)
    BY <1>1, WriteLockInSafe
  <1>2. CASE OutStandbyLock(t)
    BY <1>2, OutStandbyLockSafe
  <1>3. CASE ReadLockOut(t)
    BY <1>3, ReadLockOutSafe
  <1>4. CASE ReadLockIn(t)
    BY <1>4, ReadLockInSafe
  <1>5. CASE InStandbyLock(t)
    BY <1>5, InStandbyLockSafe
  <1>6. CASE EchoLockOut(t) \/ EchoLockIn(t)
    <2>1. th[t].pc \notin {"echo.out", "echo.in"}
      BY DEF Safe, Form
    <2> QED
      BY <1>6, <2>1 DEF EchoLockOut, EchoLockIn
  <1>7. CASE SetModeLockOut(t)
    BY <1>7, SetModeLockOutSafe
  <1>8. CASE SetModeLockIn(t)
    BY <1>8, SetModeLockInSafe
  <1>9. ASSUME NEW ok \in BOOLEAN, WriteDone(t, ok) \/ ReadDone(t, ok) PROVE Safe'
    BY <1>9, IoDoneSafe
  <1> QED
    BY <1>1, <1>2, <1>3, <1>4, <1>5, <1>6, <1>7, <1>8, <1>9 DEF Advance

LEMMA SafeNext ==
  ASSUME Assumed, TypeOK, Safe, [Next]_vars
  PROVE  Safe'
  <1>1. ASSUME NEW t \in Threads, OutCalls(t) PROVE Safe'
    BY <1>1, OutCallsSafe
  <1>2. ASSUME NEW t \in Threads, InCalls(t) PROVE Safe'
    BY <1>2, InCallsSafe DEF Assumed
  <1>3. ASSUME NEW t \in Threads, HwCalls(t) PROVE Safe'
    BY <1>3, HwCallsSafe
  <1>4. ASSUME NEW t \in Threads, Advance(t) PROVE Safe'
    BY <1>4, AdvanceSafe
  <1>5. CASE UNCHANGED vars
    BY <1>5 DEF vars, Safe, HwFree, Free, LocksHeld, Held
  <1> QED
    BY <1>1, <1>2, <1>3, <1>4, <1>5 DEF Next

-----------------------------------------------------------------------------
(* The invariant holds in every state, and with it the properties.           *)
LEMMA SafeAlways == ASSUME Assumed PROVE Spec => []Safe
  <1>1. TypeOK /\ Safe /\ [Next]_vars => Safe'
    BY SafeNext
  <1> QED
    BY SafeInit, TypeCorrect, <1>1, PTL DEF Spec

(* A stream out of standby keeps a use of the pcm it plays on.               *)
LEMMA PlayingCounted ==
  ASSUME TypeOK, Safe, NEW o \in OutStreams, ~hal.out[o].mStandby
  PROVE  hal.out[o].mPcm /\ hal.mPcm
  <1>1. hal.out[o].mPcm
    BY DEF Safe, HalSafe, AllPlaying, Playing
  <1>2. o \in Outs(hal) /\ IsFiniteSet(Outs(hal))
    BY <1>1, FiniteStreams DEF Outs
  <1>3. Cardinality(Outs(hal)) # 0 /\ Cardinality(Outs(hal)) \in Nat
    BY <1>2, FS_EmptySet, FS_CardinalityType
  <1>4. UseOf(hal) \in Nat
    BY DEF UseOf, FmPart
  <1>5. hal.mPcmOpenCnt > 0
    BY <1>3, <1>4 DEF Safe, HalSafe, Uses, PcmCount
  <1>6. hal.mPcm
    BY <1>5 DEF Safe, HalSafe, Uses, Handles
  <1> QED
    BY <1>1, <1>6

(* For any streams, threads and refusals of the drivers, where no echo is    *)
(* cancelled and a call and FM get the devices they ask for: pcm_write and   *)
(* pcm_read, which run under the stream's mutex alone, have their device     *)
(* open from their first step to their last, whoever reopens, closes or      *)
(* switches the call route meanwhile.                                        *)
THEOREM IoKeepsDevice == ASSUME Assumed PROVE Spec => []IoOnOpenDevice
  <1>1. TypeOK /\ Safe => IoOnOpenDevice
    <2> SUFFICES ASSUME TypeOK, Safe, NEW t \in Threads
                 PROVE  /\ th[t].pc = "write.io" =>
                             /\ hal.out[th[t].obj].mPcm /\ hal.mPcm
                             /\ ~hal.out[th[t].obj].mStandby
                             /\ own[th[t].obj] = t
                        /\ th[t].pc = "read.io" =>
                             /\ hal.in[th[t].obj].mPcm
                             /\ ~hal.in[th[t].obj].mStandby
                             /\ own[th[t].obj] = t
      BY DEF IoOnOpenDevice
    <2>1. HasPointers(th[t]) /\ Fits(th[t], hal)
      BY DEF TypeOK, Safe
    <2>2. th[t].pc \in {"write.io", "read.io"} => own[th[t].obj] = t
      <3>1. th[t].pc \in {"write.io", "read.io"} => Held(t) = {th[t].obj}
        BY DEF Safe, LocksHeld, LocksOf
      <3> QED
        BY <3>1 DEF Held
    <2>3. CASE th[t].pc = "write.io"
      <3>1. th[t].obj \in OutStreams
        BY <2>1, <2>3 DEF HasPointers
      <3>2. ~hal.out[th[t].obj].mStandby
        BY <2>1, <2>3 DEF Fits
      <3> QED
        BY <2>2, <2>3, <3>1, <3>2, PlayingCounted
    <2>4. CASE th[t].pc = "read.io"
      <3>1. th[t].obj \in InStreams
        BY <2>1, <2>4 DEF HasPointers
      <3>2. ~hal.in[th[t].obj].mStandby
        BY <2>1, <2>4 DEF Fits
      <3>3. hal.in[th[t].obj].mPcm
        BY <3>1, <3>2 DEF Safe, HalSafe, AllPlaying, Playing
      <3> QED
        BY <2>2, <2>4, <3>2, <3>3
    <2> QED
      BY <2>3, <2>4
  <1> QED
    BY <1>1, SafeAlways, TypeCorrect, PTL

(* Under the same assumptions the use counts of the playback pcm and the     *)
(* mixer are, in every state, the streams that use them plus one for the     *)
(* call and one for FM, and the handles are open if and only if the counts   *)
(* are not zero: no reopening, failed opening, standby, change of mode or    *)
(* destructor loses a use or gives one back twice.                           *)
THEOREM UsesBalance == ASSUME Assumed PROVE Spec => []DevicesBalanced
  <1>1. TypeOK /\ Safe => DevicesBalanced
    <2> SUFFICES ASSUME TypeOK, Safe PROVE DevicesBalanced
      OBVIOUS
    <2>1. CallUse = IF hal.mInCallAudioMode THEN 1 ELSE 0
      BY DEF CallUse, Safe, Form
    <2>2. FmUse = FmPart(hal)
      BY DEF FmUse, FmPart
    <2>3. /\ CallUse \in Nat /\ FmUse \in Nat /\ Cardinality(Outs(hal)) \in Nat
          /\ Cardinality(OutMixers(hal)) \in Nat /\ Cardinality(InMixers(hal)) \in Nat
      BY FiniteStreams DEF CallUse, FmUse
    <2>4. UseOf(hal) = CallUse + FmUse
      BY <2>1, <2>2 DEF UseOf
    <2>5. /\ hal.mPcmOpenCnt = Cardinality(Outs(hal)) + (CallUse + FmUse)
          /\ hal.mMixerOpenCnt = Cardinality(OutMixers(hal)) + Cardinality(InMixers(hal))
                                   + (CallUse + FmUse)
      BY <2>4 DEF Safe, HalSafe, Uses, PcmCount, MixerCount
    <2>6. hal.mPcm \in BOOLEAN /\ hal.mMixer \in BOOLEAN
      BY DEF TypeOK, HalState
    <2>7. hal.mPcm = (hal.mPcmOpenCnt > 0) /\ hal.mMixer = (hal.mMixerOpenCnt > 0)
      BY <2>6 DEF Safe, HalSafe, Uses, Handles
    <2>8. PlayingOuts = Outs(hal)
      BY DEF PlayingOuts, Outs
    <2>9. hal.mPcmOpenCnt = Cardinality(Outs(hal)) + CallUse + FmUse
      BY <2>3, <2>5
    <2>10. hal.mMixerOpenCnt = Cardinality(OutMixers(hal)) + Cardinality(InMixers(hal))
                                 + CallUse + FmUse
      BY <2>3, <2>5
    <2>11. PcmBalanced
      BY <2>7, <2>8, <2>9 DEF PcmBalanced
    <2>12. MixerBalanced
      BY <2>7, <2>10 DEF MixerBalanced, OutMixers, InMixers
    <2> QED
      BY <2>11, <2>12 DEF DevicesBalanced
  <1> QED
    BY <1>1, SafeAlways, TypeCorrect, PTL

(* Under the same assumptions at most one capture stream is out of standby,  *)
(* which getActiveInput_l relies on when it returns the first it finds.      *)
THEOREM OneInputCaptures == ASSUME Assumed PROVE Spec => []OneActiveInput
  <1>1. TypeOK /\ Safe => OneActiveInput
    <2> SUFFICES ASSUME TypeOK, Safe PROVE Cardinality(ActiveInputs(hal)) <= 1
      BY DEF OneActiveInput
    <2>1. \A i \in ActiveInputs(hal) : i \in InStreams /\ hal.in[i].mPcm
      BY DEF ActiveInputs, Safe, HalSafe, AllPlaying, Playing, TypeOK, HalState
    <2>2. \A i, j \in ActiveInputs(hal) : i = j
      BY <2>1 DEF Safe, HalSafe, OneCapture
    <2>3. CASE ActiveInputs(hal) = {}
      BY <2>3, FS_EmptySet
    <2>4. ASSUME NEW i \in ActiveInputs(hal) PROVE Cardinality(ActiveInputs(hal)) <= 1
      <3>1. ActiveInputs(hal) = {i}
        BY <2>2, <2>4
      <3>2. Cardinality({i}) = 1
        BY FS_Singleton
      <3> QED
        BY <3>1, <3>2
    <2> QED
      BY <2>3, <2>4
  <1> QED
    BY <1>1, SafeAlways, TypeCorrect, PTL

-----------------------------------------------------------------------------
(* The order of the mutexes, and the switch of the call route.  From s to a  *)
(* no stream comes or goes in the object, no echo reference appears, and the *)
(* call route stays as it is.                                                *)
Echoless(s) == NoEchoRefs(s) /\ s.mEchoReference = None

Still(s, a) ==
  /\ a \in HalState
  /\ a.mOutput = s.mOutput /\ a.mInputs = s.mInputs
  /\ Echoless(s) => Echoless(a)

SameSwitch(s, a) == a.mInCallAudioMode <=> s.mInCallAudioMode

Keeps(s, a) == Still(s, a) /\ SameSwitch(s, a)

LEMMA KeepsTrans ==
  ASSUME NEW s, NEW a, NEW b, Keeps(s, a), Keeps(a, b)
  PROVE  Keeps(s, b)
  BY DEF Keeps, Still, SameSwitch

LEMMA StillTrans ==
  ASSUME NEW s, NEW a, NEW b, Still(s, a), Still(a, b)
  PROVE  Still(s, b)
  BY DEF Still

LEMMA KeepsSame ==
  ASSUME NEW s \in HalState
  PROVE  Keeps(s, s)
  BY DEF Keeps, Still, SameSwitch

(* Assignments to the fields of the object.                                  *)
Alike(s, a) ==
  /\ a.in = s.in /\ a.mOutput = s.mOutput /\ a.mInputs = s.mInputs
  /\ a.mEchoReference = s.mEchoReference

LEMMA AlikeKeeps ==
  ASSUME NEW s \in HalState, NEW a \in HalState, Alike(s, a)
  PROVE  Still(s, a) /\ (SameSwitch(s, a) => Keeps(s, a))
  BY DEF Alike, Still, Echoless, NoEchoRefs, Keeps

LEMMA AlikeFields ==
  ASSUME NEW s \in HalState, NEW b, NEW n
  PROVE  /\ Alike(s, [s EXCEPT !.mFmFd = b]) /\ SameSwitch(s, [s EXCEPT !.mFmFd = b])
         /\ Alike(s, [s EXCEPT !.mFmResumeAfterCall = b])
         /\ SameSwitch(s, [s EXCEPT !.mFmResumeAfterCall = b])
         /\ Alike(s, [s EXCEPT !.wakeLock = b]) /\ SameSwitch(s, [s EXCEPT !.wakeLock = b])
         /\ Alike(s, [s EXCEPT !.mMicMute = b]) /\ SameSwitch(s, [s EXCEPT !.mMicMute = b])
         /\ Alike(s, [s EXCEPT !.mInCallAudioMode = b])
         /\ Alike(s, [s EXCEPT !.playbackPath = b])
         /\ SameSwitch(s, [s EXCEPT !.playbackPath = b])
         /\ Alike(s, [s EXCEPT !.memoPath = b]) /\ SameSwitch(s, [s EXCEPT !.memoPath = b])
         /\ Alike(s, SetMixer(s, n, b)) /\ SameSwitch(s, SetMixer(s, n, b))
         /\ Alike(s, SetPcm(s, n, b)) /\ SameSwitch(s, SetPcm(s, n, b))
         /\ \A o : Alike(s, SetOut(s, o, b)) /\ SameSwitch(s, SetOut(s, o, b))
  <1>1. Alike(s, [s EXCEPT !.mFmFd = b]) /\ SameSwitch(s, [s EXCEPT !.mFmFd = b])
    BY DEF HalState, Alike, SameSwitch
  <1>2. Alike(s, [s EXCEPT !.mFmResumeAfterCall = b]) /\ SameSwitch(s, [s EXCEPT !.mFmResumeAfterCall = b])
    BY DEF HalState, Alike, SameSwitch
  <1>3. Alike(s, [s EXCEPT !.wakeLock = b]) /\ SameSwitch(s, [s EXCEPT !.wakeLock = b])
    BY DEF HalState, Alike, SameSwitch
  <1>4. Alike(s, [s EXCEPT !.mMicMute = b]) /\ SameSwitch(s, [s EXCEPT !.mMicMute = b])
    BY DEF HalState, Alike, SameSwitch
  <1>5. Alike(s, [s EXCEPT !.playbackPath = b]) /\ SameSwitch(s, [s EXCEPT !.playbackPath = b])
    BY DEF HalState, Alike, SameSwitch
  <1>6. Alike(s, [s EXCEPT !.memoPath = b]) /\ SameSwitch(s, [s EXCEPT !.memoPath = b])
    BY DEF HalState, Alike, SameSwitch
  <1>7. Alike(s, SetMixer(s, n, b)) /\ SameSwitch(s, SetMixer(s, n, b))
    BY DEF HalState, Alike, SameSwitch, SetMixer
  <1>8. Alike(s, SetPcm(s, n, b)) /\ SameSwitch(s, SetPcm(s, n, b))
    BY DEF HalState, Alike, SameSwitch, SetPcm
  <1>9. Alike(s, [s EXCEPT !.mInCallAudioMode = b])
    BY DEF HalState, Alike
  <1>10. ASSUME NEW o PROVE Alike(s, SetOut(s, o, b)) /\ SameSwitch(s, SetOut(s, o, b))
    BY DEF HalState, Alike, SameSwitch, SetOut
  <1> QED
    BY <1>1, <1>2, <1>3, <1>4, <1>5, <1>6, <1>7, <1>8, <1>9, <1>10

LEMMA FieldKeeps ==
  ASSUME NEW s \in HalState, NEW b \in BOOLEAN
  PROVE  /\ Keeps(s, [s EXCEPT !.mFmFd = b])
         /\ Keeps(s, [s EXCEPT !.mFmResumeAfterCall = b])
         /\ Keeps(s, [s EXCEPT !.wakeLock = b])
         /\ Keeps(s, [s EXCEPT !.mMicMute = b])
         /\ Still(s, [s EXCEPT !.mInCallAudioMode = b])
         /\ \A p \in {"RCV", "SPK", "HP", "BT", "off"} :
              Keeps(s, [s EXCEPT !.playbackPath = p])
         /\ \A p \in {"MAIN", "HP", "BT", "off"} : Keeps(s, [s EXCEPT !.memoPath = p])
  <1>1. Keeps(s, [s EXCEPT !.mFmFd = b])
    BY HalAssign, AlikeFields, AlikeKeeps
  <1>2. Keeps(s, [s EXCEPT !.mFmResumeAfterCall = b])
    BY HalAssign, AlikeFields, AlikeKeeps
  <1>3. Keeps(s, [s EXCEPT !.wakeLock = b])
    BY HalAssign, AlikeFields, AlikeKeeps
  <1>4. Keeps(s, [s EXCEPT !.mMicMute = b])
    BY HalAssign, AlikeFields, AlikeKeeps
  <1>5. Still(s, [s EXCEPT !.mInCallAudioMode = b])
    BY HalAssign, AlikeFields, AlikeKeeps
  <1>6. ASSUME NEW p \in {"RCV", "SPK", "HP", "BT", "off"}
        PROVE  Keeps(s, [s EXCEPT !.playbackPath = p])
    BY HalAssign, AlikeFields, AlikeKeeps
  <1>7. ASSUME NEW p \in {"MAIN", "HP", "BT", "off"}
        PROVE  Keeps(s, [s EXCEPT !.memoPath = p])
    BY HalAssign, AlikeFields, AlikeKeeps
  <1> QED
    BY <1>1, <1>2, <1>3, <1>4, <1>5, <1>6, <1>7

LEMMA SetKeeps ==
  ASSUME NEW s \in HalState, NEW n \in Nat, NEW b \in BOOLEAN
  PROVE  Keeps(s, SetMixer(s, n, b)) /\ Keeps(s, SetPcm(s, n, b))
  BY SetMixerType, SetPcmType, AlikeFields, AlikeKeeps

LEMMA SetOutKeeps ==
  ASSUME NEW s \in HalState, NEW o \in OutStreams, NEW q \in OutState
  PROVE  Keeps(s, SetOut(s, o, q))
  BY SetOutType, AlikeFields, AlikeKeeps

LEMMA SetInKeeps ==
  ASSUME NEW s \in HalState, NEW i \in InStreams, NEW q \in InState,
         q.mNeedEchoReference = s.in[i].mNeedEchoReference \/ q.mNeedEchoReference = FALSE,
         q.mEchoReference \in {s.in[i].mEchoReference, None}
  PROVE  Keeps(s, SetIn(s, i, q))
  <1> DEFINE a == SetIn(s, i, q)
  <1>1. /\ a.mOutput = s.mOutput /\ a.mInputs = s.mInputs
        /\ a.mEchoReference = s.mEchoReference
    BY DEF HalState, SetIn
  <1>2. SameSwitch(s, a) /\ a \in HalState
    BY SetInType DEF HalState, SetIn, SameSwitch
  <1>3. \A j \in InStreams : a.in[j] = IF j = i THEN q ELSE s.in[j]
    BY DEF HalState, SetIn
  <1> HIDE DEF a
  <1>4. NoEchoRefs(s) => NoEchoRefs(a)
    BY <1>3 DEF NoEchoRefs
  <1>5. Still(s, a)
    BY <1>1, <1>2, <1>4 DEF Still, Echoless
  <1>6. Keeps(s, a)
    BY <1>2, <1>5 DEF Keeps
  <1> QED
    BY <1>6 DEF a

(* openMixer_l to closePcmOut_l.                                             *)
LEMMA DevicesKeep ==
  ASSUME NEW s \in HalState, NEW ok \in BOOLEAN
  PROVE  /\ Keeps(s, OpenMixer(s, ok)) /\ Keeps(s, CloseMixer(s))
         /\ Keeps(s, SetIdleMode(s))
         /\ Keeps(s, OpenPcmOut(s, ok)) /\ Keeps(s, ClosePcmOut(s))
  <1>1. ASSUME NEW a \in HalState, NEW b \in BOOLEAN PROVE Keeps(a, OpenMixer(a, b))
    BY <1>1, SetKeeps, KeepsSame, HandleType, HalFields DEF OpenMixer
  <1>2. ASSUME NEW a \in HalState PROVE Keeps(a, CloseMixer(a))
    <2>1. (a.mMixer /\ a.mMixerOpenCnt # 1) \in BOOLEAN
      OBVIOUS
    <2>2. a.mMixerOpenCnt # 0 => a.mMixerOpenCnt - 1 \in Nat
      BY HalFields
    <2> QED
      BY <2>1, <2>2, SetKeeps, KeepsSame DEF CloseMixer
  <1>3. ASSUME NEW a \in HalState PROVE Keeps(a, SetIdleMode(a))
    <2>1. OpenMixer(a, TRUE) \in HalState
      BY OpenMixerType
    <2> QED
      BY <1>1, <1>2, <2>1, KeepsSame, KeepsTrans DEF SetIdleMode
  <1>4. Keeps(s, OpenPcmOut(s, ok))
    BY SetKeeps, KeepsSame, HandleType, HalFields DEF OpenPcmOut
  <1>5. Keeps(s, ClosePcmOut(s))
    <2>1. (s.mPcm /\ s.mPcmOpenCnt # 1) \in BOOLEAN
      OBVIOUS
    <2>2. CASE s.mPcmOpenCnt = 0
      BY <2>2, KeepsSame DEF ClosePcmOut
    <2>3. CASE s.mPcmOpenCnt # 0
      <3> DEFINE a == SetPcm(s, s.mPcmOpenCnt - 1, s.mPcm /\ s.mPcmOpenCnt # 1)
      <3>1. s.mPcmOpenCnt - 1 \in Nat
        BY <2>3, HalFields
      <3>2. a \in HalState /\ Keeps(s, a)
        BY <2>1, <3>1, SetKeeps, SetPcmType
      <3>3. ClosePcmOut(s) = SetIdleMode(a)
        BY <2>3 DEF ClosePcmOut
      <3> HIDE DEF a
      <3> QED
        BY <1>3, <3>2, <3>3, KeepsTrans
    <2> QED
      BY <2>2, <2>3
  <1> QED
    BY <1>1, <1>2, <1>3, <1>4, <1>5

(* The functions of a playback stream.                                       *)
LEMMA OutCloseKeeps ==
  ASSUME NEW s \in HalState, NEW o \in OutStreams
  PROVE  Keeps(s, OutClose(s, o))
  <1>1. ASSUME NEW a \in HalState
        PROVE  OutCloseMixer(a, o) \in HalState /\ Keeps(a, OutCloseMixer(a, o))
    <2>1. CloseMixer(a) \in HalState /\ Keeps(a, CloseMixer(a))
      BY CloseMixerType, DevicesKeep
    <2>2. [a.out[o] EXCEPT !.mMixer = FALSE] \in OutState
      BY OutAssign, HalFields
    <2> QED
      BY <2>1, <2>2, SetOutType, SetOutKeeps, KeepsTrans, KeepsSame DEF OutCloseMixer
  <1>2. ASSUME NEW a \in HalState PROVE Keeps(a, OutClosePcm(a, o))
    <2>1. ClosePcmOut(a) \in HalState /\ Keeps(a, ClosePcmOut(a))
      BY ClosePcmOutType, DevicesKeep
    <2>2. [a.out[o] EXCEPT !.mPcm = FALSE] \in OutState
      BY OutAssign, HalFields
    <2> QED
      BY <2>1, <2>2, SetOutKeeps, KeepsTrans, KeepsSame DEF OutClosePcm
  <1> QED
    BY <1>1, <1>2, KeepsTrans DEF OutClose

LEMMA OutOpenKeeps ==
  ASSUME NEW s \in HalState, NEW o \in OutStreams,
         NEW okPcm \in BOOLEAN, NEW okMixer \in BOOLEAN
  PROVE  Keeps(s, OutOpen(s, o, okPcm, okMixer))
  <1>1. ASSUME NEW a \in HalState PROVE Keeps(a, OutRouted(a, o))
    BY <1>1, FieldKeeps, RouteType, KeepsSame DEF OutRouted
  <1>2. ASSUME NEW a \in HalState PROVE Keeps(a, OutOpenMixer(a, o, okMixer))
    <2> DEFINE q == [a.out[o] EXCEPT !.mMixer = MixerHandle(a, okMixer)]
               b == SetOut(OpenMixer(a, okMixer), o, q)
    <2>1. OpenMixer(a, okMixer) \in HalState /\ Keeps(a, OpenMixer(a, okMixer))
      BY OpenMixerType, DevicesKeep
    <2>2. q \in OutState
      BY OutAssign, HalFields, HandleType
    <2> HIDE DEF q
    <2>3. b \in HalState /\ Keeps(a, b)
      BY <2>1, <2>2, SetOutType, SetOutKeeps, KeepsTrans
    <2>4. OutOpenMixer(a, o, okMixer) = OutRouted(b, o)
      BY DEF OutOpenMixer, q
    <2> HIDE DEF b
    <2> QED
      BY <1>1, <2>3, <2>4, KeepsTrans
  <1>3. OpenPcmOut(s, okPcm) \in HalState /\ Keeps(s, OpenPcmOut(s, okPcm))
    BY OpenPcmOutType, DevicesKeep
  <1> DEFINE c == SetOut(OpenPcmOut(s, okPcm), o, [s.out[o] EXCEPT !.mPcm = TRUE])
  <1>4. c \in HalState /\ Keeps(s, c)
    <2>1. [s.out[o] EXCEPT !.mPcm = TRUE] \in OutState
      BY OutAssign, HalFields
    <2> QED
      BY <1>3, <2>1, SetOutType, SetOutKeeps, KeepsTrans
  <1>5. OutOpen(s, o, okPcm, okMixer) \in {OutOpenMixer(c, o, okMixer), OpenPcmOut(s, okPcm)}
    BY DEF OutOpen
  <1> HIDE DEF c
  <1> QED
    BY <1>2, <1>3, <1>4, <1>5, KeepsTrans

LEMMA OutDoStandbyKeeps ==
  ASSUME NEW s \in HalState, NEW o \in OutStreams
  PROVE  Keeps(s, OutDoStandby(s, o))
  <1> DEFINE a == [s EXCEPT !.wakeLock = @ /\ s.out[o].mStandby]
             q == [s.out[o] EXCEPT !.mStandby = TRUE, !.snap = {}]
             b == SetOut(a, o, q)
  <1>1. a \in HalState /\ Keeps(s, a)
    <2>1. (s.wakeLock /\ s.out[o].mStandby) \in BOOLEAN
      OBVIOUS
    <2> QED
      BY <2>1, HalAssign, FieldKeeps
  <1>2. q \in OutState
    BY OutAssign, HalFields
  <1> HIDE DEF a, q
  <1>3. b \in HalState /\ Keeps(s, b)
    BY <1>1, <1>2, SetOutType, SetOutKeeps, KeepsTrans
  <1>4. OutDoStandby(s, o) = OutClose(b, o)
    BY DEF OutDoStandby, a, q
  <1> HIDE DEF b
  <1> QED
    BY <1>3, <1>4, OutCloseKeeps, KeepsTrans

(* The functions of a capture stream, FM, and a destructor.                  *)
LEMMA InFields ==
  ASSUME NEW q \in InState, NEW b, NEW c, NEW e
  PROVE  /\ [q EXCEPT !.mMixer = b].mNeedEchoReference = q.mNeedEchoReference
         /\ [q EXCEPT !.mMixer = b].mEchoReference = q.mEchoReference
         /\ [q EXCEPT !.mPcm = b].mNeedEchoReference = q.mNeedEchoReference
         /\ [q EXCEPT !.mPcm = b].mEchoReference = q.mEchoReference
         /\ [q EXCEPT !.mPcm = b, !.mMixer = c].mNeedEchoReference = q.mNeedEchoReference
         /\ [q EXCEPT !.mPcm = b, !.mMixer = c].mEchoReference = q.mEchoReference
         /\ [q EXCEPT !.mStandby = b, !.snap = c, !.mEchoReference = e].mNeedEchoReference
              = q.mNeedEchoReference
         /\ [q EXCEPT !.mStandby = b, !.snap = c, !.mEchoReference = e].mEchoReference = e
  BY DEF InState

LEMMA SameIn ==
  ASSUME NEW s \in HalState, NEW ok
  PROVE  OpenMixer(s, ok).in = s.in /\ CloseMixer(s).in = s.in
  <1>1. \A n, b : SetMixer(s, n, b).in = s.in
    BY DEF SetMixer, HalState
  <1> QED
    BY <1>1 DEF OpenMixer, CloseMixer

LEMMA InCloseKeeps ==
  ASSUME NEW s \in HalState, NEW i \in InStreams
  PROVE  Keeps(s, InClose(s, i))
  <1> DEFINE a == InCloseMixer(s, i)
             b == InClosePcm(a, i)
  <1>1. a \in HalState /\ Keeps(s, a)
    <2> DEFINE q == [s.in[i] EXCEPT !.mMixer = FALSE]
    <2>1. /\ CloseMixer(s) \in HalState /\ Keeps(s, CloseMixer(s))
          /\ CloseMixer(s).in = s.in
      BY CloseMixerType, DevicesKeep, SameIn
    <2>2. /\ q \in InState /\ q.mNeedEchoReference = s.in[i].mNeedEchoReference
          /\ q.mEchoReference = s.in[i].mEchoReference
      BY InAssign, InFields, HalFields
    <2> HIDE DEF q
    <2>3. SetIn(CloseMixer(s), i, q) \in HalState /\ Keeps(s, SetIn(CloseMixer(s), i, q))
      BY <2>1, <2>2, SetInType, SetInKeeps, KeepsTrans
    <2>4. a = IF s.in[i].mMixer THEN SetIn(CloseMixer(s), i, q) ELSE s
      BY DEF InCloseMixer, q
    <2> QED
      BY <2>3, <2>4, KeepsSame
  <1> HIDE DEF a
  <1>2. b \in HalState /\ Keeps(s, b)
    <2> DEFINE q == [a.in[i] EXCEPT !.mPcm = FALSE]
    <2>1. /\ q \in InState /\ q.mNeedEchoReference = a.in[i].mNeedEchoReference
          /\ q.mEchoReference = a.in[i].mEchoReference
      BY <1>1, InAssign, InFields, HalFields
    <2>2. b = SetIn(a, i, q)
      BY DEF InClosePcm
    <2> HIDE DEF b, q
    <2> QED
      BY <1>1, <2>1, <2>2, SetInType, SetInKeeps, KeepsTrans
  <1>3. InClose(s, i) = SetIdleMode(b)
    BY DEF InClose, a
  <1> HIDE DEF b
  <1> QED
    BY <1>2, <1>3, DevicesKeep, KeepsTrans

LEMMA InOpenKeeps ==
  ASSUME NEW s \in HalState, NEW i \in InStreams,
         NEW okPcm \in BOOLEAN, NEW okMixer \in BOOLEAN
  PROVE  Keeps(s, InOpen(s, i, okPcm, okMixer))
  <1>1. ASSUME NEW a \in HalState PROVE Keeps(a, InRouted(a, i))
    <2>1. InputRoute(a.mMicMute, a.in[i].mDevices) \in {"MAIN", "HP", "BT", "off"}
      BY RouteType, HalFields
    <2> QED
      BY <2>1, FieldKeeps, KeepsSame DEF InRouted
  <1> DEFINE q == [s.in[i] EXCEPT !.mPcm = TRUE, !.mMixer = MixerHandle(s, okMixer)]
             b == SetIn(OpenMixer(s, okMixer), i, q)
  <1>2. /\ OpenMixer(s, okMixer) \in HalState /\ Keeps(s, OpenMixer(s, okMixer))
        /\ OpenMixer(s, okMixer).in = s.in
    BY OpenMixerType, DevicesKeep, SameIn
  <1>3. /\ q \in InState /\ q.mNeedEchoReference = s.in[i].mNeedEchoReference
        /\ q.mEchoReference = s.in[i].mEchoReference
    <2>1. s.in[i] \in InState /\ MixerHandle(s, okMixer) \in BOOLEAN
      BY HandleType, HalFields
    <2>2. q \in InState
      BY <2>1, InAssign
    <2> QED
      BY <2>1, <2>2, InFields
  <1> HIDE DEF q
  <1>4. b \in HalState /\ Keeps(s, b)
    BY <1>2, <1>3, SetInType, SetInKeeps, KeepsTrans
  <1>5. InOpen(s, i, okPcm, okMixer) \in {InRouted(b, i), s}
    BY DEF InOpen, q
  <1> HIDE DEF b
  <1> QED
    BY <1>1, <1>4, <1>5, KeepsTrans, KeepsSame

LEMMA InDoStandbyKeeps ==
  ASSUME NEW s \in HalState, NEW i \in InStreams
  PROVE  Keeps(s, InDoStandby(s, i))
  <1> DEFINE e == IF s.in[i].mStandby THEN s.in[i].mEchoReference ELSE None
             q == [s.in[i] EXCEPT !.mStandby = TRUE, !.snap = {}, !.mEchoReference = e]
             b == SetIn(s, i, q)
  <1>1. e \in {s.in[i].mEchoReference, None} /\ e \in EchoRefs \cup {None}
    BY StreamFields
  <1> HIDE DEF e
  <1>2. /\ q \in InState /\ q.mNeedEchoReference = s.in[i].mNeedEchoReference
        /\ q.mEchoReference = e
    <2>1. s.in[i] \in InState
      BY HalFields
    <2>2. q \in InState
      BY <1>1, <2>1, InAssign
    <2> QED
      BY <2>1, <2>2, InFields
  <1>3. InDoStandby(s, i) = InClose(b, i)
    BY DEF InDoStandby, e
  <1> HIDE DEF q
  <1>4. b \in HalState /\ Keeps(s, b)
    BY <1>1, <1>2, SetInType, SetInKeeps
  <1> HIDE DEF b
  <1> QED
    BY <1>3, <1>4, InCloseKeeps, KeepsTrans

LEMMA EnableFmKeeps ==
  ASSUME NEW s \in HalState, NEW okPcm \in BOOLEAN, NEW okMixer \in BOOLEAN
  PROVE  Keeps(s, EnableFm(s, okPcm, okMixer))
  <1> DEFINE a == OpenPcmOut(s, okPcm)
             b == OpenMixer(a, okMixer)
             c == [b EXCEPT !.mFmFd = TRUE]
  <1>1. a \in HalState /\ Keeps(s, a)
    BY OpenPcmOutType, DevicesKeep
  <1> HIDE DEF a
  <1>2. b \in HalState /\ Keeps(s, b)
    BY <1>1, OpenMixerType, DevicesKeep, KeepsTrans
  <1> HIDE DEF b
  <1>3. c \in HalState /\ Keeps(s, c)
    BY <1>2, HalAssign, FieldKeeps, KeepsTrans
  <1>4. Keeps(c, FmRouted(c))
    BY <1>3, FieldKeeps, RouteType, KeepsSame DEF FmRouted
  <1>5. EnableFm(s, okPcm, okMixer) \in {[s EXCEPT !.mFmResumeAfterCall = TRUE], FmRouted(c)}
    BY DEF EnableFm, a, b
  <1>6. Keeps(s, FmRouted(c)) /\ Keeps(s, [s EXCEPT !.mFmResumeAfterCall = TRUE])
    <2> HIDE DEF c
    <2> QED BY <1>3, <1>4, FieldKeeps, KeepsTrans
  <1> HIDE DEF c
  <1> QED
    BY <1>5, <1>6

LEMMA DisableFmKeeps ==
  ASSUME NEW s \in HalState
  PROVE  Keeps(s, DisableFm(s))
  <1>1. CloseMixer(s) \in HalState /\ Keeps(s, CloseMixer(s))
    BY CloseMixerType, DevicesKeep
  <1> DEFINE a == IF s.mMixer THEN ClosePcmOut(CloseMixer(s)) ELSE s
  <1>2. a \in HalState /\ Keeps(s, a)
    BY <1>1, ClosePcmOutType, DevicesKeep, KeepsTrans, KeepsSame
  <1>3. DisableFm(s) = [a EXCEPT !.mFmFd = FALSE]
    BY DEF DisableFm
  <1> HIDE DEF a
  <1> QED
    BY <1>2, <1>3, FieldKeeps, KeepsTrans

LEMMA FreedKeeps ==
  ASSUME NEW s \in HalState, NEW x \in Streams
  PROVE  Keeps(s, Freed(s, x))
  <1>1. CASE x \in OutStreams
    BY <1>1, SetOutKeeps, NewStreamType DEF Freed, SetOut
  <1>2. CASE x \notin OutStreams
    <2>1. x \in InStreams
      BY <1>2 DEF Streams
    <2>2. NoIn.mNeedEchoReference = FALSE /\ NoIn.mEchoReference = None
      BY DEF NoIn
    <2>3. Freed(s, x) = SetIn(s, x, NoIn)
      BY <1>2 DEF Freed, SetIn
    <2> QED
      BY <2>1, <2>2, <2>3, SetInKeeps, NewStreamType
  <1> QED
    BY <1>1, <1>2

LEMMA StreamKeeps ==
  ASSUME NEW s \in HalState, NEW b \in BOOLEAN, NEW T \in SUBSET Threads
  PROVE  /\ \A o \in OutStreams :
              /\ Keeps(s, [s EXCEPT !.out[o].mStandby = b])
              /\ Keeps(s, [s EXCEPT !.out[o].snap = T])
              /\ \A d \in AllOutDevices : Keeps(s, [s EXCEPT !.out[o].mDevices = d])
         /\ \A i \in InStreams :
              /\ Keeps(s, [s EXCEPT !.in[i].mStandby = b])
              /\ Keeps(s, [s EXCEPT !.in[i].snap = T])
              /\ \A d \in AllInDevices : Keeps(s, [s EXCEPT !.in[i].mDevices = d])
  <1>1. ASSUME NEW o \in OutStreams
        PROVE  /\ Keeps(s, [s EXCEPT !.out[o].mStandby = b])
               /\ Keeps(s, [s EXCEPT !.out[o].snap = T])
               /\ \A d \in AllOutDevices : Keeps(s, [s EXCEPT !.out[o].mDevices = d])
    <2>0. s.out[o] \in OutState
      BY HalFields
    <2>1. Keeps(s, [s EXCEPT !.out[o].mStandby = b])
      <3> DEFINE q == [s.out[o] EXCEPT !.mStandby = b]
      <3>1. q \in OutState
        BY <2>0 DEF OutState
      <3>2. [s EXCEPT !.out[o].mStandby = b] = SetOut(s, o, q)
        BY DEF SetOut
      <3> HIDE DEF q
      <3> QED
        BY <3>1, <3>2, SetOutKeeps
    <2>2. Keeps(s, [s EXCEPT !.out[o].snap = T])
      <3> DEFINE q == [s.out[o] EXCEPT !.snap = T]
      <3>1. q \in OutState
        BY <2>0 DEF OutState
      <3>2. [s EXCEPT !.out[o].snap = T] = SetOut(s, o, q)
        BY DEF SetOut
      <3> HIDE DEF q
      <3> QED
        BY <3>1, <3>2, SetOutKeeps
    <2>3. ASSUME NEW d \in AllOutDevices PROVE Keeps(s, [s EXCEPT !.out[o].mDevices = d])
      <3> DEFINE q == [s.out[o] EXCEPT !.mDevices = d]
      <3>1. q \in OutState
        BY <2>0 DEF OutState
      <3>2. [s EXCEPT !.out[o].mDevices = d] = SetOut(s, o, q)
        BY DEF SetOut
      <3> HIDE DEF q
      <3> QED
        BY <3>1, <3>2, SetOutKeeps
    <2> QED
      BY <2>1, <2>2, <2>3
  <1>2. ASSUME NEW i \in InStreams
        PROVE  /\ Keeps(s, [s EXCEPT !.in[i].mStandby = b])
               /\ Keeps(s, [s EXCEPT !.in[i].snap = T])
               /\ \A d \in AllInDevices : Keeps(s, [s EXCEPT !.in[i].mDevices = d])
    <2>0. s.in[i] \in InState
      BY HalFields
    <2>1. Keeps(s, [s EXCEPT !.in[i].mStandby = b])
      <3> DEFINE q == [s.in[i] EXCEPT !.mStandby = b]
      <3>1. q \in InState
        BY <2>0, InAssign
      <3>2. /\ q.mNeedEchoReference = s.in[i].mNeedEchoReference
            /\ q.mEchoReference = s.in[i].mEchoReference
        BY <2>0 DEF InState
      <3>3. [s EXCEPT !.in[i].mStandby = b] = SetIn(s, i, q)
        BY DEF SetIn
      <3> HIDE DEF q
      <3> QED
        BY <3>1, <3>2, <3>3, SetInKeeps
    <2>2. Keeps(s, [s EXCEPT !.in[i].snap = T])
      <3> DEFINE q == [s.in[i] EXCEPT !.snap = T]
      <3>1. q \in InState
        <4>1. \A S \in SUBSET Threads : [s.in[i] EXCEPT !.snap = S] \in InState
          BY <2>0, InAssign, b \in BOOLEAN, Zenon
        <4> QED
          BY <4>1
      <3>2. /\ q.mNeedEchoReference = s.in[i].mNeedEchoReference
            /\ q.mEchoReference = s.in[i].mEchoReference
        BY <2>0 DEF InState
      <3>3. [s EXCEPT !.in[i].snap = T] = SetIn(s, i, q)
        BY DEF SetIn
      <3> HIDE DEF q
      <3> QED
        BY <3>1, <3>2, <3>3, SetInKeeps
    <2>3. ASSUME NEW d \in AllInDevices PROVE Keeps(s, [s EXCEPT !.in[i].mDevices = d])
      <3> DEFINE q == [s.in[i] EXCEPT !.mDevices = d]
      <3>1. q \in InState
        BY <2>0 DEF InState
      <3>2. /\ q.mNeedEchoReference = s.in[i].mNeedEchoReference
            /\ q.mEchoReference = s.in[i].mEchoReference
        BY <2>0 DEF InState
      <3>3. [s EXCEPT !.in[i].mDevices = d] = SetIn(s, i, q)
        BY DEF SetIn
      <3> HIDE DEF q
      <3> QED
        BY <3>1, <3>2, <3>3, SetInKeeps
    <2> QED
      BY <2>1, <2>2, <2>3
  <1> QED
    BY <1>1, <1>2

-----------------------------------------------------------------------------
(* Where the streams are closed only while no other call runs, a strong      *)
(* pointer leads to the stream the object has: its destructor never runs in  *)
(* the thread that drops it, with the hardware mutex held.                   *)
Placed(q, s) ==
  /\ q.ret \in {"return", "free"} /\ q.pc \notin {"echo.out", "echo.in", "stuck"}
  /\ q.pc = "idle" => q = Idle
  /\ q.spOut \in {None, s.mOutput} /\ q.spIn \in s.mInputs \cup {None}

Ordered ==
  /\ Echoless(hal)
  /\ \A t \in Threads : Placed(th[t], hal) /\ Held(t) = LocksOf(th[t])

LEMMA OrderGo ==
  ASSUME TypeOK, Ordered, NEW t \in Threads, NEW s, Still(hal, s), hal' = s,
         NEW q, NEW K, K \subseteq Mine(t), Hold(t, K), K = LocksOf(q),
         Go(t, q), Placed(q, s)
  PROVE  Ordered'
  <1>1. th'[t] = q /\ \A u \in Others(t) : th'[u] = th[u]
    BY DEF Go, TypeOK, Others
  <1>2. Echoless(hal')
    BY DEF Ordered, Still
  <1>3. \A u \in Others(t) : Placed(th[u], s)
    BY DEF Ordered, Still, Placed, Others
  <1>4. /\ {l \in Locks : own'[l] = t} = K
        /\ \A u \in Others(t) : {l \in Locks : own'[l] = u} = Held(u)
    BY HoldEffect
  <1>5. ASSUME NEW u \in Threads
        PROVE  Placed(th'[u], s) /\ {l \in Locks : own'[l] = u} = LocksOf(th'[u])
    <2>1. CASE u = t
      BY <1>1, <1>4, <2>1
    <2>2. CASE u # t
      BY <1>1, <1>3, <1>4, <2>2 DEF Others, Ordered
    <2> QED
      BY <2>1, <2>2
  <1> QED
    BY <1>2, <1>5 DEF Ordered, Held

LEMMA OrderKeep ==
  ASSUME TypeOK, Ordered, Still(hal, hal'), UNCHANGED <<own, th>>
  PROVE  Ordered'
  BY DEF Ordered, Still, Placed, Held

LEMMA OrderIdle ==
  \A s : Placed(Idle, s) /\ LocksOf(Idle) = {}
  BY DEF Placed, Idle, LocksOf

LEMMA OrderFree ==
  ASSUME TypeOK, NEW t \in Threads, NEW l \in Locks, Free(l) \/ own[l] = t
  PROVE  l \in Mine(t)
  BY DEF Free, Mine

(* The pointers a call has when it returns or goes on.                       *)
Pointed(s, o, i) == o \in {None, s.mOutput} /\ i \in s.mInputs \cup {None}

LEMMA LeaveOrder ==
  ASSUME TypeOK, Ordered, NEW t \in Threads, NEW s, Still(hal, s),
         NEW o, NEW i, Pointed(s, o, i), Leave(t, o, i, s)
  PROVE  Ordered'
  <1>1. ~Dies(t, o, s) /\ ~Dies(t, i, s)
    BY DEF Dies, Pointed
  <1>2. hal' = s /\ Hold(t, {}) /\ Go(t, Idle)
    BY <1>1 DEF Leave
  <1> QED
    BY <1>2, OrderGo, OrderIdle

LEMMA WriteOpenedOrder ==
  ASSUME TypeOK, Ordered, NEW t \in Threads, NEW s, Still(hal, s),
         NEW o \in OutStreams, o \in Mine(t), NEW i, Pointed(s, None, i),
         WriteOpened(t, o, i, s)
  PROVE  Ordered'
  <1> DEFINE p == [Idle EXCEPT !.pc = "write.io", !.obj = o]
             q == [Idle EXCEPT !.pc = "outStandby", !.obj = o, !.victim = o]
             a == [s EXCEPT !.out[o].mStandby = FALSE]
             b == [s EXCEPT !.wakeLock = FALSE]
  <1>1. ~Dies(t, i, s)
    BY DEF Dies, Pointed
  <1>2. \/ hal' = a /\ Hold(t, {o}) /\ Go(t, p)
        \/ hal' = b /\ Hold(t, {}) /\ Go(t, q)
    BY <1>1 DEF WriteOpened
  <1>3. Still(hal, a) /\ Still(hal, b)
    <2>1. s \in HalState
      BY DEF Still
    <2>2. Keeps(s, a) /\ Keeps(s, b)
      BY <2>1, StreamKeeps, FieldKeeps
    <2> QED
      BY <2>2, StillTrans DEF Keeps
  <1>4. \A x : Placed(p, x) /\ Placed(q, x)
    BY DEF Placed, Idle
  <1>5. LocksOf(p) = {o} /\ LocksOf(q) = {}
    BY DEF LocksOf, Idle
  <1> HIDE DEF p, q, a, b
  <1>6. {o} \subseteq Mine(t) /\ {} \subseteq Mine(t)
    OBVIOUS
  <1>7. CASE hal' = a /\ Hold(t, {o}) /\ Go(t, p)
    BY <1>3, <1>4, <1>5, <1>6, <1>7, OrderGo
  <1>8. CASE hal' = b /\ Hold(t, {}) /\ Go(t, q)
    BY <1>3, <1>4, <1>5, <1>6, <1>8, OrderGo
  <1> QED
    BY <1>2, <1>7, <1>8

LEMMA SetModeReturnOrder ==
  ASSUME TypeOK, Ordered, NEW t \in Threads, NEW s, Still(hal, s),
         NEW o, NEW i, Pointed(s, o, i), SetModeReturn(t, o, i, s)
  PROVE  Ordered'
  <1>1. CASE s.mFmResumeAfterCall
    <2> DEFINE b == [s EXCEPT !.mFmResumeAfterCall = FALSE]
    <2>1. PICK okPcm \in BOOLEAN, okMixer \in BOOLEAN :
            Leave(t, o, i, EnableFm(b, okPcm, okMixer))
      BY <1>1 DEF SetModeReturn, Outcomes
    <2>2. b \in HalState /\ Keeps(s, b)
      BY HalAssign, FieldKeeps DEF Still
    <2> HIDE DEF b
    <2>3. Keeps(b, EnableFm(b, okPcm, okMixer))
      BY <2>2, EnableFmKeeps
    <2>4. /\ Still(hal, EnableFm(b, okPcm, okMixer))
          /\ Pointed(EnableFm(b, okPcm, okMixer), o, i)
      BY <2>2, <2>3 DEF Keeps, Still, Pointed
    <2> QED
      BY <2>1, <2>4, LeaveOrder
  <1>2. CASE ~s.mFmResumeAfterCall
    BY <1>2, LeaveOrder DEF SetModeReturn
  <1> QED
    BY <1>1, <1>2

LEMMA EnterCallOrder ==
  ASSUME TypeOK, Ordered, NEW t \in Threads, NEW s, Still(hal, s),
         NEW o, NEW i, Pointed(s, o, i), EnterCall(t, o, i, s)
  PROVE  Ordered'
  <1>1. PICK okPcm \in BOOLEAN, okMixer \in BOOLEAN :
          SetModeReturn(t, o, i, [OpenMixer(OpenPcmOut(s, okPcm), okMixer)
                                    EXCEPT !.mInCallAudioMode = TRUE])
    BY DEF EnterCall, Outcomes
  <1> DEFINE a == OpenMixer(OpenPcmOut(s, okPcm), okMixer)
             b == [a EXCEPT !.mInCallAudioMode = TRUE]
  <1>2. a \in HalState /\ Keeps(s, a)
    <2>1. OpenPcmOut(s, okPcm) \in HalState /\ Keeps(s, OpenPcmOut(s, okPcm))
      BY OpenPcmOutType, DevicesKeep DEF Still
    <2> QED
      BY <2>1, OpenMixerType, DevicesKeep, KeepsTrans
  <1>3. SetModeReturn(t, o, i, b)
    BY <1>1
  <1> HIDE DEF a
  <1>4. Still(a, b)
    BY <1>2, FieldKeeps
  <1> HIDE DEF b
  <1>5. Still(hal, b) /\ Pointed(b, o, i)
    BY <1>2, <1>4 DEF Keeps, Still, Pointed
  <1> QED
    BY <1>3, <1>5, SetModeReturnOrder

LEMMA LeaveCallOrder ==
  ASSUME TypeOK, Ordered, NEW t \in Threads, NEW s, Still(hal, s),
         NEW o, NEW i, Pointed(s, o, i), LeaveCall(t, o, i, s)
  PROVE  Ordered'
  <1> DEFINE b == [s EXCEPT !.mInCallAudioMode = FALSE]
  <1>1. SetModeReturn(t, o, i, b)
    BY DEF LeaveCall
  <1>2. Still(s, b)
    BY FieldKeeps DEF Still
  <1> HIDE DEF b
  <1>3. Still(hal, b) /\ Pointed(b, o, i)
    BY <1>2 DEF Still, Pointed
  <1> QED
    BY <1>1, <1>3, SetModeReturnOrder

LEMMA ResumeOrder ==
  ASSUME TypeOK, Ordered, NEW t \in Threads, NEW s, Still(hal, s),
         NEW q \in ThreadState, HasPointers(q), q.victim \in Streams,
         Pointed(s, q.spOut, q.spIn), q.ret = "write" => q.obj \in Mine(t),
         Resume(t, q, s)
  PROVE  Ordered'
  <1>1. CASE q.ret = "return"
    BY <1>1, LeaveOrder DEF Resume
  <1>2. CASE q.ret = "free"
    <2>1. Leave(t, q.spOut, q.spIn, Freed(s, q.victim))
      BY <1>2 DEF Resume
    <2>2. Keeps(s, Freed(s, q.victim))
      BY FreedKeeps DEF Still
    <2>3. Still(hal, Freed(s, q.victim)) /\ Pointed(Freed(s, q.victim), q.spOut, q.spIn)
      BY <2>2 DEF Keeps, Still, Pointed
    <2> QED
      BY <2>1, <2>3, LeaveOrder
  <1>3. CASE q.ret = "write"
    <2>1. q.obj \in OutStreams
      BY <1>3 DEF HasPointers
    <2>2. WriteOpened(t, q.obj, q.spIn, s)
      BY <1>3 DEF Resume
    <2>3. Pointed(s, None, q.spIn)
      BY DEF Pointed
    <2> QED
      BY <1>3, <2>1, <2>2, <2>3, WriteOpenedOrder
  <1>4. CASE q.ret = "enterCall"
    BY <1>4, EnterCallOrder DEF Resume
  <1>5. CASE q.ret = "leaveCall"
    BY <1>5, LeaveCallOrder DEF Resume
  <1>6. q.ret \in Rets
    BY DEF ThreadState
  <1> QED
    BY <1>1, <1>2, <1>3, <1>4, <1>5, <1>6 DEF Rets

LEMMA InStandbyInOrder ==
  ASSUME TypeOK, Ordered, NEW t \in Threads, NEW s, Still(hal, s),
         NEW q \in ThreadState, HasPointers(q), q.victim \in InStreams,
         Pointed(s, q.spOut, q.spIn), q.ret = "write" => q.obj \in Mine(t),
         NEW K, InStandbyIn(t, K, q, s)
  PROVE  Ordered'
  <1> DEFINE a == InDoStandby(s, q.victim)
  <1>1. s.in[q.victim].mEchoReference = None
    BY DEF Ordered, Still, Echoless, NoEchoRefs
  <1>2. Resume(t, q, a)
    BY <1>1 DEF InStandbyIn
  <1>3. Keeps(s, a)
    BY InDoStandbyKeeps DEF Still
  <1> HIDE DEF a
  <1>4. Still(hal, a) /\ Pointed(a, q.spOut, q.spIn)
    BY <1>3 DEF Keeps, Still, Pointed
  <1> QED
    BY <1>2, <1>4, ResumeOrder, Names

(* write(), read() and setMode() from their scans on.                        *)
LEMMA WriteOpenOrder ==
  ASSUME TypeOK, Ordered, NEW t \in Threads, NEW s, Still(hal, s),
         NEW o \in OutStreams, o \in Mine(t), NEW i \in InStreams \cup {None},
         Pointed(s, None, i), WriteOpen(t, o, i, s)
  PROVE  Ordered'
  <1>0. (\A f : Outcomes(f) \subseteq BOOLEAN) /\ s \in HalState
    BY DEF Outcomes, Still
  <1>1. PICK okPcm \in Outcomes("pcmOut"), okMixer \in Outcomes("mixer") :
          WriteOpen(t, o, i, s)!(okPcm, okMixer)
    BY DEF WriteOpen
  <1>2. CASE i = None
    <2> DEFINE a == OutOpen(s, o, okPcm, okMixer)
    <2>1. WriteOpened(t, o, None, a)
      BY <1>1, <1>2
    <2>2. Keeps(s, a)
      BY <1>0, OutOpenKeeps
    <2> HIDE DEF a
    <2>3. Still(hal, a) /\ Pointed(a, None, None)
      BY <2>2 DEF Keeps, Still, Pointed
    <2> QED
      BY <2>1, <2>3, WriteOpenedOrder
  <1>3. CASE i # None
    <2>1. PICK okIn \in Outcomes("pcmIn"), okInMixer \in Outcomes("mixer") :
            LET a == InOpen(OutOpen(InClose(s, i), o, okPcm, okMixer),
                            i, okIn, okInMixer)
            IN  IF a.in[i].mPcm THEN WriteOpened(t, o, i, a)
                ELSE InStandbyIn(t, {o, i},
                       [Idle EXCEPT !.obj = o, !.spIn = i, !.victim = i,
                                    !.ret = "write"], a)
      BY <1>1, <1>3
    <2> DEFINE c == InClose(s, i)
               b == OutOpen(c, o, okPcm, okMixer)
               a == InOpen(b, i, okIn, okInMixer)
               q == [Idle EXCEPT !.obj = o, !.spIn = i, !.victim = i,
                                 !.ret = "write"]
    <2>2. i \in InStreams
      BY <1>3
    <2>3. Keeps(s, c)
      BY <1>0, <2>2, InCloseKeeps
    <2>4. q \in ThreadState
      BY IdleType, ThreadAssign, Names
    <2>5. /\ HasPointers(q) /\ q.victim \in InStreams
          /\ q.spOut = None /\ q.spIn = i /\ q.obj = o
      BY <2>2, IdleType DEF HasPointers, Idle
    <2>6. WriteOpened(t, o, i, a) \/ InStandbyIn(t, {o, i}, q, a)
      BY <2>1
    <2> HIDE DEF c
    <2>7. Keeps(c, b)
      BY <1>0, <2>3, OutOpenKeeps DEF Keeps, Still
    <2> HIDE DEF b
    <2>8. Keeps(b, a)
      BY <1>0, <2>2, <2>7, InOpenKeeps DEF Keeps, Still
    <2> HIDE DEF a, q
    <2>9. Still(hal, a) /\ Pointed(a, None, i)
      BY <2>3, <2>7, <2>8 DEF Keeps, Still, Pointed
    <2>10. CASE WriteOpened(t, o, i, a)
      BY <2>9, <2>10, WriteOpenedOrder
    <2>11. CASE InStandbyIn(t, {o, i}, q, a)
      BY <2>4, <2>5, <2>9, <2>11, InStandbyInOrder
    <2> QED
      BY <2>6, <2>10, <2>11
  <1> QED
    BY <1>2, <1>3

LEMMA ActiveOnes ==
  ASSUME NEW s \in HalState
  PROVE  \A i \in ActiveInputs(s) : i \in InStreams /\ i \in s.mInputs
  BY HalFields DEF ActiveInputs

LEMMA WriteScanOrder ==
  ASSUME TypeOK, Ordered, NEW t \in Threads, NEW s, Still(hal, s),
         NEW o \in OutStreams, o \in Mine(t), WriteScan(t, o, s)
  PROVE  Ordered'
  <1>0. s \in HalState
    BY DEF Still
  <1>1. CASE ActiveInputs(s) = {}
    <2>1. WriteOpen(t, o, None, s) /\ Pointed(s, None, None)
      BY <1>1 DEF WriteScan, Pointed
    <2> QED
      BY <2>1, WriteOpenOrder
  <1>2. CASE ActiveInputs(s) # {}
    <2>1. PICK i \in ActiveInputs(s) :
            /\ hal' = [s EXCEPT !.in[i].snap = @ \cup {t}]
            /\ Hold(t, {o})
            /\ Go(t, [Idle EXCEPT !.pc = "write.in", !.obj = o, !.spIn = i])
      BY <1>2 DEF WriteScan
    <2> DEFINE q == [Idle EXCEPT !.pc = "write.in", !.obj = o, !.spIn = i]
               a == [s EXCEPT !.in[i].snap = @ \cup {t}]
    <2>2. i \in InStreams /\ i \in s.mInputs
      BY <1>0, ActiveOnes
    <2>3. Keeps(s, a)
      BY <1>0, <2>2, StreamKeeps, StreamFields
    <2>4. LocksOf(q) = {o} /\ {o} \subseteq Mine(t)
      BY DEF LocksOf, Idle
    <2> HIDE DEF a
    <2>5. Still(hal, a) /\ i \in a.mInputs
      BY <2>2, <2>3 DEF Keeps, Still
    <2>6. Placed(q, a)
      BY <2>5 DEF Placed, Idle
    <2>7. hal' = a /\ Hold(t, {o}) /\ Go(t, q)
      BY <2>1 DEF a
    <2> HIDE DEF q
    <2> QED
      BY <2>4, <2>5, <2>6, <2>7, OrderGo
  <1> QED
    BY <1>1, <1>2

LEMMA ReadOpenOrder ==
  ASSUME TypeOK, Ordered, NEW t \in Threads, NEW s, Still(hal, s),
         NEW i \in InStreams, i \in Mine(t), NEW o \in OutStreams \cup {None},
         ReadOpen(t, i, o, s)
  PROVE  Ordered'
  <1>0. (\A f : Outcomes(f) \subseteq BOOLEAN) /\ s \in HalState
    BY DEF Outcomes, Still
  <1>1. PICK okPcm \in Outcomes("pcmOut"), okMixer \in Outcomes("mixer"),
             okIn \in Outcomes("pcmIn"), okInMixer \in Outcomes("mixer"),
             okEcho \in Outcomes("echo") :
          ReadOpen(t, i, o, s)!(okPcm, okMixer, okIn, okInMixer, okEcho)
    BY DEF ReadOpen
  <1> DEFINE closed == OutClose(s, o)
             reopened == OutOpen(closed, o, okPcm, okMixer)
             a == IF o = None \/ s.out[o].mStandby THEN s
                  ELSE IF reopened.out[o].mPcm THEN reopened
                  ELSE OutDoStandby(reopened, o)
             Open(c) ==
               LET c1 == InOpen(c, i, okIn, okInMixer)
               IN  IF c1.in[i].mPcm
                   THEN /\ hal' = [c1 EXCEPT !.in[i].mStandby = FALSE]
                        /\ Hold(t, {i})
                        /\ Go(t, [Idle EXCEPT !.pc = "read.io", !.obj = i])
                   ELSE /\ hal' = c1
                        /\ Hold(t, {})
                        /\ Go(t, [Idle EXCEPT !.pc = "inStandby", !.obj = i,
                                              !.victim = i])
             c1 == InOpen(a, i, okIn, okInMixer)
             d == [c1 EXCEPT !.in[i].mStandby = FALSE]
             p == [Idle EXCEPT !.pc = "read.io", !.obj = i]
             q == [Idle EXCEPT !.pc = "inStandby", !.obj = i, !.victim = i]
  <1>2. s.in[i].mNeedEchoReference = FALSE
    BY DEF Ordered, Still, Echoless, NoEchoRefs
  <1>3. Open(a)
    BY <1>1, <1>2
  <1>4. \/ hal' = d /\ Hold(t, {i}) /\ Go(t, p)
        \/ hal' = c1 /\ Hold(t, {}) /\ Go(t, q)
    BY <1>3
  <1> HIDE DEF Open
  <1>5. Keeps(s, a)
    <2>1. CASE o = None \/ s.out[o].mStandby
      BY <1>0, <2>1, KeepsSame
    <2>2. CASE ~(o = None \/ s.out[o].mStandby)
      <3>1. Keeps(s, closed)
        BY <1>0, <2>2, OutCloseKeeps
      <3> HIDE DEF closed
      <3>2. Keeps(s, reopened)
        <4>1. closed \in HalState /\ o \in OutStreams
          BY <2>2, <3>1 DEF Keeps, Still
        <4>2. Keeps(closed, reopened)
          BY <1>0, <4>1, OutOpenKeeps
        <4> QED
          BY <3>1, <4>2, KeepsTrans
      <3>3. a \in {reopened, OutDoStandby(reopened, o)}
        BY <2>2
      <3> HIDE DEF reopened, a
      <3>4. Keeps(s, OutDoStandby(reopened, o))
        <4>1. reopened \in HalState
          BY <3>2 DEF Keeps, Still
        <4>2. Keeps(reopened, OutDoStandby(reopened, o))
          BY <2>2, <4>1, OutDoStandbyKeeps
        <4> QED
          BY <3>2, <4>2, KeepsTrans
      <3> QED
        BY <3>2, <3>3, <3>4
    <2> QED
      BY <2>1, <2>2
  <1> HIDE DEF a
  <1>6. Keeps(a, c1)
    BY <1>0, <1>5, InOpenKeeps DEF Keeps, Still
  <1> HIDE DEF c1
  <1>7. Keeps(c1, d)
    BY <1>6, StreamKeeps DEF Keeps, Still
  <1>8. Still(hal, c1) /\ Still(hal, d)
    BY <1>5, <1>6, <1>7, StillTrans DEF Keeps
  <1>9. \A x : Placed(p, x) /\ Placed(q, x)
    BY DEF Placed, Idle
  <1>10. /\ LocksOf(p) = {i} /\ LocksOf(q) = {}
         /\ {i} \subseteq Mine(t) /\ {} \subseteq Mine(t)
    BY DEF LocksOf, Idle
  <1> HIDE DEF d, p, q
  <1>11. CASE hal' = d /\ Hold(t, {i}) /\ Go(t, p)
    BY <1>8, <1>9, <1>10, <1>11, OrderGo
  <1>12. CASE hal' = c1 /\ Hold(t, {}) /\ Go(t, q)
    BY <1>8, <1>9, <1>10, <1>12, OrderGo
  <1> QED
    BY <1>4, <1>11, <1>12

LEMMA ReadScanOrder ==
  ASSUME TypeOK, Ordered, NEW t \in Threads, NEW s, Still(hal, s),
         NEW i \in InStreams, i \in Mine(t), ReadScan(t, i, s)
  PROVE  Ordered'
  <1>1. CASE s.mOutput = None
    BY <1>1, ReadOpenOrder DEF ReadScan
  <1>2. CASE s.mOutput # None
    <2> DEFINE q == [Idle EXCEPT !.pc = "read.out", !.obj = i, !.spOut = s.mOutput]
    <2>1. hal' = s /\ Hold(t, {}) /\ Go(t, q)
      BY <1>2 DEF ReadScan
    <2>2. Placed(q, s) /\ LocksOf(q) = {}
      BY DEF Placed, LocksOf, Idle
    <2> HIDE DEF q
    <2> QED
      BY <2>1, <2>2, OrderGo
  <1> QED
    BY <1>1, <1>2

LEMMA SetModeBodyOrder ==
  ASSUME TypeOK, Ordered, NEW t \in Threads, NEW s, Still(hal, s),
         NEW m \in AllModes, NEW o \in OutStreams \cup {None},
         NEW i \in InStreams \cup {None}, Pointed(s, o, i),
         SetModeBody(t, m, o, i, s)
  PROVE  Ordered'
  <1>0. s \in HalState
    BY DEF Still
  <1>1. PICK ril \in BOOLEAN : SetModeBody(t, m, o, i, s)!(ril)
    BY DEF SetModeBody, Outcomes
  <1> DEFINE cp == m # "NORMAL" /\ (s.mActivatedCP \/ (s.mMode = "NORMAL" /\ ril))
             a == [s EXCEPT !.mMode = m, !.mActivatedCP = cp]
             path == IF a.mMixer THEN "RCV" ELSE a.playbackPath
             reset == [a EXCEPT !.playbackPath = path]
             OutDown(b) == IF o = None THEN b ELSE OutDoStandby(b, o)
             r(ret) == [Idle EXCEPT !.spOut = o, !.spIn = i, !.victim = i, !.ret = ret]
             InDown(ret, b) == InStandbyIn(t, {o, i} \ {None}, r(ret), b)
             down == OutDown(ClosePcmOut(CloseMixer(reset)))
  <1>2. Still(s, a)
    <2>1. cp \in BOOLEAN
      BY <1>0, HalFields
    <2> HIDE DEF cp
    <2>2. a \in HalState /\ Alike(s, a)
      BY <1>0, <2>1 DEF HalState, Alike
    <2> QED
      BY <1>0, <2>2, AlikeKeeps
  <1>3. Still(s, reset)
    <2> HIDE DEF a
    <2>1. a \in HalState
      BY <1>2 DEF Still
    <2>2. Keeps(a, reset)
      BY <2>1, HalFields, FieldKeeps
    <2> QED
      BY <1>2, <2>2, StillTrans DEF Keeps
  <1>4. ASSUME NEW b, Still(s, b) PROVE Still(s, OutDown(b))
    <2>1. b \in HalState
      BY <1>4 DEF Still
    <2>2. Still(b, OutDown(b))
      BY <2>1, KeepsSame, OutDoStandbyKeeps DEF Keeps
    <2> HIDE DEF OutDown
    <2> QED
      BY <1>4, <2>2, StillTrans
  <1>5. Still(s, down)
    <2> HIDE DEF reset, OutDown
    <2>1. Keeps(reset, CloseMixer(reset))
      BY <1>3, DevicesKeep DEF Still
    <2>2. Keeps(CloseMixer(reset), ClosePcmOut(CloseMixer(reset)))
      BY <2>1, DevicesKeep DEF Keeps, Still
    <2>3. Still(s, ClosePcmOut(CloseMixer(reset)))
      BY <1>3, <2>1, <2>2, StillTrans DEF Keeps
    <2> QED
      BY <1>4, <2>3
  <1>6. ASSUME NEW b, Still(s, b) PROVE Still(hal, b) /\ Pointed(b, o, i)
    BY <1>6 DEF Still, Pointed
  <1>7. ASSUME NEW ret \in {"enterCall", "leaveCall"}, NEW b, Still(s, b),
               i # None, InDown(ret, b)
        PROVE  Ordered'
    <2>1. r(ret) \in ThreadState
      BY IdleType, ThreadAssign, Names
    <2>2. /\ HasPointers(r(ret)) /\ r(ret).victim \in InStreams
          /\ r(ret).spOut = o /\ r(ret).spIn = i /\ r(ret).ret # "write"
      BY <1>7 DEF HasPointers, Idle
    <2>3. Still(hal, b) /\ Pointed(b, o, i)
      BY <1>6, <1>7
    <2>4. InStandbyIn(t, {o, i} \ {None}, r(ret), b)
      BY <1>7
    <2> HIDE DEF r
    <2> QED
      BY <2>1, <2>2, <2>3, <2>4, InStandbyInOrder
  <1>8. \/ SetModeReturn(t, o, i, s)
        \/ EnterCall(t, o, i, OutDown(a))
        \/ i # None /\ InDown("enterCall", OutDown(a))
        \/ LeaveCall(t, o, i, down)
        \/ i # None /\ InDown("leaveCall", down)
        \/ SetModeReturn(t, o, i, a)
    BY <1>1
  <1> HIDE DEF a, OutDown, InDown, down
  <1>9. Still(s, OutDown(a))
    BY <1>2, <1>4
  <1>10. CASE SetModeReturn(t, o, i, s)
    BY <1>10, SetModeReturnOrder
  <1>11. CASE EnterCall(t, o, i, OutDown(a))
    BY <1>6, <1>9, <1>11, EnterCallOrder
  <1>12. CASE LeaveCall(t, o, i, down)
    BY <1>5, <1>6, <1>12, LeaveCallOrder
  <1>13. CASE SetModeReturn(t, o, i, a)
    BY <1>2, <1>6, <1>13, SetModeReturnOrder
  <1> QED
    BY <1>5, <1>7, <1>8, <1>9, <1>10, <1>11, <1>12, <1>13

LEMMA SetModeScanInOrder ==
  ASSUME TypeOK, Ordered, NEW t \in Threads, NEW s, Still(hal, s),
         NEW m \in AllModes, NEW o \in OutStreams \cup {None}, Pointed(s, o, None),
         o # None => o \in Mine(t), SetModeScanIn(t, m, o, s)
  PROVE  Ordered'
  <1>0. s \in HalState
    BY DEF Still
  <1>1. CASE ActiveInputs(s) = {}
    BY <1>1, SetModeBodyOrder DEF SetModeScanIn
  <1>2. CASE ActiveInputs(s) # {}
    <2>1. PICK i \in ActiveInputs(s) :
            /\ hal' = [s EXCEPT !.in[i].snap = @ \cup {t}]
            /\ Hold(t, {o} \ {None})
            /\ Go(t, [Idle EXCEPT !.pc = "setMode.in", !.mode = m, !.spOut = o,
                                  !.spIn = i])
      BY <1>2 DEF SetModeScanIn
    <2> DEFINE q == [Idle EXCEPT !.pc = "setMode.in", !.mode = m, !.spOut = o,
                                 !.spIn = i]
               a == [s EXCEPT !.in[i].snap = @ \cup {t}]
               K == {o} \ {None}
    <2>2. i \in InStreams /\ i \in s.mInputs
      BY <1>0, ActiveOnes
    <2>3. Keeps(s, a)
      BY <1>0, <2>2, StreamKeeps, StreamFields
    <2>4. K = LocksOf(q) /\ K \subseteq Mine(t)
      BY DEF LocksOf, Idle
    <2> HIDE DEF a
    <2>5. Still(hal, a) /\ i \in a.mInputs /\ o \in {None, a.mOutput}
      BY <2>2, <2>3 DEF Keeps, Still, Pointed
    <2>6. Placed(q, a)
      BY <2>5 DEF Placed, Idle
    <2>7. hal' = a /\ Hold(t, K) /\ Go(t, q)
      BY <2>1 DEF a
    <2> HIDE DEF q, K
    <2> QED
      BY <2>4, <2>5, <2>6, <2>7, OrderGo
  <1> QED
    BY <1>1, <1>2

LEMMA SetModeScanOutOrder ==
  ASSUME TypeOK, Ordered, NEW t \in Threads, NEW s, Still(hal, s),
         NEW m \in AllModes, SetModeScanOut(t, m, s)
  PROVE  Ordered'
  <1>0. s \in HalState
    BY DEF Still
  <1> DEFINE o == s.mOutput
             q == [Idle EXCEPT !.pc = "setMode.out", !.mode = m, !.spOut = o]
             a == [s EXCEPT !.out[o].snap = @ \cup {t}]
  <1>1. CASE o = None \/ s.out[o].mStandby
    <2>1. SetModeScanIn(t, m, None, s) /\ Pointed(s, None, None)
      BY <1>1 DEF SetModeScanOut, Pointed
    <2> QED
      BY <2>1, SetModeScanInOrder
  <1>2. CASE ~(o = None \/ s.out[o].mStandby)
    <2>1. o \in OutStreams
      BY <1>0, <1>2, HalFields
    <2>2. Keeps(s, a)
      BY <1>0, <2>1, StreamKeeps, StreamFields
    <2>3. hal' = a /\ Hold(t, {}) /\ Go(t, q)
      BY <1>2 DEF SetModeScanOut
    <2>4. LocksOf(q) = {} /\ {} \subseteq Mine(t)
      BY DEF LocksOf, Idle
    <2> HIDE DEF a
    <2>5. Still(hal, a) /\ o = a.mOutput
      BY <2>2 DEF Keeps, Still
    <2> HIDE DEF o
    <2>6. Placed(q, a)
      BY <2>5 DEF Placed, Idle
    <2> HIDE DEF q
    <2> QED
      BY <2>3, <2>4, <2>5, <2>6, OrderGo
  <1> QED
    BY <1>1, <1>2

-----------------------------------------------------------------------------
(* Every action.                                                             *)
OrderAssumed == NoEcho /\ SerialClose

LEMMA IdleOrder ==
  ASSUME TypeOK, Ordered, NEW t \in Threads, th[t].pc = "idle"
  PROVE  th[t] = Idle /\ Held(t) = {}
  BY OrderIdle DEF Ordered, Placed

LEMMA StillHal ==
  ASSUME TypeOK
  PROVE  hal \in HalState /\ Still(hal, hal)
  BY DEF TypeOK, Still

(* The thread that closes is the only one in a call.                         *)
LEMMA CloseOutOrder ==
  ASSUME OrderAssumed, TypeOK, Ordered, NEW t \in Threads, CloseOutputStream(t)
  PROVE  Ordered'
  <1> DEFINE o == hal.mOutput
             s == [hal EXCEPT !.mOutput = None]
             q == [Idle EXCEPT !.pc = "outStandby", !.victim = o, !.ret = "free",
                               !.spIn = None]
  <1>1. o # None /\ \A u \in Threads : th[u].pc = "idle"
    BY DEF CloseOutputStream, ClientDone, OrderAssumed
  <1>2. hal.mEchoReference = None
    BY DEF Ordered, Echoless
  <1>3. Leave(t, o, None, s)
    BY <1>2 DEF CloseOutputStream
  <1>4. hal' = s /\ Hold(t, {}) /\ (Go(t, q) \/ Go(t, Idle))
    <2>1. ~Dies(t, None, s)
      BY DEF Dies
    <2> QED
      BY <1>3, <2>1 DEF Leave
  <1>5. Echoless(s)
    <2>1. s.in = hal.in /\ s.mEchoReference = hal.mEchoReference
      BY DEF TypeOK, HalState
    <2> HIDE DEF s
    <2> QED
      BY <2>1 DEF Ordered, Echoless, NoEchoRefs
  <1>6. LocksOf(q) = {} /\ LocksOf(Idle) = {} /\ Placed(q, s) /\ Placed(Idle, s)
    BY OrderIdle DEF LocksOf, Placed, Idle
  <1> HIDE DEF s, q
  <1>7. \A u \in Threads : Placed(th[u], s) /\ Held(u) = {} /\ LocksOf(th[u]) = {}
    BY <1>1, IdleOrder, OrderIdle
  <1>8. \A u \in Threads : Placed(th'[u], s) /\ LocksOf(th'[u]) = {}
    BY <1>4, <1>6, <1>7 DEF Go, TypeOK
  <1>9. ASSUME NEW u \in Threads PROVE {l \in Locks : own'[l] = u} = {}
    <2>1. u # None /\ \A l \in Locks : own[l] # u
      BY <1>7, HalAssumption DEF Held
    <2> QED
      BY <1>4, <2>1 DEF Hold
  <1> QED
    BY <1>4, <1>5, <1>8, <1>9 DEF Ordered, Held

LEMMA CloseInOrder ==
  ASSUME OrderAssumed, TypeOK, Ordered, NEW t \in Threads, NEW i \in InStreams,
         CloseInputStream(t, i)
  PROVE  Ordered'
  <1> DEFINE s == [hal EXCEPT !.mInputs = @ \ {i}]
             q == [Idle EXCEPT !.pc = "inStandby", !.victim = i, !.ret = "free"]
  <1>1. \A u \in Threads : th[u].pc = "idle"
    BY DEF CloseInputStream, ClientDone, OrderAssumed
  <1>2. Leave(t, None, i, s)
    BY DEF CloseInputStream
  <1>3. hal' = s /\ Hold(t, {}) /\ (Go(t, q) \/ Go(t, Idle))
    <2>1. ~Dies(t, None, s)
      BY DEF Dies
    <2> QED
      BY <1>2, <2>1 DEF Leave
  <1>4. Echoless(s)
    <2>1. s.in = hal.in /\ s.mEchoReference = hal.mEchoReference
      BY DEF TypeOK, HalState
    <2> HIDE DEF s
    <2> QED
      BY <2>1 DEF Ordered, Echoless, NoEchoRefs
  <1>5. LocksOf(q) = {} /\ LocksOf(Idle) = {} /\ Placed(q, s) /\ Placed(Idle, s)
    BY OrderIdle DEF LocksOf, Placed, Idle
  <1> HIDE DEF s, q
  <1>6. \A u \in Threads : Placed(th[u], s) /\ Held(u) = {} /\ LocksOf(th[u]) = {}
    BY <1>1, IdleOrder, OrderIdle
  <1>7. \A u \in Threads : Placed(th'[u], s) /\ LocksOf(th'[u]) = {}
    BY <1>3, <1>5, <1>6 DEF Go, TypeOK
  <1>8. ASSUME NEW u \in Threads PROVE {l \in Locks : own'[l] = u} = {}
    <2>1. u # None /\ \A l \in Locks : own[l] # u
      BY <1>6, HalAssumption DEF Held
    <2> QED
      BY <1>3, <2>1 DEF Hold
  <1> QED
    BY <1>3, <1>4, <1>7, <1>8 DEF Ordered, Held

LEMMA OpenOutOrder ==
  ASSUME TypeOK, Ordered, NEW t \in Threads, NEW d \in OutDevices,
         OpenOutputStream(t, d)
  PROVE  Ordered'
  <1>1. hal.mOutput = None /\ UNCHANGED <<own, th>>
    BY DEF OpenOutputStream
  <1>2. /\ hal'.mInputs = hal.mInputs /\ hal'.in = hal.in
        /\ hal'.mEchoReference = hal.mEchoReference
    BY DEF OpenOutputStream, TypeOK, HalState
  <1>3. Echoless(hal')
    BY <1>2 DEF Ordered, Echoless, NoEchoRefs
  <1>4. \A u \in Threads : Placed(th[u], hal')
    BY <1>1, <1>2 DEF Ordered, Placed
  <1> QED
    BY <1>1, <1>3, <1>4 DEF Ordered, Held

LEMMA OpenInOrder ==
  ASSUME TypeOK, Ordered, NEW t \in Threads, NEW d \in InDevices,
         OpenInputStream(t, d)
  PROVE  Ordered'
  <1>1. UNCHANGED <<own, th>>
    BY DEF OpenInputStream
  <1>2. PICK i \in InStreams :
          hal' = [hal EXCEPT !.mInputs = @ \cup {i},
                    !.in[i] = [NoIn EXCEPT !.alive = TRUE, !.mDevices = d]]
    BY DEF OpenInputStream
  <1>3. /\ hal'.mInputs = hal.mInputs \cup {i} /\ hal'.mOutput = hal.mOutput
        /\ hal'.mEchoReference = hal.mEchoReference
        /\ \A j \in InStreams :
             hal'.in[j] = IF j = i THEN [NoIn EXCEPT !.alive = TRUE, !.mDevices = d]
                          ELSE hal.in[j]
    BY <1>2 DEF TypeOK, HalState
  <1>4. Echoless(hal')
    <2> DEFINE n == [NoIn EXCEPT !.alive = TRUE, !.mDevices = d]
    <2>1. n.mNeedEchoReference = FALSE /\ n.mEchoReference = None
      BY DEF NoIn
    <2> HIDE DEF n
    <2> QED
      BY <1>3, <2>1 DEF Ordered, Echoless, NoEchoRefs, n
  <1>5. \A u \in Threads : Placed(th[u], hal')
    BY <1>3 DEF Ordered, Placed
  <1> QED
    BY <1>1, <1>4, <1>5 DEF Ordered, Held

LEMMA OutCallsOrder ==
  ASSUME OrderAssumed, TypeOK, Ordered, NEW t \in Threads, OutCalls(t)
  PROVE  Ordered'
  <1>0. hal \in HalState /\ hal.mOutput \in OutStreams \cup {None}
    BY HalFields DEF TypeOK
  <1>1. ASSUME NEW d \in OutDevices, OpenOutputStream(t, d) PROVE Ordered'
    BY <1>1, OpenOutOrder
  <1>2. ASSUME NEW d \in OutDevices, OutSetParameters(t, d) PROVE Ordered'
    <2> DEFINE o == hal.mOutput
               s == [hal EXCEPT !.out[o].mDevices = d]
    <2>1. o \in OutStreams /\ d \in AllOutDevices
      BY <1>0, <1>2, HalAssumption DEF OutSetParameters
    <2>2. Keeps(hal, s)
      BY <1>0, <2>1, StreamKeeps
    <2>3. hal' \in {s, OutDoStandby(s, o)} /\ UNCHANGED <<own, th>>
      BY <1>2 DEF OutSetParameters
    <2> HIDE DEF s
    <2>4. Keeps(s, OutDoStandby(s, o))
      BY <2>1, <2>2, OutDoStandbyKeeps DEF Keeps, Still
    <2> QED
      BY <2>2, <2>3, <2>4, StillTrans, OrderKeep DEF Keeps
  <1>3. CASE CloseOutputStream(t)
    BY <1>3, CloseOutOrder
  <1>4. CASE OutStandby(t)
    <2>1. hal.mOutput \in OutStreams
      BY <1>0, <1>4 DEF OutStandby
    <2> QED
      BY <1>0, <1>4, <2>1, OutDoStandbyKeeps, OrderKeep DEF OutStandby, Keeps
  <1>5. CASE WriteActive(t)
    <2> DEFINE q == [Idle EXCEPT !.pc = "write.io", !.obj = hal.mOutput]
    <2>1. hal.mOutput \in Locks /\ Free(hal.mOutput)
      BY <1>0, <1>5 DEF WriteActive, Locks, Streams
    <2>2. LocksOf(q) = {hal.mOutput} /\ Placed(q, hal)
      BY DEF LocksOf, Placed, Idle
    <2>3. {hal.mOutput} \subseteq Mine(t)
      BY <2>1, OrderFree
    <2>4. hal' = hal /\ Hold(t, {hal.mOutput}) /\ Go(t, q)
      BY <1>5 DEF WriteActive
    <2> HIDE DEF q
    <2> QED
      BY <2>2, <2>3, <2>4, StillHal, OrderGo
  <1>6. CASE WriteExitStandby(t)
    <2> DEFINE s == [hal EXCEPT !.wakeLock = TRUE]
    <2>1. hal.mOutput \in OutStreams /\ Free(hal.mOutput) /\ WriteScan(t, hal.mOutput, s)
      BY <1>0, <1>6 DEF WriteExitStandby
    <2>2. Still(hal, s)
      BY <1>0, FieldKeeps DEF Keeps
    <2>3. hal.mOutput \in Mine(t)
      BY <2>1, OrderFree DEF Locks, Streams
    <2> HIDE DEF s
    <2> QED
      BY <2>1, <2>2, <2>3, WriteScanOrder
  <1> QED
    BY <1>1, <1>2, <1>3, <1>4, <1>5, <1>6 DEF OutCalls

LEMMA InCallsOrder ==
  ASSUME OrderAssumed, TypeOK, Ordered, NEW t \in Threads, InCalls(t)
  PROVE  Ordered'
  <1>0. hal \in HalState /\ Still(hal, hal) /\ \A o, i : Pointed(hal, None, None)
    BY StillHal DEF Pointed
  <1>9. ASSUME NEW i \in InStreams, Free(i) PROVE i \in Mine(t)
    BY <1>9, OrderFree DEF Locks, Streams
  <1> DEFINE q(i) == [Idle EXCEPT !.obj = i, !.victim = i]
  <1>10. ASSUME NEW i \in InStreams, NEW s, Still(hal, s), InStandbyIn(t, {i}, q(i), s)
         PROVE  Ordered'
    <2>1. q(i) \in ThreadState
      BY IdleType, ThreadAssign, Names
    <2>2. /\ HasPointers(q(i)) /\ q(i).victim \in InStreams /\ q(i).ret # "write"
          /\ q(i).spOut = None /\ q(i).spIn = None
      BY DEF HasPointers, Idle
    <2> HIDE DEF q
    <2>3. Pointed(s, q(i).spOut, q(i).spIn)
      BY <2>2 DEF Pointed
    <2> QED
      BY <1>10, <2>1, <2>2, <2>3, InStandbyInOrder
  <1>1. ASSUME NEW d \in InDevices, OpenInputStream(t, d) PROVE Ordered'
    BY <1>1, OpenInOrder
  <1>2. ASSUME NEW d \in InDevices, NEW i \in InStreams, InSetParameters(t, i, d)
        PROVE  Ordered'
    <2> DEFINE s == [hal EXCEPT !.in[i].mDevices = d]
    <2>1. d \in AllInDevices
      BY HalAssumption
    <2>2. Still(hal, s)
      BY <1>0, <2>1, StreamKeeps DEF Keeps
    <2>3. (hal' = s /\ UNCHANGED <<own, th>>) \/ InStandbyIn(t, {i}, q(i), s)
      BY <1>2 DEF InSetParameters
    <2> HIDE DEF s, q
    <2> QED
      BY <1>10, <2>2, <2>3, OrderKeep
  <1>3. ASSUME NEW i \in InStreams, CloseInputStream(t, i) PROVE Ordered'
    BY <1>3, CloseInOrder
  <1>4. ASSUME NEW i \in InStreams, InStandby(t, i) PROVE Ordered'
    BY <1>0, <1>4, <1>10 DEF InStandby
  <1>5. ASSUME NEW i \in InStreams, InSetSource(t, i) PROVE Ordered'
    <2>1. PICK ok \in BOOLEAN : hal' = CloseMixer(OpenMixer(hal, ok))
      BY <1>5 DEF InSetSource, Outcomes
    <2>2. OpenMixer(hal, ok) \in HalState /\ Keeps(hal, OpenMixer(hal, ok))
      BY <1>0, OpenMixerType, DevicesKeep
    <2>3. Keeps(OpenMixer(hal, ok), CloseMixer(OpenMixer(hal, ok)))
      BY <2>2, DevicesKeep
    <2>4. Still(hal, hal')
      BY <2>1, <2>2, <2>3, StillTrans DEF Keeps
    <2> QED
      BY <1>5, <2>4, OrderKeep DEF InSetSource
  <1>6. ASSUME NEW i \in InStreams, AddAudioEffect(t, i) \/ RemoveAudioEffect(t, i)
        PROVE  Ordered'
    <2>1. "addAec" \notin Calls[t]
      BY DEF OrderAssumed, NoEcho
    <2>2. hal.in[i].mNeedEchoReference = FALSE
      BY DEF Ordered, Echoless, NoEchoRefs
    <2> QED
      BY <1>6, <2>1, <2>2 DEF AddAudioEffect, RemoveAudioEffect, SetNeedEcho, Calling
  <1>7. ASSUME NEW i \in InStreams, ReadActive(t, i) PROVE Ordered'
    <2> DEFINE p == [Idle EXCEPT !.pc = "read.io", !.obj = i]
    <2>1. LocksOf(p) = {i} /\ Placed(p, hal)
      BY DEF LocksOf, Placed, Idle
    <2>2. hal' = hal /\ Hold(t, {i}) /\ Go(t, p) /\ {i} \subseteq Mine(t)
      BY <1>7, <1>9 DEF ReadActive
    <2> HIDE DEF p
    <2> QED
      BY <1>0, <2>1, <2>2, OrderGo
  <1>8. ASSUME NEW i \in InStreams, ReadExitStandby(t, i) PROVE Ordered'
    BY <1>0, <1>8, <1>9, ReadScanOrder DEF ReadExitStandby
  <1> QED
    BY <1>1, <1>2, <1>3, <1>4, <1>5, <1>6, <1>7, <1>8 DEF InCalls

LEMMA HwCallsOrder ==
  ASSUME TypeOK, Ordered, NEW t \in Threads, HwCalls(t)
  PROVE  Ordered'
  <1>0. hal \in HalState /\ Still(hal, hal)
    BY StillHal
  <1>1. ASSUME NEW m \in Modes, SetMode(t, m) PROVE Ordered'
    <2>1. m \in AllModes
      BY HalAssumption
    <2> QED
      BY <1>0, <1>1, <2>1, SetModeScanOutOrder DEF SetMode
  <1>2. CASE SetMicMute(t)
    <2> DEFINE s == [hal EXCEPT !.mMicMute = ~@]
    <2>1. Keeps(hal, s)
      <3>1. (~hal.mMicMute) \in BOOLEAN
        OBVIOUS
      <3> QED
        BY <1>0, <3>1, FieldKeeps
    <2>2. CASE hal' = s /\ UNCHANGED <<own, th>>
      BY <2>1, <2>2, OrderKeep DEF Keeps
    <2>3. CASE ~(hal' = s /\ UNCHANGED <<own, th>>)
      <3>1. PICK i \in ActiveInputs(hal) :
              /\ hal' = s /\ own' = own
              /\ Go(t, [Idle EXCEPT !.pc = "inStandby", !.victim = i, !.spIn = i])
        BY <1>2, <2>3 DEF SetMicMute
      <3> DEFINE q == [Idle EXCEPT !.pc = "inStandby", !.victim = i, !.spIn = i]
      <3>2. i \in hal.mInputs
        BY DEF ActiveInputs
      <3> HIDE DEF s
      <3>3. LocksOf(q) = {} /\ Placed(q, s)
        BY <2>1, <3>2 DEF LocksOf, Placed, Idle, Keeps, Still
      <3>4. Hold(t, {})
        <4>1. Held(t) = {}
          BY <1>2, IdleOrder DEF SetMicMute, Calling
        <4> QED
          BY <3>1, <4>1 DEF Hold, Held, TypeOK
      <3>5. hal' = s /\ Go(t, q) /\ {} \subseteq Mine(t)
        BY <3>1
      <3> HIDE DEF q
      <3> QED
        BY <2>1, <3>3, <3>4, <3>5, OrderGo DEF Keeps
    <2> QED
      BY <2>2, <2>3
  <1>3. CASE EnableFMRadio(t)
    <2>1. PICK okPcm \in BOOLEAN, okMixer \in BOOLEAN :
            hal' = EnableFm(hal, okPcm, okMixer) /\ UNCHANGED <<own, th>>
      BY <1>3 DEF EnableFMRadio, Outcomes
    <2> QED
      BY <1>0, <2>1, EnableFmKeeps, OrderKeep DEF Keeps
  <1>4. CASE DisableFMRadio(t)
    BY <1>0, <1>4, DisableFmKeeps, OrderKeep DEF DisableFMRadio, Keeps
  <1> QED
    BY <1>1, <1>2, <1>3, <1>4 DEF HwCalls

LEMMA AdvanceOrder ==
  ASSUME TypeOK, Ordered, NEW t \in Threads, Advance(t)
  PROVE  Ordered'
  <1> DEFINE r == th[t]
  <1>0. /\ hal \in HalState /\ Still(hal, hal)
        /\ r \in ThreadState /\ HasPointers(r) /\ Placed(r, hal)
        /\ r.mode \in AllModes
        /\ Pointed(hal, r.spOut, r.spIn) /\ r.ret # "write"
        /\ r.pc \notin {"echo.out", "echo.in"}
    BY StillHal DEF TypeOK, Ordered, Placed, Pointed, ThreadState
  <1>01. \A l \in LocksOf(r) : l \in Mine(t)
    <2>1. \A l \in Held(t) : l \in Mine(t)
      BY DEF Held, Mine
    <2> QED
      BY <2>1 DEF Ordered
  <1>02. \A l \in Streams : Free(l) => l \in Mine(t)
    BY OrderFree DEF Locks
  <1> HIDE DEF r
  <1>1. CASE WriteLockIn(t)
    <2> DEFINE s == [hal EXCEPT !.in[r.spIn].snap = @ \ {t}]
    <2>1. r.pc = "write.in" /\ r.obj \in OutStreams /\ r.spIn \in InStreams
      BY <1>0, <1>1 DEF WriteLockIn, HasPointers, r
    <2>2. r.obj \in Mine(t)
      BY <1>01, <2>1 DEF LocksOf
    <2>3. Keeps(hal, s)
      BY <1>0, <2>1, StreamKeeps, StreamFields
    <2>4. r.spIn \in hal.mInputs
      BY <1>0, <2>1, HalAssumption DEF Pointed
    <2>5. ~Dies(t, r.spIn, hal)
      BY <2>4 DEF Dies
    <2>6. WriteOpen(t, r.obj, r.spIn, s) \/ WriteScan(t, r.obj, s)
      BY <1>1, <2>5 DEF WriteLockIn, r
    <2> HIDE DEF s
    <2>7. Still(hal, s) /\ Pointed(s, None, r.spIn)
      BY <2>3, <2>4 DEF Keeps, Still, Pointed
    <2> QED
      BY <2>1, <2>2, <2>6, <2>7, WriteOpenOrder, WriteScanOrder
  <1>2. CASE OutStandbyLock(t)
    <2> DEFINE s == OutDoStandby(hal, r.victim)
    <2>1. r.victim \in OutStreams /\ Resume(t, r, s)
      BY <1>0, <1>2 DEF OutStandbyLock, HasPointers, r
    <2>2. Keeps(hal, s)
      BY <1>0, <2>1, OutDoStandbyKeeps
    <2> HIDE DEF s
    <2>3. Still(hal, s) /\ Pointed(s, r.spOut, r.spIn)
      BY <1>0, <2>2 DEF Keeps, Still, Pointed
    <2> QED
      BY <1>0, <2>1, <2>3, ResumeOrder, Names
  <1>3. CASE ReadLockOut(t)
    <2> DEFINE q == [r EXCEPT !.pc = "read.in"]
    <2>1. r.pc = "read.out" /\ r.spOut \in OutStreams /\ Free(r.spOut)
      BY <1>0, <1>3 DEF ReadLockOut, HasPointers, r
    <2>2. r.spOut \in Mine(t) /\ r.spOut # None
      BY <1>02, <2>1, HalAssumption DEF Streams
    <2>3. /\ q.pc = "read.in" /\ q.ret = r.ret /\ q.spOut = r.spOut
          /\ q.spIn = r.spIn
      BY <1>0 DEF ThreadState
    <2>4. hal' = hal /\ Hold(t, {r.spOut}) /\ Go(t, q)
      BY <1>3 DEF ReadLockOut, r
    <2> HIDE DEF q
    <2>5. {r.spOut} = LocksOf(q) /\ {r.spOut} \subseteq Mine(t) /\ Placed(q, hal)
      BY <1>0, <2>2, <2>3 DEF LocksOf, Placed
    <2> QED
      BY <1>0, <2>4, <2>5, OrderGo
  <1>4. CASE ReadLockIn(t)
    <2>1. /\ r.pc = "read.in" /\ r.spOut \in OutStreams /\ r.obj \in InStreams
          /\ Free(r.obj)
      BY <1>0, <1>4 DEF ReadLockIn, HasPointers, r
    <2>2. r.spOut = hal.mOutput
      BY <1>0, <2>1, HalAssumption DEF Pointed
    <2>3. ReadOpen(t, r.obj, r.spOut, hal)
      BY <1>4, <2>2 DEF ReadLockIn, r
    <2>4. r.obj \in Mine(t)
      BY <1>02, <2>1 DEF Streams
    <2> QED
      BY <1>0, <2>1, <2>3, <2>4, ReadOpenOrder
  <1>5. CASE InStandbyLock(t)
    <2>1. r.victim \in InStreams /\ InStandbyIn(t, {r.victim}, r, hal)
      BY <1>0, <1>5 DEF InStandbyLock, HasPointers, r
    <2> QED
      BY <1>0, <2>1, InStandbyInOrder
  <1>6. CASE EchoLockOut(t) \/ EchoLockIn(t)
    BY <1>0, <1>6 DEF EchoLockOut, EchoLockIn, r
  <1>7. CASE SetModeLockOut(t)
    <2> DEFINE s == [hal EXCEPT !.out[r.spOut].snap = @ \ {t}]
    <2>1. r.spOut \in OutStreams /\ Free(r.spOut)
      BY <1>0, <1>7 DEF SetModeLockOut, HasPointers, r
    <2>2. r.spOut = hal.mOutput
      BY <1>0, <2>1, HalAssumption DEF Pointed
    <2>3. ~Dies(t, r.spOut, hal)
      BY <2>2 DEF Dies
    <2>4. Keeps(hal, s)
      BY <1>0, <2>1, StreamKeeps, StreamFields
    <2>5. SetModeScanIn(t, r.mode, r.spOut, s) \/ SetModeScanOut(t, r.mode, s)
      BY <1>7, <2>3 DEF SetModeLockOut, r
    <2>6. r.spOut \in Mine(t)
      BY <1>02, <2>1 DEF Streams
    <2> HIDE DEF s
    <2>7. Still(hal, s) /\ Pointed(s, r.spOut, None)
      BY <2>2, <2>4 DEF Keeps, Still, Pointed
    <2> QED
      BY <1>0, <2>1, <2>5, <2>6, <2>7, SetModeScanInOrder, SetModeScanOutOrder
  <1>8. CASE SetModeLockIn(t)
    <2> DEFINE s == [hal EXCEPT !.in[r.spIn].snap = @ \ {t}]
    <2>1. r.pc = "setMode.in" /\ r.spIn \in InStreams /\ r.spOut \in OutStreams \cup {None}
      BY <1>0, <1>8 DEF SetModeLockIn, HasPointers, r, ThreadState
    <2>2. r.spIn \in hal.mInputs
      BY <1>0, <2>1, HalAssumption DEF Pointed
    <2>3. ~Dies(t, r.spIn, hal)
      BY <2>2 DEF Dies
    <2>4. Keeps(hal, s)
      BY <1>0, <2>1, StreamKeeps, StreamFields
    <2>5. SetModeBody(t, r.mode, r.spOut, r.spIn, s) \/ SetModeScanIn(t, r.mode, r.spOut, s)
      BY <1>8, <2>3 DEF SetModeLockIn, r
    <2>6. r.spOut # None => r.spOut \in Mine(t)
      BY <1>01, <2>1 DEF LocksOf
    <2> HIDE DEF s
    <2>7. /\ Still(hal, s) /\ Pointed(s, r.spOut, r.spIn)
          /\ Pointed(s, r.spOut, None)
      BY <1>0, <2>4 DEF Keeps, Still, Pointed
    <2> QED
      BY <1>0, <2>1, <2>5, <2>6, <2>7, SetModeBodyOrder, SetModeScanInOrder
  <1>9. ASSUME NEW ok \in BOOLEAN, WriteDone(t, ok) \/ ReadDone(t, ok)
        PROVE  Ordered'
    <2> DEFINE p == [r EXCEPT !.pc = "outStandby", !.victim = r.obj]
               q == [r EXCEPT !.pc = "inStandby", !.victim = r.obj]
    <2>1. hal' = hal /\ Hold(t, {}) /\ (Go(t, Idle) \/ Go(t, p) \/ Go(t, q))
      BY <1>9 DEF WriteDone, ReadDone, r
    <2>2. /\ p.pc = "outStandby" /\ p.ret = r.ret /\ p.spOut = r.spOut /\ p.spIn = r.spIn
          /\ q.pc = "inStandby" /\ q.ret = r.ret /\ q.spOut = r.spOut /\ q.spIn = r.spIn
      BY <1>0 DEF ThreadState
    <2> HIDE DEF p, q
    <2>3. /\ Placed(p, hal) /\ LocksOf(p) = {} /\ Placed(q, hal) /\ LocksOf(q) = {}
          /\ Placed(Idle, hal) /\ LocksOf(Idle) = {} /\ {} \subseteq Mine(t)
      BY <1>0, <2>2, OrderIdle DEF Placed, LocksOf
    <2> QED
      BY <1>0, <2>1, <2>3, OrderGo
  <1> QED
    BY <1>1, <1>2, <1>3, <1>4, <1>5, <1>6, <1>7, <1>8, <1>9 DEF Advance

LEMMA OrderAlways == ASSUME OrderAssumed PROVE Spec => []Ordered
  <1>1. Init => Ordered
    <2> SUFFICES ASSUME Init PROVE Ordered
      OBVIOUS
    <2>1. Echoless(hal)
      BY DEF Init, Echoless, NoEchoRefs, NoIn
    <2>2. \A t \in Threads : th[t] = Idle /\ Held(t) = {}
      BY HalAssumption DEF Init, Held
    <2> QED
      BY <2>1, <2>2, OrderIdle DEF Ordered
  <1>2. TypeOK /\ Ordered /\ [Next]_vars => Ordered'
    <2> SUFFICES ASSUME TypeOK, Ordered, [Next]_vars PROVE Ordered'
      OBVIOUS
    <2>1. CASE UNCHANGED vars
      BY <2>1 DEF vars, Ordered, Held
    <2> QED
      BY <2>1, OutCallsOrder, InCallsOrder, HwCallsOrder, AdvanceOrder DEF Next
  <1> QED
    BY <1>1, <1>2, TypeCorrect, PTL DEF Spec

(* For any streams, threads and refusals of the drivers, where no echo is    *)
(* cancelled and streams are closed only while no other call runs: no thread *)
(* waits for a mutex while it holds that one, another of its kind or a later *)
(* one, so that threads never wait for one another in a circle.              *)
THEOREM MutexesInOrder == ASSUME OrderAssumed PROVE Spec => []LockOrder
  <1>1. TypeOK /\ Ordered => LockOrder
    <2> SUFFICES ASSUME TypeOK, Ordered, NEW t \in Threads,
                        NEW l \in Held(t), NEW k \in Wants(t)
                 PROVE  Rank(l) < Rank(k)
      BY DEF LockOrder
    <2>1. HasPointers(th[t]) /\ l \in LocksOf(th[t]) /\ th[t].pc \notin {"echo.out", "echo.in", "stuck"}
      BY DEF TypeOK, Ordered, Placed
    <2>2. /\ \A x \in OutStreams : Rank(x) = 1
          /\ \A x \in InStreams : Rank(x) = 2
          /\ Rank("hw") = 3
      BY HalAssumption DEF Rank
    <2>3. CASE th[t].pc \in {"write.in", "setMode.in"}
      <3>1. k \in InStreams \cup {"hw"}
        BY <2>1, <2>3 DEF Wants, HasPointers
      <3>2. l \in OutStreams
        BY <2>1, <2>3, ThreadFields DEF LocksOf, HasPointers, TypeOK
      <3> QED
        BY <2>2, <3>1, <3>2
    <2>4. CASE th[t].pc = "read.in"
      <3>1. k \in InStreams \cup {"hw"} /\ l \in OutStreams
        BY <2>1, <2>4 DEF Wants, HasPointers, LocksOf
      <3> QED
        BY <2>2, <3>1
    <2>5. th[t].pc \in {"write.in", "setMode.in", "read.in"}
      BY <2>1 DEF Wants, LocksOf
    <2> QED
      BY <2>3, <2>4, <2>5
  <1> QED
    BY <1>1, OrderAlways, TypeCorrect, PTL

-----------------------------------------------------------------------------
(* Who switches the call route: only setMode, once its scans are through.    *)
SameRoute(s) == SameSwitch(s, hal')

LEMMA WriteOpenedRoute ==
  ASSUME NEW s \in HalState, NEW t, NEW o \in OutStreams, NEW i, WriteOpened(t, o, i, s)
  PROVE  SameRoute(s)
  <1>1. hal' \in {s, [s EXCEPT !.out[o].mStandby = FALSE], [s EXCEPT !.wakeLock = FALSE]}
    BY DEF WriteOpened, Stuck
  <1>2. /\ SameSwitch(s, [s EXCEPT !.out[o].mStandby = FALSE])
        /\ SameSwitch(s, [s EXCEPT !.wakeLock = FALSE]) /\ SameSwitch(s, s)
    BY StreamKeeps, FieldKeeps, KeepsSame DEF Keeps
  <1> QED
    BY <1>1, <1>2 DEF SameRoute

Stays == {"return", "free", "write"}

LEMMA ResumeRoute ==
  ASSUME NEW s \in HalState, NEW t, NEW q \in ThreadState, HasPointers(q),
         q.victim \in Streams, q.ret \in Stays, Resume(t, q, s)
  PROVE  SameRoute(s)
  <1>1. CASE q.ret = "return"
    BY <1>1 DEF Resume, Leave, SameRoute, SameSwitch
  <1>2. CASE q.ret = "free"
    <2>1. hal' = Freed(s, q.victim)
      BY <1>2 DEF Resume, Leave
    <2> QED
      BY <2>1, FreedKeeps DEF Keeps, SameRoute
  <1>3. CASE q.ret = "write"
    <2>1. q.obj \in OutStreams /\ WriteOpened(t, q.obj, q.spIn, s)
      BY <1>3 DEF HasPointers, Resume
    <2> QED
      BY <2>1, WriteOpenedRoute
  <1> QED
    BY <1>1, <1>2, <1>3 DEF Stays

LEMMA InStandbyInRoute ==
  ASSUME NEW s \in HalState, NEW t, NEW K, NEW q \in ThreadState, HasPointers(q),
         q.victim \in InStreams, q.ret \in Stays, InStandbyIn(t, K, q, s)
  PROVE  SameRoute(s)
  <1> DEFINE a == InDoStandby(s, q.victim)
  <1>1. hal' = [s EXCEPT !.in[q.victim].snap = {}] \/ Resume(t, q, a)
    BY DEF InStandbyIn
  <1>2. SameSwitch(s, [s EXCEPT !.in[q.victim].snap = {}])
    BY StreamKeeps DEF Keeps
  <1>3. Keeps(s, a)
    BY InDoStandbyKeeps
  <1> HIDE DEF a
  <1>4. CASE Resume(t, q, a)
    <2>1. SameRoute(a)
      BY <1>3, <1>4, ResumeRoute, Names DEF Keeps, Still
    <2> QED
      BY <1>3, <2>1 DEF Keeps, SameRoute, SameSwitch
  <1> QED
    BY <1>1, <1>2, <1>4 DEF SameRoute

LEMMA WriteOpenRoute ==
  ASSUME NEW s \in HalState, NEW t, NEW o \in OutStreams,
         NEW i \in InStreams \cup {None}, WriteOpen(t, o, i, s)
  PROVE  SameRoute(s)
  <1>0. \A f : Outcomes(f) \subseteq BOOLEAN
    BY DEF Outcomes
  <1>1. PICK okPcm \in Outcomes("pcmOut"), okMixer \in Outcomes("mixer") :
          WriteOpen(t, o, i, s)!(okPcm, okMixer)
    BY DEF WriteOpen
  <1>2. CASE i = None
    <2> DEFINE a == OutOpen(s, o, okPcm, okMixer)
    <2>1. WriteOpened(t, o, None, a)
      BY <1>1, <1>2
    <2>2. Keeps(s, a)
      BY <1>0, OutOpenKeeps
    <2> HIDE DEF a
    <2>3. SameRoute(a)
      BY <2>1, <2>2, WriteOpenedRoute DEF Keeps, Still
    <2> QED
      BY <2>2, <2>3 DEF Keeps, SameRoute, SameSwitch
  <1>3. CASE i # None
    <2>1. PICK okIn \in Outcomes("pcmIn"), okInMixer \in Outcomes("mixer") :
            LET a == InOpen(OutOpen(InClose(s, i), o, okPcm, okMixer),
                            i, okIn, okInMixer)
            IN  IF a.in[i].mPcm THEN WriteOpened(t, o, i, a)
                ELSE InStandbyIn(t, {o, i},
                       [Idle EXCEPT !.obj = o, !.spIn = i, !.victim = i,
                                    !.ret = "write"], a)
      BY <1>1, <1>3
    <2> DEFINE c == InClose(s, i)
               b == OutOpen(c, o, okPcm, okMixer)
               a == InOpen(b, i, okIn, okInMixer)
               q == [Idle EXCEPT !.obj = o, !.spIn = i, !.victim = i,
                                 !.ret = "write"]
    <2>2. i \in InStreams
      BY <1>3
    <2>3. Keeps(s, c)
      BY <2>2, InCloseKeeps
    <2>4. q \in ThreadState
      BY IdleType, ThreadAssign, Names
    <2>5. HasPointers(q) /\ q.victim \in InStreams /\ q.ret \in Stays
      BY <2>2, IdleType DEF HasPointers, Idle, Stays
    <2>6. WriteOpened(t, o, i, a) \/ InStandbyIn(t, {o, i}, q, a)
      BY <2>1
    <2> HIDE DEF c
    <2>7. Keeps(c, b)
      BY <1>0, <2>3, OutOpenKeeps DEF Keeps, Still
    <2> HIDE DEF b
    <2>8. Keeps(b, a)
      BY <1>0, <2>2, <2>7, InOpenKeeps DEF Keeps, Still
    <2> HIDE DEF a, q
    <2>9. Keeps(s, a) /\ a \in HalState
      BY <2>3, <2>7, <2>8, KeepsTrans DEF Keeps, Still
    <2>10. SameRoute(a)
      BY <2>4, <2>5, <2>6, <2>9, WriteOpenedRoute, InStandbyInRoute
    <2> QED
      BY <2>9, <2>10 DEF Keeps, SameRoute, SameSwitch
  <1> QED
    BY <1>2, <1>3

LEMMA WriteScanRoute ==
  ASSUME NEW s \in HalState, NEW t \in Threads, NEW o \in OutStreams,
         WriteScan(t, o, s)
  PROVE  SameRoute(s)
  <1>1. CASE ActiveInputs(s) = {}
    BY <1>1, WriteOpenRoute DEF WriteScan
  <1>2. CASE ActiveInputs(s) # {}
    <2>1. PICK i \in ActiveInputs(s) : hal' = [s EXCEPT !.in[i].snap = @ \cup {t}]
      BY <1>2 DEF WriteScan
    <2>2. i \in InStreams
      BY ActiveOnes
    <2>3. SameSwitch(s, [s EXCEPT !.in[i].snap = @ \cup {t}])
      BY <2>2, StreamKeeps, StreamFields DEF Keeps
    <2> QED
      BY <2>1, <2>3 DEF SameRoute
  <1> QED
    BY <1>1, <1>2

LEMMA ReadOpenRoute ==
  ASSUME NEW s \in HalState, NoEchoRefs(s), NEW t, NEW i \in InStreams,
         NEW o \in OutStreams \cup {None}, ReadOpen(t, i, o, s)
  PROVE  SameRoute(s)
  <1>0. \A f : Outcomes(f) \subseteq BOOLEAN
    BY DEF Outcomes
  <1>1. PICK okPcm \in Outcomes("pcmOut"), okMixer \in Outcomes("mixer"),
             okIn \in Outcomes("pcmIn"), okInMixer \in Outcomes("mixer"),
             okEcho \in Outcomes("echo") :
          ReadOpen(t, i, o, s)!(okPcm, okMixer, okIn, okInMixer, okEcho)
    BY DEF ReadOpen
  <1> DEFINE closed == OutClose(s, o)
             reopened == OutOpen(closed, o, okPcm, okMixer)
             a == IF o = None \/ s.out[o].mStandby THEN s
                  ELSE IF reopened.out[o].mPcm THEN reopened
                  ELSE OutDoStandby(reopened, o)
             c == InOpen(a, i, okIn, okInMixer)
             d == [c EXCEPT !.in[i].mStandby = FALSE]
  <1>2. s.in[i].mNeedEchoReference = FALSE
    BY DEF NoEchoRefs
  <1>3. hal' \in {c, d}
    BY <1>1, <1>2
  <1>4. Keeps(s, a)
    <2>1. CASE o = None \/ s.out[o].mStandby
      BY <2>1, KeepsSame
    <2>2. CASE ~(o = None \/ s.out[o].mStandby)
      <3>1. Keeps(s, closed)
        BY <2>2, OutCloseKeeps
      <3> HIDE DEF closed
      <3>2. Keeps(s, reopened)
        <4>1. closed \in HalState /\ o \in OutStreams
          BY <2>2, <3>1 DEF Keeps, Still
        <4>2. Keeps(closed, reopened)
          BY <1>0, <4>1, OutOpenKeeps
        <4> QED
          BY <3>1, <4>2, KeepsTrans
      <3>3. a \in {reopened, OutDoStandby(reopened, o)}
        BY <2>2
      <3> HIDE DEF reopened, a
      <3>4. Keeps(s, OutDoStandby(reopened, o))
        BY <2>2, <3>2, OutDoStandbyKeeps, KeepsTrans DEF Keeps, Still
      <3> QED
        BY <3>2, <3>3, <3>4
    <2> QED
      BY <2>1, <2>2
  <1> HIDE DEF a
  <1>5. Keeps(a, c)
    BY <1>0, <1>4, InOpenKeeps DEF Keeps, Still
  <1> HIDE DEF c
  <1>6. Keeps(c, d)
    BY <1>5, StreamKeeps DEF Keeps, Still
  <1> HIDE DEF d
  <1> QED
    BY <1>3, <1>4, <1>5, <1>6 DEF Keeps, SameSwitch, SameRoute

LEMMA ReadScanRoute ==
  ASSUME NEW s \in HalState, NoEchoRefs(s), NEW t, NEW i \in InStreams,
         ReadScan(t, i, s)
  PROVE  SameRoute(s)
  <1>1. CASE s.mOutput = None
    BY <1>1, ReadOpenRoute DEF ReadScan
  <1>2. CASE s.mOutput # None
    BY <1>2 DEF ReadScan, SameRoute, SameSwitch
  <1> QED
    BY <1>1, <1>2

(* Where setMode stands when it switches.                                    *)
ScannedIn(s) == ActiveInputs(s) = {}

ScannedOut(s) == s.mOutput = None \/ s.out[s.mOutput].mStandby

LEMMA ScanInRoute ==
  ASSUME NEW s \in HalState, NEW t \in Threads, NEW m, NEW o,
         SetModeScanIn(t, m, o, s)
  PROVE  SameRoute(s) \/ ScannedIn(s)
  <1> SUFFICES ASSUME ~ScannedIn(s) PROVE SameRoute(s)
    OBVIOUS
  <1>1. PICK i \in ActiveInputs(s) : hal' = [s EXCEPT !.in[i].snap = @ \cup {t}]
    BY DEF SetModeScanIn, ScannedIn
  <1>2. i \in InStreams
    BY ActiveOnes
  <1>3. SameSwitch(s, [s EXCEPT !.in[i].snap = @ \cup {t}])
    BY <1>2, StreamKeeps, StreamFields DEF Keeps
  <1> QED
    BY <1>1, <1>3 DEF SameRoute

LEMMA ScanOutRoute ==
  ASSUME NEW s \in HalState, NEW t \in Threads, NEW m, SetModeScanOut(t, m, s)
  PROVE  SameRoute(s) \/ (ScannedOut(s) /\ ScannedIn(s))
  <1> DEFINE o == s.mOutput
  <1>1. CASE ScannedOut(s)
    BY <1>1, ScanInRoute DEF SetModeScanOut, ScannedOut
  <1>2. CASE ~ScannedOut(s)
    <2>1. o \in OutStreams
      BY <1>2, HalFields DEF ScannedOut
    <2>2. SameSwitch(s, [s EXCEPT !.out[o].snap = @ \cup {t}])
      BY <2>1, StreamKeeps, StreamFields DEF Keeps
    <2>3. hal' = [s EXCEPT !.out[o].snap = @ \cup {t}]
      BY <1>2 DEF SetModeScanOut, ScannedOut
    <2> QED
      BY <2>2, <2>3 DEF SameRoute
  <1> QED
    BY <1>1, <1>2

LEMMA SafeParts ==
  ASSUME TypeOK, Safe
  PROVE  /\ hal \in HalState /\ NoEchoRefs(hal)
         /\ \A t \in Threads : /\ th[t] \in ThreadState /\ HasPointers(th[t])
                               /\ th[t].ret \in Stays
                               /\ th[t].pc \notin {"echo.out", "echo.in"}
  BY DEF TypeOK, Safe, HalSafe, Form, Stays

LEMMA OutCallsRoute ==
  ASSUME TypeOK, Safe, NEW t \in Threads, OutCalls(t)
  PROVE  SameRoute(hal)
  <1>0. hal \in HalState /\ hal.mOutput \in OutStreams \cup {None}
    BY HalFields DEF TypeOK
  <1>1. ASSUME NEW d \in OutDevices, OpenOutputStream(t, d) PROVE SameRoute(hal)
    BY <1>0, <1>1 DEF OpenOutputStream, SameRoute, SameSwitch, HalState
  <1>2. ASSUME NEW d \in OutDevices, OutSetParameters(t, d) PROVE SameRoute(hal)
    <2> DEFINE o == hal.mOutput
               s == [hal EXCEPT !.out[o].mDevices = d]
    <2>1. o \in OutStreams /\ d \in AllOutDevices
      BY <1>0, <1>2, HalAssumption DEF OutSetParameters
    <2>2. Keeps(hal, s)
      BY <1>0, <2>1, StreamKeeps
    <2>3. hal' \in {s, OutDoStandby(s, o)}
      BY <1>2 DEF OutSetParameters
    <2> HIDE DEF s
    <2>4. Keeps(s, OutDoStandby(s, o))
      BY <2>1, <2>2, OutDoStandbyKeeps DEF Keeps, Still
    <2> QED
      BY <2>2, <2>3, <2>4 DEF Keeps, SameRoute, SameSwitch
  <1>3. CASE CloseOutputStream(t)
    <2>1. hal' = [hal EXCEPT !.mOutput = None]
      BY <1>3 DEF CloseOutputStream, Leave
    <2> QED
      BY <1>0, <2>1 DEF SameRoute, SameSwitch, HalState
  <1>4. CASE OutStandby(t)
    <2>1. hal.mOutput \in OutStreams
      BY <1>0, <1>4 DEF OutStandby
    <2> QED
      BY <1>0, <1>4, <2>1, OutDoStandbyKeeps DEF OutStandby, Keeps, SameRoute
  <1>5. CASE WriteActive(t)
    BY <1>5 DEF WriteActive, SameRoute, SameSwitch
  <1>6. CASE WriteExitStandby(t)
    <2> DEFINE s == [hal EXCEPT !.wakeLock = TRUE]
    <2>1. hal.mOutput \in OutStreams /\ WriteScan(t, hal.mOutput, s)
      BY <1>0, <1>6 DEF WriteExitStandby
    <2>2. Keeps(hal, s)
      BY <1>0, FieldKeeps
    <2> HIDE DEF s
    <2>3. SameRoute(s)
      BY <2>1, <2>2, WriteScanRoute DEF Keeps, Still
    <2> QED
      BY <2>2, <2>3 DEF Keeps, SameRoute, SameSwitch
  <1> QED
    BY <1>1, <1>2, <1>3, <1>4, <1>5, <1>6 DEF OutCalls

LEMMA InCallsRoute ==
  ASSUME TypeOK, Safe, NEW t \in Threads, InCalls(t)
  PROVE  SameRoute(hal)
  <1>0. hal \in HalState /\ NoEchoRefs(hal)
    BY SafeParts
  <1> DEFINE q(i) == [Idle EXCEPT !.obj = i, !.victim = i]
  <1>9. ASSUME NEW i \in InStreams, NEW s, Keeps(hal, s), InStandbyIn(t, {i}, q(i), s)
        PROVE  SameRoute(hal)
    <2>1. q(i) \in ThreadState
      BY IdleType, ThreadAssign, Names
    <2>2. HasPointers(q(i)) /\ q(i).victim \in InStreams /\ q(i).ret \in Stays
      BY DEF HasPointers, Idle, Stays
    <2> HIDE DEF q
    <2>3. SameRoute(s)
      BY <1>9, <2>1, <2>2, InStandbyInRoute DEF Keeps, Still
    <2> QED
      BY <1>9, <2>3 DEF Keeps, SameRoute, SameSwitch
  <1>1. ASSUME NEW d \in InDevices, OpenInputStream(t, d) PROVE SameRoute(hal)
    BY <1>0, <1>1 DEF OpenInputStream, SameRoute, SameSwitch, HalState
  <1>2. ASSUME NEW d \in InDevices, NEW i \in InStreams, InSetParameters(t, i, d)
        PROVE  SameRoute(hal)
    <2> DEFINE s == [hal EXCEPT !.in[i].mDevices = d]
    <2>1. d \in AllInDevices
      BY HalAssumption
    <2>2. Keeps(hal, s)
      BY <1>0, <2>1, StreamKeeps
    <2>3. hal' = s \/ InStandbyIn(t, {i}, q(i), s)
      BY <1>2 DEF InSetParameters
    <2> HIDE DEF s, q
    <2> QED
      BY <1>9, <2>2, <2>3 DEF Keeps, SameRoute
  <1>3. ASSUME NEW i \in InStreams, CloseInputStream(t, i) PROVE SameRoute(hal)
    <2>1. hal' = [hal EXCEPT !.mInputs = @ \ {i}]
      BY <1>3 DEF CloseInputStream, Leave
    <2> QED
      BY <1>0, <2>1 DEF SameRoute, SameSwitch, HalState
  <1>4. ASSUME NEW i \in InStreams, InStandby(t, i) PROVE SameRoute(hal)
    BY <1>0, <1>4, <1>9, KeepsSame DEF InStandby
  <1>5. ASSUME NEW i \in InStreams, InSetSource(t, i) PROVE SameRoute(hal)
    <2>1. PICK ok \in BOOLEAN : hal' = CloseMixer(OpenMixer(hal, ok))
      BY <1>5 DEF InSetSource, Outcomes
    <2>2. OpenMixer(hal, ok) \in HalState /\ Keeps(hal, OpenMixer(hal, ok))
      BY <1>0, OpenMixerType, DevicesKeep
    <2>3. Keeps(OpenMixer(hal, ok), CloseMixer(OpenMixer(hal, ok)))
      BY <2>2, DevicesKeep
    <2> QED
      BY <2>1, <2>2, <2>3 DEF Keeps, SameRoute, SameSwitch
  <1>6. ASSUME NEW i \in InStreams, AddAudioEffect(t, i) \/ RemoveAudioEffect(t, i)
        PROVE  SameRoute(hal)
    <2>1. \E b : hal' = [hal EXCEPT !.in[i].mNeedEchoReference = b]
      BY <1>6 DEF AddAudioEffect, RemoveAudioEffect, SetNeedEcho
    <2> QED
      BY <1>0, <2>1 DEF SameRoute, SameSwitch, HalState
  <1>7. ASSUME NEW i \in InStreams, ReadActive(t, i) PROVE SameRoute(hal)
    BY <1>7 DEF ReadActive, SameRoute, SameSwitch
  <1>8. ASSUME NEW i \in InStreams, ReadExitStandby(t, i) PROVE SameRoute(hal)
    BY <1>0, <1>8, ReadScanRoute DEF ReadExitStandby
  <1> QED
    BY <1>1, <1>2, <1>3, <1>4, <1>5, <1>6, <1>7, <1>8 DEF InCalls

(* The threads in pcm_write and pcm_read have their stream out of standby.   *)
LEMMA InDriver ==
  ASSUME TypeOK, Safe, NEW u \in Threads
  PROVE  /\ th[u].pc = "read.io" => /\ th[u].obj \in ActiveInputs(hal)
                                    /\ own[th[u].obj] = u
         /\ th[u].pc = "write.io" => /\ th[u].obj = hal.mOutput /\ hal.mOutput # None
                                     /\ ~ScannedOut(hal) /\ own[th[u].obj] = u
  <1>1. /\ HasPointers(th[u]) /\ Fits(th[u], hal)
        /\ hal.mOutput \in OutStreams \cup {None} /\ hal.mInputs \subseteq InStreams
    BY HalFields DEF TypeOK, Safe
  <1>2. th[u].pc \in {"write.io", "read.io"} => own[th[u].obj] = u
    <2>1. th[u].pc \in {"write.io", "read.io"} => Held(u) = {th[u].obj}
      BY DEF Safe, LocksHeld, LocksOf
    <2> QED
      BY <2>1 DEF Held
  <1>3. CASE th[u].pc = "read.io"
    <2>1. th[u].obj \in InStreams /\ ~hal.in[th[u].obj].mStandby
      BY <1>1, <1>3 DEF HasPointers, Fits
    <2>2. th[u].obj # None /\ th[u].obj \notin OutStreams
      BY <2>1, HalAssumption
    <2>3. Member(hal, th[u].obj)
      BY <1>1, <2>2 DEF Fits, Linked
    <2>4. th[u].obj \in hal.mInputs
      BY <1>1, <2>2, <2>3 DEF Member
    <2> QED
      BY <1>2, <1>3, <2>1, <2>4 DEF ActiveInputs
  <1>4. CASE th[u].pc = "write.io"
    <2>1. th[u].obj \in OutStreams /\ ~hal.out[th[u].obj].mStandby
      BY <1>1, <1>4 DEF HasPointers, Fits
    <2>2. th[u].obj # None /\ th[u].obj \notin InStreams
      BY <2>1, HalAssumption
    <2>3. Member(hal, th[u].obj)
      BY <1>1, <2>2 DEF Fits, Linked
    <2>4. th[u].obj = hal.mOutput
      BY <1>1, <2>2, <2>3 DEF Member
    <2> QED
      BY <1>2, <1>4, <2>1, <2>2, <2>4 DEF ScannedOut
  <1> QED
    BY <1>3, <1>4

(* A copy of mStandbyCnt is taken or dropped.                                *)
LEMMA SnapScans ==
  ASSUME NEW s \in HalState, NEW t \in Threads
  PROVE  /\ \A o \in OutStreams :
              LET a == [s EXCEPT !.out[o].snap = @ \ {t}]
              IN  /\ Keeps(s, a) /\ ActiveInputs(a) = ActiveInputs(s)
                  /\ ScannedOut(a) => ScannedOut(s)
         /\ \A i \in InStreams :
              LET a == [s EXCEPT !.in[i].snap = @ \ {t}]
              IN  Keeps(s, a) /\ ActiveInputs(a) = ActiveInputs(s)
  <1>1. ASSUME NEW o \in OutStreams
        PROVE  LET a == [s EXCEPT !.out[o].snap = @ \ {t}]
               IN  /\ Keeps(s, a) /\ ActiveInputs(a) = ActiveInputs(s)
                   /\ ScannedOut(a) => ScannedOut(s)
    <2> DEFINE a == [s EXCEPT !.out[o].snap = @ \ {t}]
    <2>1. Keeps(s, a)
      BY StreamKeeps, StreamFields
    <2>2. a.in = s.in /\ a.mInputs = s.mInputs /\ a.mOutput = s.mOutput
      BY DEF HalState
    <2>3. \A x \in OutStreams : a.out[x].mStandby <=> s.out[x].mStandby
      BY DEF HalState, OutState
    <2>4. a.mOutput \in OutStreams \cup {None}
      BY <2>2, HalFields
    <2> HIDE DEF a
    <2>5. ActiveInputs(a) = ActiveInputs(s) /\ (ScannedOut(a) => ScannedOut(s))
      BY <2>2, <2>3, <2>4 DEF ActiveInputs, ScannedOut
    <2> QED
      BY <2>1, <2>5 DEF a
  <1>2. ASSUME NEW i \in InStreams
        PROVE  LET a == [s EXCEPT !.in[i].snap = @ \ {t}]
               IN  Keeps(s, a) /\ ActiveInputs(a) = ActiveInputs(s)
    <2> DEFINE a == [s EXCEPT !.in[i].snap = @ \ {t}]
    <2>1. Keeps(s, a)
      BY StreamKeeps, StreamFields
    <2>2. a.mInputs = s.mInputs /\ s.mInputs \subseteq InStreams
      BY HalFields DEF HalState
    <2>3. \A x \in InStreams : a.in[x].mStandby <=> s.in[x].mStandby
      BY DEF HalState, InState
    <2> HIDE DEF a
    <2>4. ActiveInputs(a) = ActiveInputs(s)
      BY <2>2, <2>3 DEF ActiveInputs
    <2> QED
      BY <2>1, <2>4 DEF a
  <1> QED
    BY <1>1, <1>2

(* What CallSwitchGuarded says of the threads before the step.               *)
Guarding ==
  \A u \in Threads :
    /\ th[u].pc # "read.io"
    /\ th[u].pc = "write.io" => \E v \in Threads : th[v].pc = "setMode.in"

LEMMA HwCallsRoute ==
  ASSUME TypeOK, Safe, NEW t \in Threads, HwCalls(t)
  PROVE  SameRoute(hal) \/ Guarding
  <1>0. hal \in HalState
    BY DEF TypeOK
  <1>1. ASSUME NEW m \in Modes, SetMode(t, m) PROVE SameRoute(hal) \/ Guarding
    <2>1. SameRoute(hal) \/ (ScannedOut(hal) /\ ScannedIn(hal))
      BY <1>0, <1>1, ScanOutRoute DEF SetMode
    <2> QED
      BY <2>1, InDriver DEF Guarding, ScannedIn
  <1>2. CASE SetMicMute(t)
    <2>1. hal' = [hal EXCEPT !.mMicMute = ~@]
      BY <1>2 DEF SetMicMute
    <2> QED
      BY <1>0, <2>1 DEF SameRoute, SameSwitch, HalState
  <1>3. CASE EnableFMRadio(t)
    <2>1. PICK okPcm \in BOOLEAN, okMixer \in BOOLEAN :
            hal' = EnableFm(hal, okPcm, okMixer)
      BY <1>3 DEF EnableFMRadio, Outcomes
    <2> QED
      BY <1>0, <2>1, EnableFmKeeps DEF Keeps, SameRoute
  <1>4. CASE DisableFMRadio(t)
    BY <1>0, <1>4, DisableFmKeeps DEF DisableFMRadio, Keeps, SameRoute
  <1> QED
    BY <1>1, <1>2, <1>3, <1>4 DEF HwCalls

LEMMA AdvanceRoute ==
  ASSUME TypeOK, Safe, NEW t \in Threads, Advance(t)
  PROVE  SameRoute(hal) \/ Guarding
  <1> DEFINE r == th[t]
  <1>0. /\ hal \in HalState /\ NoEchoRefs(hal) /\ r \in ThreadState /\ HasPointers(r)
        /\ r.ret \in Stays /\ r.pc \notin {"echo.out", "echo.in"}
    BY SafeParts
  <1>01. ASSUME NEW s, Keeps(hal, s), SameRoute(s) PROVE SameRoute(hal)
    BY <1>01 DEF Keeps, SameRoute, SameSwitch
  <1> HIDE DEF r
  <1>1. CASE WriteLockIn(t)
    <2> DEFINE s == [hal EXCEPT !.in[r.spIn].snap = @ \ {t}]
    <2>1. r.obj \in OutStreams /\ r.spIn \in InStreams
      BY <1>0, <1>1 DEF WriteLockIn, HasPointers, r
    <2>2. Keeps(hal, s) /\ s \in HalState
      BY <1>0, <2>1, SnapScans DEF Keeps, Still
    <2>3. WriteOpen(t, r.obj, r.spIn, s) \/ WriteScan(t, r.obj, s) \/ hal' = s
      BY <1>1 DEF WriteLockIn, Stuck, r
    <2> HIDE DEF s
    <2>4. SameRoute(s)
      BY <2>1, <2>2, <2>3, WriteOpenRoute, WriteScanRoute DEF SameRoute, SameSwitch
    <2> QED
      BY <1>01, <2>2, <2>4
  <1>2. CASE OutStandbyLock(t)
    <2> DEFINE s == OutDoStandby(hal, r.victim)
    <2>1. r.victim \in OutStreams /\ Resume(t, r, s)
      BY <1>0, <1>2 DEF OutStandbyLock, HasPointers, r
    <2>2. Keeps(hal, s)
      BY <1>0, <2>1, OutDoStandbyKeeps
    <2> HIDE DEF s
    <2>3. SameRoute(s)
      BY <1>0, <2>1, <2>2, ResumeRoute, Names DEF Keeps, Still
    <2> QED
      BY <1>01, <2>2, <2>3
  <1>3. CASE ReadLockOut(t)
    BY <1>3 DEF ReadLockOut, SameRoute, SameSwitch
  <1>4. CASE ReadLockIn(t)
    <2>1. r.spOut \in OutStreams /\ r.obj \in InStreams
      BY <1>0, <1>4 DEF ReadLockIn, HasPointers, r
    <2>2. ReadOpen(t, r.obj, r.spOut, hal) \/ ReadScan(t, r.obj, hal) \/ hal' = hal
      BY <1>4 DEF ReadLockIn, Stuck, r
    <2> QED
      BY <1>0, <2>1, <2>2, ReadOpenRoute, ReadScanRoute DEF SameRoute, SameSwitch
  <1>5. CASE InStandbyLock(t)
    <2>1. r.victim \in InStreams /\ InStandbyIn(t, {r.victim}, r, hal)
      BY <1>0, <1>5 DEF InStandbyLock, HasPointers, r
    <2> QED
      BY <1>0, <2>1, InStandbyInRoute
  <1>6. CASE EchoLockOut(t) \/ EchoLockIn(t)
    BY <1>0, <1>6 DEF EchoLockOut, EchoLockIn, r
  <1>7. CASE SetModeLockOut(t)
    <2> DEFINE s == [hal EXCEPT !.out[r.spOut].snap = @ \ {t}]
    <2>1. r.spOut \in OutStreams /\ own[r.spOut] = None
      BY <1>0, <1>7 DEF SetModeLockOut, HasPointers, Free, r
    <2>2. /\ Keeps(hal, s) /\ s \in HalState /\ ActiveInputs(s) = ActiveInputs(hal)
          /\ ScannedOut(s) => ScannedOut(hal)
      BY <1>0, <2>1, SnapScans DEF Keeps, Still
    <2>3. \/ r.spOut = hal.mOutput /\ SetModeScanIn(t, r.mode, r.spOut, s)
          \/ hal' = s
          \/ SetModeScanOut(t, r.mode, s)
      BY <1>7 DEF SetModeLockOut, Stuck, r
    <2> HIDE DEF s
    <2>4. \/ SameRoute(s)
          \/ ScannedIn(s) /\ (ScannedOut(s) \/ r.spOut = hal.mOutput)
      BY <2>2, <2>3, ScanInRoute, ScanOutRoute DEF SameRoute, SameSwitch
    <2>5. ASSUME ScannedIn(s), ScannedOut(s) \/ r.spOut = hal.mOutput PROVE Guarding
      <3>1. ActiveInputs(hal) = {}
        BY <2>2, <2>5 DEF ScannedIn
      <3>2. None \notin Threads
        BY HalAssumption
      <3> QED
        BY <2>1, <2>2, <2>5, <3>1, <3>2, InDriver DEF Guarding
    <2> QED
      BY <1>01, <2>2, <2>4, <2>5
  <1>8. CASE SetModeLockIn(t)
    <2> DEFINE s == [hal EXCEPT !.in[r.spIn].snap = @ \ {t}]
    <2>1. r.spIn \in InStreams /\ own[r.spIn] = None /\ th[t].pc = "setMode.in"
      BY <1>0, <1>8 DEF SetModeLockIn, HasPointers, Free, r
    <2>2. Keeps(hal, s) /\ s \in HalState /\ ActiveInputs(s) = ActiveInputs(hal)
      BY <1>0, <2>1, SnapScans DEF Keeps, Still
    <2>3. \/ r.spIn \in ActiveInputs(hal)
          \/ hal' = s
          \/ SetModeScanIn(t, r.mode, r.spOut, s)
      BY <1>8 DEF SetModeLockIn, Stuck, r
    <2> HIDE DEF s
    <2>4. SameRoute(s) \/ ScannedIn(s) \/ r.spIn \in ActiveInputs(hal)
      BY <2>2, <2>3, ScanInRoute DEF SameRoute, SameSwitch
    <2>5. ASSUME ScannedIn(s) \/ r.spIn \in ActiveInputs(hal) PROVE Guarding
      <3>1. \A i, j \in ActiveInputs(hal) : i = j
        <4>1. \A i \in ActiveInputs(hal) : i \in InStreams /\ hal.in[i].mPcm
          BY <1>0, ActiveOnes DEF ActiveInputs, Safe, HalSafe, AllPlaying, Playing
        <4> QED
          BY <4>1 DEF Safe, HalSafe, OneCapture
      <3>2. None \notin Threads
        BY HalAssumption
      <3>3. \A u \in Threads : th[u].pc # "read.io"
        BY <2>1, <2>2, <2>5, <3>1, <3>2, InDriver DEF ScannedIn
      <3> QED
        BY <2>1, <3>3 DEF Guarding
    <2> QED
      BY <1>01, <2>2, <2>4, <2>5
  <1>9. ASSUME NEW ok \in BOOLEAN, WriteDone(t, ok) \/ ReadDone(t, ok)
        PROVE  SameRoute(hal)
    BY <1>9 DEF WriteDone, ReadDone, SameRoute, SameSwitch
  <1> QED
    BY <1>1, <1>2, <1>3, <1>4, <1>5, <1>6, <1>7, <1>8, <1>9 DEF Advance

(* For any streams, threads and refusals of the drivers, where no echo is    *)
(* cancelled and a call and FM get the devices they ask for: when the call   *)
(* route takes over or ends, no pcm_read is under way, and pcm_write only    *)
(* if the output left standby while setMode waited for the input.            *)
THEOREM SwitchIsGuarded == ASSUME Assumed PROVE Spec => CallSwitchGuarded
  <1>1. TypeOK /\ TypeOK' /\ Safe /\ [Next]_vars =>
          [hal'.mInCallAudioMode # hal.mInCallAudioMode
             => \A t \in Threads :
                  /\ th[t].pc # "read.io"
                  /\ th[t].pc = "write.io" =>
                       \E u \in Threads : th[u].pc = "setMode.in"]_vars
    <2> SUFFICES ASSUME TypeOK, TypeOK', Safe, [Next]_vars,
                        hal'.mInCallAudioMode # hal.mInCallAudioMode
                 PROVE  Guarding
      BY DEF Guarding
    <2>1. ~SameRoute(hal)
      BY DEF SameRoute, SameSwitch, TypeOK, HalState
    <2>2. CASE UNCHANGED vars
      BY <2>2 DEF vars
    <2> QED
      BY <2>1, <2>2, OutCallsRoute, InCallsRoute, HwCallsRoute, AdvanceRoute DEF Next
  <1> QED
    BY <1>1, SafeAlways, TypeCorrect, PTL DEF CallSwitchGuarded, Spec

=============================================================================
