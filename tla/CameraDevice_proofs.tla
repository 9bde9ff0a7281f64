------------------------- MODULE CameraDevice_proofs -------------------------
(* Theorems about CameraDevice for any cameras, requests, pictures and       *)
(* refusals of the driver: the values that are kept and sent, what           *)
(* getParameters says of the driver, and the tags of a picture.              *)
EXTENDS CameraDevice, TLAPS

-----------------------------------------------------------------------------
(* The controls.                                                             *)
Kept == Controls \cup {"orientation"}

CtlState ==
  [isStreaming : BOOLEAN, cache : [Kept -> Int], driver : [Controls -> Int]]

(* The setters that reach the driver.                                        *)
Sent(v, asked) == {c \in DOMAIN asked : Sends(v, c, asked[c])}

(* w is v after a call that sends the controls S and has R of them refused.  *)
SetTo(v, w, asked, S, R) ==
  /\ w \in CtlState /\ w.isStreaming = v.isStreaming
  /\ \A c \in Controls :
       /\ w.cache[c] = IF c \in S THEN asked[c] ELSE v.cache[c]
       /\ w.driver[c] = IF c \in S \ R THEN asked[c] ELSE v.driver[c]

LEMMA SetControlsSets ==
  ASSUME NEW v \in CtlState, NEW asked, NEW R,
         DOMAIN asked \subseteq Controls, \A c \in DOMAIN asked : asked[c] \in Int
  PROVE  SetTo(v, SetControls(v, asked, R), asked, Sent(v, asked), R)
  <1> DEFINE S == Sent(v, asked)
             new == [c \in DOMAIN v.cache |-> IF c \in S THEN asked[c] ELSE v.cache[c]]
             told == [c \in Controls |-> IF c \in S \ R THEN asked[c] ELSE v.driver[c]]
             w == [v EXCEPT !.cache = new, !.driver = told]
  <1>0. v.cache \in [Kept -> Int] /\ v.driver \in [Controls -> Int] /\ S \subseteq Controls
    BY DEF CtlState, Sent
  <1>1. SetControls(v, asked, R) = w
    BY DEF SetControls, Sent
  <1>2. /\ \A c \in S : asked[c] \in Int
        /\ DOMAIN v.cache = Kept
    BY <1>0 DEF Sent
  <1>3. new \in [Kept -> Int] /\ told \in [Controls -> Int]
    BY <1>0, <1>2
  <1>4. \A c \in Controls : /\ new[c] = IF c \in S THEN asked[c] ELSE v.cache[c]
                            /\ told[c] = IF c \in S \ R THEN asked[c] ELSE v.driver[c]
    BY <1>2 DEF Kept
  <1> HIDE DEF new, told, S
  <1>5. /\ w \in CtlState /\ w.isStreaming = v.isStreaming
        /\ w.cache = new /\ w.driver = told
    BY <1>3 DEF CtlState
  <1> HIDE DEF w
  <1> QED
    BY <1>1, <1>4, <1>5 DEF SetTo, S

LEMMA OrientationSets ==
  ASSUME NEW v \in CtlState, NEW w \in CtlState, NEW asked, NEW S, NEW R,
         SetTo(v, w, asked, S, R), NEW rotation \in Int
  PROVE  SetTo(v, SetOrientation(w, rotation), asked, S, R)
  <1> DEFINE new == [w.cache EXCEPT !["orientation"] = rotation]
  <1>1. CASE rotation < 0
    BY <1>1 DEF SetOrientation
  <1>2. CASE ~(rotation < 0)
    <2>1. w.cache \in [Kept -> Int] /\ "orientation" \in Kept /\ "orientation" \notin Controls
      BY DEF CtlState, Kept, Controls
    <2>2. new \in [Kept -> Int] /\ \A c \in Controls : new[c] = w.cache[c]
      BY <2>1 DEF Kept
    <2>3. SetOrientation(w, rotation) = [w EXCEPT !.cache = new]
      BY <1>2 DEF SetOrientation
    <2> HIDE DEF new
    <2>4. /\ [w EXCEPT !.cache = new] \in CtlState
          /\ [w EXCEPT !.cache = new].isStreaming = w.isStreaming
          /\ [w EXCEPT !.cache = new].cache = new
          /\ [w EXCEPT !.cache = new].driver = w.driver
      BY <2>2 DEF CtlState
    <2> QED
      BY <2>2, <2>3, <2>4 DEF SetTo
  <1> QED
    BY <1>1, <1>2

-----------------------------------------------------------------------------
(* The requests, and what setParameters and initDefaultParameters make of    *)
(* them. (The names are strings; no prover knows that.)                      *)
Names == STRING \cup {"auto", "fixed", "none"}

ParamType ==
  [formats : BOOLEAN, whiteBalance : Names, scene : Names, focus : Names,
   exposure : Int, zoom : Int, rotation : Int, fps : Int \X Int]

LEMMA RequestParams == Requests \subseteq ParamType
  BY DeviceAssumption DEF RequestType, ParamType, Names

LEMMA AskedType ==
  ASSUME NEW camera, NEW p \in ParamType
  PROVE  /\ DOMAIN Asked(camera, p) \subseteq Controls
         /\ \A c \in DOMAIN Asked(camera, p) :
              /\ Asked(camera, p)[c] \in Int
              /\ Valid(c, Asked(camera, p)[c]) => Asked(camera, p)[c] \in Values[c]
  <1>1. SettersOf(camera) \subseteq {"whiteBalance", "brightness", "sceneMode", "focusMode", "zoom"}
    BY DEF SettersOf
  <1>2. /\ WhiteBalance(p.whiteBalance) \in Int /\ SceneMode(p.scene) \in Int
        /\ FocusMode(FocusName(p)) \in {-1, 1, 2}
        /\ p.exposure + EV_DEFAULT \in Int /\ p.zoom \in Int
    BY DEF WhiteBalance, SceneMode, FocusMode, EV_DEFAULT, ParamType
  <1>3. ASSUME NEW c \in DOMAIN Asked(camera, p)
        PROVE  /\ c \in SettersOf(camera) /\ Known(p, c)
               /\ Asked(camera, p)[c] = Wanted(p)[c]
    BY <1>3 DEF Asked
  <1>4. ASSUME NEW c \in DOMAIN Asked(camera, p) PROVE Wanted(p)[c] \in Int
    BY <1>1, <1>2, <1>3, <1>4 DEF Wanted
  <1>5. ASSUME NEW c \in DOMAIN Asked(camera, p), Valid(c, Wanted(p)[c])
        PROVE  Wanted(p)[c] \in Values[c]
    <2>1. CASE c = "focusMode"
      <3>1. Wanted(p)["focusMode"] = FocusMode(FocusName(p)) /\ Wanted(p)["focusMode"] >= 0
        BY <1>3, <2>1 DEF Wanted, Known
      <3> QED
        BY <1>2, <2>1, <3>1 DEF Values
    <2>2. CASE c # "focusMode"
      BY <1>5, <2>2 DEF Valid
    <2> QED
      BY <2>1, <2>2
  <1> QED
    BY <1>1, <1>3, <1>4, <1>5 DEF Controls

(* What setParameters writes over a request does not change what it asks.    *)
LEMMA AskedAgain ==
  ASSUME NEW v, NEW camera, NEW p \in ParamType, NEW q \in ParamType, NEW R, p.formats
  PROVE  /\ ParametersAfter(v, camera, p, q, R) \in ParamType
         /\ Asked(camera, ParametersAfter(v, camera, p, q, R)) = Asked(camera, p)
  <1> DEFINE r == ParametersAfter(v, camera, p, q, R)
             focus == FocusMode(FocusName(p))
             fps == SceneFps(p.scene)
             named == IF focus >= 0 /\ SetterWorks(v, "focusMode", focus, R)
                      THEN FocusName(p) ELSE p.focus
  <1>1. fps \in Int \X Int /\ named \in {FocusName(p), p.focus}
    BY DEF SceneFps
  <1>2. FocusName(p) \in Names /\ (p.scene = "auto" => FocusName(p) = p.focus)
    BY DEF FocusName, ParamType, Names
  <1>3. r \in {p, [p EXCEPT !.fps = fps, !.focus = named]}
    BY DEF ParametersAfter
  <1> HIDE DEF r, fps, named
  <1>4. named \in Names
    BY <1>1, <1>2 DEF ParamType
  <1>5. /\ r \in ParamType /\ r.whiteBalance = p.whiteBalance /\ r.scene = p.scene
        /\ r.exposure = p.exposure /\ r.zoom = p.zoom /\ r.focus \in {p.focus, named}
    BY <1>1, <1>3, <1>4 DEF ParamType
  <1>6. FocusName(r) = FocusName(p)
    BY <1>1, <1>2, <1>5 DEF FocusName
  <1>7. Wanted(r) = Wanted(p)
    BY <1>5, <1>6 DEF Wanted
  <1>8. \A c : Known(r, c) = Known(p, c)
    BY <1>5, <1>7 DEF Known
  <1>9. Asked(camera, r) = Asked(camera, p)
    BY <1>7, <1>8 DEF Asked
  <1> QED
    BY <1>5, <1>9 DEF r

LEMMA ControlsAfterSets ==
  ASSUME NEW v \in CtlState, NEW camera, NEW p \in ParamType, NEW R
  PROVE  IF p.formats
         THEN SetTo(v, ControlsAfter(v, camera, p, R), Asked(camera, p),
                    Sent(v, Asked(camera, p)), R)
         ELSE ControlsAfter(v, camera, p, R) = v
  <1> DEFINE w == SetControls(v, Asked(camera, p), R)
  <1>1. SetTo(v, w, Asked(camera, p), Sent(v, Asked(camera, p)), R)
    BY AskedType, SetControlsSets
  <1>2. w \in CtlState
    BY <1>1 DEF SetTo
  <1>3. p.formats => ControlsAfter(v, camera, p, R) = SetOrientation(w, p.rotation)
    BY DEF ControlsAfter
  <1>4. p.rotation \in Int /\ p.formats \in BOOLEAN
    BY DEF ParamType
  <1> HIDE DEF w
  <1>5. SetTo(v, SetOrientation(w, p.rotation), Asked(camera, p), Sent(v, Asked(camera, p)), R)
    BY <1>1, <1>2, <1>4, OrientationSets
  <1> QED
    BY <1>3, <1>4, <1>5 DEF ControlsAfter

-----------------------------------------------------------------------------
(* Type correctness. A setter lets the enumerators of its control through,   *)
(* so that only they, or what was there first, are kept and sent.            *)
Enumerated(v) ==
  /\ \A c \in Controls : v.cache[c] \in Values[c] \cup {Constructed[c]}
  /\ \A c \in Controls : v.driver[c] \in Values[c] \cup {DriverDefaults[c]}

FocusState ==
  [pc : FocusPcs, exit : BOOLEAN, running : BOOLEAN, count : 0 .. FIRST_AF_SEARCH_COUNT,
   lens : {"default", "moved"}]

Types ==
  /\ service \in [camera : Cameras \cup {NoCamera},
                   call : {"none", "focus", "picture", "released"}]
  /\ ctl \in CtlState /\ Enumerated(ctl)
  /\ params \in ParamType
  /\ unsent \subseteq Controls
  /\ af \in FocusState
  /\ DOMAIN pic = {"pc", "shot", "photo"}
  /\ pic.pc \in PicturePcs

LEMMA SentEnumerated ==
  ASSUME NEW v \in CtlState, Enumerated(v), NEW camera, NEW p \in ParamType, NEW R,
         NEW w, SetTo(v, w, Asked(camera, p), Sent(v, Asked(camera, p)), R)
  PROVE  w \in CtlState /\ Enumerated(w)
  <1>1. ASSUME NEW c \in Sent(v, Asked(camera, p)) PROVE Asked(camera, p)[c] \in Values[c]
    BY <1>1, AskedType DEF Sent, Sends
  <1> QED
    BY <1>1 DEF SetTo, Enumerated

LEMMA ParametersEnumerated ==
  ASSUME NEW v \in CtlState, Enumerated(v), NEW camera, NEW p \in ParamType, NEW R
  PROVE  /\ ControlsAfter(v, camera, p, R) \in CtlState
         /\ Enumerated(ControlsAfter(v, camera, p, R))
  BY ControlsAfterSets, SentEnumerated

LEMMA UnsentType ==
  ASSUME NEW v, NEW camera, NEW p \in ParamType, NEW S, S \subseteq Controls, NEW R
  PROVE  Unsent(v, camera, p, S, R) \subseteq Controls
  BY AskedType DEF Unsent

LEMMA StartType ==
  /\ NoControls \in CtlState /\ Enumerated(NoControls)
  /\ \A camera : DefaultParameters(camera) \in ParamType /\ DefaultParameters(camera).formats
  /\ ~NoControls.isStreaming
  <1>1. Constructed \in [Kept -> Int]
    BY DEF Constructed, Kept, Controls
  <1>2. NoControls \in CtlState /\ ~NoControls.isStreaming
    BY <1>1, DeviceAssumption DEF NoControls, CtlState
  <1>3. Enumerated(NoControls)
    BY DEF NoControls, Enumerated
  <1>4. \A camera : DefaultParameters(camera) \in ParamType /\ DefaultParameters(camera).formats
    BY DEF DefaultParameters, ParamType, Names
  <1> QED
    BY <1>2, <1>3, <1>4

(* Nothing streams when a camera is made, so its controls stay as they are,  *)
(* but for the orientation.                                                  *)
LEMMA InitialSets ==
  ASSUME NEW camera
  PROVE  LET v == InitialControls(camera, DriverDefaults) IN
         /\ v \in CtlState /\ ~v.isStreaming /\ Enumerated(v)
         /\ \A c \in Controls :
              v.cache[c] = Constructed[c] /\ v.driver[c] = DriverDefaults[c]
  <1> DEFINE u == SetControls(NoControls, ExtraControls, {})
             p == DefaultParameters(camera)
             w == ControlsAfter(u, camera, p, {})
  <1>1. /\ DOMAIN ExtraControls \subseteq Controls
        /\ \A c \in DOMAIN ExtraControls : ExtraControls[c] \in Int
    BY DEF ExtraControls, Controls
  <1>2. Sent(NoControls, ExtraControls) = {}
    BY StartType DEF Sent, Sends
  <1>3. SetTo(NoControls, u, ExtraControls, {}, {})
    BY <1>1, <1>2, StartType, SetControlsSets
  <1> HIDE DEF u
  <1>4. /\ u \in CtlState /\ ~u.isStreaming
        /\ \A c \in Controls :
             u.cache[c] = Constructed[c] /\ u.driver[c] = DriverDefaults[c]
    BY <1>3, StartType DEF SetTo, NoControls
  <1>5. Sent(u, Asked(camera, p)) = {}
    BY <1>4 DEF Sent, Sends
  <1>6. SetTo(u, w, Asked(camera, p), {}, {})
    BY <1>4, <1>5, StartType, ControlsAfterSets
  <1>7. InitialControls(camera, DriverDefaults) = w
    BY DEF InitialControls, NoControls, u
  <1> HIDE DEF w, p
  <1> QED
    BY <1>4, <1>6, <1>7 DEF SetTo, Enumerated

LEMMA StreamingType ==
  ASSUME Types, NEW b \in BOOLEAN
  PROVE  /\ [ctl EXCEPT !.isStreaming = b] \in CtlState
         /\ Enumerated([ctl EXCEPT !.isStreaming = b])
         /\ [ctl EXCEPT !.isStreaming = b].cache = ctl.cache
         /\ [ctl EXCEPT !.isStreaming = b].driver = ctl.driver
         /\ [ctl EXCEPT !.isStreaming = b].isStreaming = b
  <1> DEFINE v == [ctl EXCEPT !.isStreaming = b]
  <1>1. v \in CtlState /\ v.cache = ctl.cache /\ v.driver = ctl.driver /\ v.isStreaming = b
    BY DEF Types, CtlState
  <1> HIDE DEF v
  <1>2. Enumerated(v)
    BY <1>1 DEF Types, Enumerated
  <1> QED
    BY <1>1, <1>2 DEF v

LEMMA FocusAssign ==
  ASSUME NEW q \in FocusState
  PROVE  /\ \A pc \in FocusPcs :
              /\ [q EXCEPT !.pc = pc] \in FocusState
              /\ [q EXCEPT !.exit = TRUE, !.pc = pc] \in FocusState
              /\ [q EXCEPT !.pc = pc, !.lens = "moved"] \in FocusState
              /\ \A b \in BOOLEAN :
                   [q EXCEPT !.pc = pc, !.running = b, !.count = 0] \in FocusState
         /\ [q EXCEPT !.lens = "default"] \in FocusState
         /\ \A n \in 0 .. FIRST_AF_SEARCH_COUNT : [q EXCEPT !.count = n] \in FocusState
  <1>1. 0 \in 0 .. FIRST_AF_SEARCH_COUNT
    BY DeviceAssumption
  <1> QED
    BY <1>1 DEF FocusState

LEMMA FocusFirst ==
  /\ FocusThread \in FocusState
  /\ [FocusThread EXCEPT !.pc = "done"] \in FocusState
  <1>1. 0 \in 0 .. FIRST_AF_SEARCH_COUNT
    BY DeviceAssumption
  <1> QED
    BY <1>1 DEF FocusState, FocusPcs, FocusThread

LEMMA InitTypes == Init => Types
  BY StartType, FocusFirst DEF Init, Types, NoPicture, PicturePcs

LEMMA CallTypes ==
  ASSUME Types, Call
  PROVE  Types'
  <1> USE DEF Types
  <1>1. ASSUME NEW camera \in Cameras, Open(camera) PROVE Types'
    <2> DEFINE v == InitialControls(camera, DriverDefaults)
               p == DefaultParameters(camera)
    <2>1. v \in CtlState /\ Enumerated(v)
      BY InitialSets
    <2>2. InitialParameters(camera, DriverDefaults) \in ParamType
      BY StartType, AskedAgain DEF InitialParameters
    <2>3. Unsent(v, camera, p, {}, {}) \subseteq Controls
      BY StartType, UnsentType
    <2> HIDE DEF v
    <2> QED
      BY <1>1, <2>1, <2>2, <2>3, FocusFirst DEF Open, v, NoPicture, PicturePcs
  <1>2. ASSUME NEW streaming \in BOOLEAN, SetStreaming(streaming) PROVE Types'
    BY <1>2, StreamingType DEF SetStreaming
  <1>3. ASSUME NEW p \in Requests, SetParameters(p) PROVE Types'
    <2>1. p \in ParamType
      BY RequestParams
    <2>2. PICK refused \in SUBSET Refusable :
            /\ ctl' = ControlsAfter(ctl, service.camera, p, refused)
            /\ params' = ParametersAfter(ctl, service.camera, p, params, refused)
            /\ unsent' = Unsent(ctl, service.camera, p, unsent, refused)
      BY <1>3 DEF SetParameters
    <2>3. params' \in ParamType
      <3>1. CASE p.formats
        BY <2>1, <2>2, <3>1, AskedAgain
      <3>2. CASE ~p.formats
        BY <2>2, <3>2 DEF ParametersAfter
      <3> QED
        BY <3>1, <3>2
    <2>4. ctl' \in CtlState /\ Enumerated(ctl')
      BY <2>1, <2>2, ParametersEnumerated
    <2>5. unsent' \subseteq Controls
      BY <2>1, <2>2, UnsentType
    <2> QED
      BY <1>3, <2>3, <2>4, <2>5 DEF SetParameters
  <1>4. CASE AutoFocus
    BY <1>4, FocusAssign DEF AutoFocus, FocusPcs
  <1>5. CASE CancelAutoFocus
    BY <1>5, FocusAssign DEF CancelAutoFocus
  <1>6. CASE TakePicture
    BY <1>6, StreamingType DEF TakePicture, PicturePcs
  <1>7. CASE Release
    <2>1. ctl' \in CtlState /\ Enumerated(ctl')
      BY <1>7, StreamingType DEF Release
    <2>2. af' \in FocusState
      <3>1. (IF af.pc = "wait" THEN "woken" ELSE af.pc) \in FocusPcs
        BY DEF FocusState, FocusPcs
      <3> QED
        BY <1>7, <3>1, FocusAssign DEF Release
    <2> QED
      BY <1>7, <2>1, <2>2 DEF Release
  <1>8. CASE Close
    BY <1>8, StartType, FocusFirst DEF Close, NoPicture, PicturePcs
  <1> QED
    BY <1>1, <1>2, <1>3, <1>4, <1>5, <1>6, <1>7, <1>8 DEF Call

LEMMA ThreadTypes ==
  ASSUME Types, Join \/ FocusStep \/ PictureStep
  PROVE  Types'
  <1> USE DEF Types
  <1>1. CASE Join
    BY <1>1 DEF Join, JoinFocus, JoinPicture
  <1>2. CASE FocusStep
    <2>1. ASSUME af' \in FocusState, UNCHANGED <<service, ctl, params, unsent, pic>>
          PROVE  Types'
      BY <2>1
    <2>0. Again \in FocusPcs
      BY DEF Again, FocusPcs
    <2>2. CASE FocusWait
      BY <2>1, <2>2, FocusAssign DEF FocusWait, FocusPcs
    <2>3. CASE FocusWoken
      BY <2>1, <2>3, FocusAssign DEF FocusWoken, FocusPcs
    <2>4. CASE FocusStart
      <3>1. \/ af' = [af EXCEPT !.pc = "started", !.lens = "moved"]
            \/ af' = [af EXCEPT !.pc = "started"]
            \/ af' = [af EXCEPT !.pc = Again]
        BY <2>4 DEF FocusStart
      <3>2. af' \in FocusState
        <4>1. "started" \in FocusPcs /\ Again \in FocusPcs
          BY <2>0 DEF FocusPcs
        <4>2. af \in FocusState
          OBVIOUS
        <4> HIDE DEF Types
        <4> QED
          BY <3>1, <4>1, <4>2, FocusAssign
      <3> QED
        BY <2>1, <2>4, <3>2 DEF FocusStart
    <2>5. CASE FocusStarted
      BY <2>1, <2>5, FocusAssign DEF FocusStarted, FocusPcs
    <2>6. CASE FocusProgress
      <3>1. af.count + 1 \in 0 .. FIRST_AF_SEARCH_COUNT
        BY <2>6, DeviceAssumption DEF FocusProgress, FocusState
      <3> QED
        BY <2>1, <2>6, <3>1, FocusAssign DEF FocusProgress
    <2>7. CASE FocusResult
      BY <2>1, <2>7, FocusAssign DEF FocusResult, FocusPcs
    <2>8. CASE FocusAnswer
      BY <2>0, <2>1, <2>8, FocusAssign DEF FocusAnswer
    <2> QED
      BY <1>2, <2>2, <2>3, <2>4, <2>5, <2>6, <2>7, <2>8 DEF FocusStep
  <1>3. CASE PictureStep
    <2>1. ASSUME DOMAIN pic' = DOMAIN pic, pic'.pc \in PicturePcs,
                 UNCHANGED <<service, ctl, params, unsent, af>>
          PROVE  Types'
      BY <2>1
    <2>3. CASE PictureGrab
      BY <2>1, <2>3 DEF PictureGrab, PicturePcs
    <2>4. CASE PictureTags
      BY <2>1, <2>4 DEF PictureTags, PicturePcs
    <2>5. CASE PictureDeliver
      BY <2>1, <2>5 DEF PictureDeliver, NoPicture, PicturePcs
    <2> QED
      BY <1>3, <2>3, <2>4, <2>5 DEF PictureStep
  <1> QED
    BY <1>1, <1>2, <1>3

LEMMA TypesAlways == Spec => []Types
  <1>1. Types /\ UNCHANGED vars => Types'
    BY DEF Types, vars
  <1>2. Types /\ [Next]_vars => Types'
    BY <1>1, CallTypes, ThreadTypes DEF Next
  <1> QED
    BY <1>2, InitTypes, PTL DEF Spec

(* Whatever a client asks for, and whatever the driver refuses: what the     *)
(* wrapper keeps of a control, and what the driver is sent, is one of the    *)
(* control's values, or the one it began with.                               *)
THEOREM TypeCorrect == Spec => []TypeOK
  <1>1. Types => TypeOK
    BY DEF Types, TypeOK, CtlState, Enumerated, FocusState
  <1> QED
    BY <1>1, TypesAlways, PTL

-----------------------------------------------------------------------------
(* What is reported. The driver starts with what V4L2Camera's constructor    *)
(* supposes; if it does not, a first request for such a value is skipped and *)
(* never reaches it.                                                         *)
DefaultsAgree == \A c \in Controls : DriverDefaults[c] = Constructed[c]

(* A setter skips a value that is kept already: that is right only as long   *)
(* as the driver has what is kept of every control whose last request        *)
(* reached it.                                                               *)
Follows(v, S) == \A c \in Controls \ S : v.driver[c] = v.cache[c]

CacheFollows == Follows(ctl, unsent)

Has(v, asked, S) == \A c \in DOMAIN asked \ S : v.driver[c] = asked[c]

(* After a request: of a control that is not unsent, the driver has both     *)
(* what is kept and, if the request asks for it, what it asks for.           *)
LEMMA RequestFollows ==
  ASSUME NEW v \in CtlState, NEW camera, NEW p \in ParamType, NEW R,
         NEW before, before \subseteq Controls, p.formats,
         Follows(v, before)
  PROVE  LET w == ControlsAfter(v, camera, p, R)
             asked == Asked(camera, p)
             after == Unsent(v, camera, p, before, R) IN
         Follows(w, after) /\ Has(w, asked, after)
  <1> DEFINE w == ControlsAfter(v, camera, p, R)
             asked == Asked(camera, p)
             after == Unsent(v, camera, p, before, R)
             S == Sent(v, asked)
             kept == {c \in DOMAIN asked : v.cache[c] = asked[c]}
  <1>1. SetTo(v, w, asked, S, R)
    BY ControlsAfterSets
  <1>2. DOMAIN asked \subseteq Controls
    BY AskedType
  <1>3. after = (before \ (S \ R)) \cup (DOMAIN asked \ ((S \ R) \cup kept))
    BY DEF Unsent, Sent
  <1>4. \A c \in S : v.cache[c] # asked[c]
    BY DEF Sent, Sends
  <1> HIDE DEF w, asked, after, S
  <1>5. \A c \in Controls \ after : c \in S \ R \/ (c \notin before /\ c \notin S)
    BY <1>3, <1>4 DEF S, Sent
  <1>6. \A c \in DOMAIN asked \ after : c \in S \ R \/ (c \notin before /\ v.cache[c] = asked[c])
    BY <1>3
  <1>7. Follows(w, after)
    BY <1>1, <1>5 DEF SetTo, Follows
  <1>8. Has(w, asked, after)
    BY <1>1, <1>2, <1>4, <1>6 DEF SetTo, Has, Follows
  <1> QED
    BY <1>7, <1>8 DEF w, asked, after

LEMMA FollowsStep ==
  ASSUME DefaultsAgree, Types, CacheFollows, ReportedIsApplied, [Next]_vars
  PROVE  CacheFollows' /\ ReportedIsApplied'
  <1> USE DEF Types
  <1>1. ASSUME UNCHANGED <<params, unsent, ctl.cache, ctl.driver, service.camera>>
        PROVE  CacheFollows' /\ ReportedIsApplied'
    BY <1>1 DEF CacheFollows, Follows, ReportedIsApplied
  <1>2. ASSUME NEW camera \in Cameras, Open(camera)
        PROVE  CacheFollows' /\ ReportedIsApplied'
    <2> DEFINE v == InitialControls(camera, DriverDefaults)
               p == DefaultParameters(camera)
               asked == Asked(camera, p)
    <2>1. /\ v \in CtlState /\ ~v.isStreaming
          /\ \A c \in Controls : v.driver[c] = v.cache[c]
      BY InitialSets DEF DefaultsAgree
    <2>2. p \in ParamType /\ p.formats /\ DOMAIN asked \subseteq Controls
      BY StartType, AskedType
    <2>3. Unsent(v, camera, p, {}, {}) = {c \in DOMAIN asked : v.cache[c] # asked[c]}
      BY <2>1, <2>2 DEF Unsent, Sends
    <2>4. Asked(camera, InitialParameters(camera, DriverDefaults)) = asked
      BY <2>2, AskedAgain DEF InitialParameters
    <2>5. /\ ctl' = v /\ unsent' = {c \in DOMAIN asked : v.cache[c] # asked[c]}
          /\ service'.camera = camera /\ Asked(camera, params') = asked
      BY <1>2, <2>3, <2>4 DEF Open
    <2> HIDE DEF v, p, asked
    <2> QED
      BY <2>1, <2>2, <2>5 DEF CacheFollows, Follows, ReportedIsApplied
  <1>3. ASSUME NEW b \in BOOLEAN, SetStreaming(b)
        PROVE  CacheFollows' /\ ReportedIsApplied'
    BY <1>1, <1>3, StreamingType DEF SetStreaming
  <1>4. ASSUME NEW p \in Requests, SetParameters(p)
        PROVE  CacheFollows' /\ ReportedIsApplied'
    <2>1. p \in ParamType
      BY RequestParams
    <2>2. PICK refused \in SUBSET Refusable :
            /\ ctl' = ControlsAfter(ctl, service.camera, p, refused)
            /\ params' = ParametersAfter(ctl, service.camera, p, params, refused)
            /\ unsent' = Unsent(ctl, service.camera, p, unsent, refused)
      BY <1>4 DEF SetParameters
    <2>3. service' = service
      BY <1>4 DEF SetParameters
    <2>4. CASE p.formats
      <3>1. Asked(service.camera, params') = Asked(service.camera, p)
        BY <2>1, <2>2, <2>4, AskedAgain
      <3>2. ctl \in CtlState /\ unsent \subseteq Controls /\ Follows(ctl, unsent)
        BY DEF CacheFollows
      <3>3. Follows(ctl', unsent') /\ Has(ctl', Asked(service.camera, p), unsent')
        BY <2>1, <2>2, <2>4, <3>2, RequestFollows
      <3> QED
        BY <2>3, <3>1, <3>3 DEF CacheFollows, ReportedIsApplied, Has
    <2>5. CASE ~p.formats
      BY <1>1, <2>1, <2>2, <2>3, <2>5, ControlsAfterSets DEF ParametersAfter, Unsent
    <2> QED
      BY <2>4, <2>5
  <1>5. CASE AutoFocus \/ CancelAutoFocus
    BY <1>1, <1>5 DEF AutoFocus, CancelAutoFocus
  <1>6. CASE TakePicture
    BY <1>1, <1>6, StreamingType DEF TakePicture
  <1>7. CASE Release
    BY <1>1, <1>7, StreamingType DEF Release
  <1>8. CASE Close
    <2>1. ctl' = NoControls /\ unsent' = {} /\ service'.camera = NoCamera
      BY <1>8 DEF Close
    <2> QED
      BY <2>1 DEF CacheFollows, Follows, ReportedIsApplied, NoControls, DefaultsAgree
  <1>9. CASE Join
    BY <1>1, <1>9 DEF Join, JoinFocus, JoinPicture
  <1>10. CASE FocusStep
    BY <1>1, <1>10 DEF FocusStep, FocusWait, FocusWoken, FocusStart, FocusStarted,
       FocusProgress, FocusResult, FocusAnswer
  <1>11. CASE PictureStep
    BY <1>1, <1>11 DEF PictureStep, PictureGrab, PictureTags, PictureDeliver
  <1>12. CASE UNCHANGED vars
    BY <1>1, <1>12 DEF vars
  <1> QED
    BY <1>2, <1>3, <1>4, <1>5, <1>6, <1>7, <1>8, <1>9, <1>10, <1>11, <1>12 DEF Next, Call

(* Whatever is asked for, refused or dropped, and through previews and       *)
(* pictures: what getParameters says of a control is what the driver has,    *)
(* unless the control's last request did not reach the driver.               *)
THEOREM ReportsFollow == ASSUME DefaultsAgree PROVE Spec => []ReportedIsApplied
  <1>1. Init => CacheFollows /\ ReportedIsApplied
    BY DEF Init, CacheFollows, Follows, ReportedIsApplied, NoControls, DefaultsAgree
  <1>2. Types /\ CacheFollows /\ ReportedIsApplied /\ [Next]_vars
          => CacheFollows' /\ ReportedIsApplied'
    BY FollowsStep
  <1> QED
    BY <1>1, <1>2, TypesAlways, PTL DEF Spec

-----------------------------------------------------------------------------
(* The tags of a picture. While one is taken nothing streams, so that the    *)
(* setters drop what they are asked for and the frame's controls are kept    *)
(* until CreateExif reads them.                                              *)
SameControls(f, g) == \A c \in Controls : f[c] = g[c]

TaggedAs(photo, shot) ==
  \E f : /\ SameControls(f, shot.cache)
         /\ \E s \in Shots : photo = ExifInfo(service.camera, f, s)

TagsFollow ==
  /\ pic.pc # "idle" => ~ctl.isStreaming
  /\ pic.pc \in {"tags", "deliver"} => pic.shot \in CtlState
  /\ pic.pc = "tags" => SameControls(ctl.cache, pic.shot.cache)
  /\ pic.pc = "deliver" => TaggedAs(pic.photo, pic.shot)
  /\ pic.pc # "deliver" => pic.photo = NoPhoto

(* The tags depend on the controls, and on the orientation by its own tag.   *)
LEMMA SameTags ==
  ASSUME NEW camera, NEW f, NEW g, NEW s, SameControls(f, g)
  PROVE  [ExifInfo(camera, f, s) EXCEPT !.orientation = 0]
           = [ExifInfo(camera, g, s) EXCEPT !.orientation = 0]
  <1>1. /\ f.metering = g.metering /\ f.whiteBalance = g.whiteBalance
        /\ f.saturation = g.saturation /\ f.sharpness = g.sharpness
        /\ f.iso = g.iso /\ f.brightness = g.brightness
        /\ f.sceneMode = g.sceneMode /\ f.contrast = g.contrast
    BY DEF SameControls, Controls
  <1>2. BackTags(f, s) = BackTags(g, s) /\ FrontTags(f) = FrontTags(g)
    BY <1>1 DEF BackTags, FrontTags, ControlTags
  <1> DEFINE contrast == IF camera = CAMERA_BF THEN LMH(f.contrast, 2) ELSE 0
             flash == ExifInfo(camera, f, s).flash
             tags == IF camera = CAMERA_BF THEN BackTags(f, s) ELSE FrontTags(f)
             Info(o) ==
               [orientation |-> o, contrast |-> contrast, flash |-> flash, tags |-> tags,
                overwritten |-> Overwritten(camera, s), length |-> Lengths(camera, s),
                hasGps |-> s.gps, hasThumbnail |-> s.thumbnail, thumbSize |-> 0]
  <1>3. /\ ExifInfo(camera, f, s) = Info(OrientationTag(f.orientation))
        /\ ExifInfo(camera, g, s) = Info(OrientationTag(g.orientation))
    BY <1>1, <1>2 DEF ExifInfo
  <1> HIDE DEF contrast, flash, tags
  <1>4. \A o : [Info(o) EXCEPT !.orientation = 0] = Info(0)
    OBVIOUS
  <1> QED
    BY <1>3, <1>4

LEMMA TagsStep ==
  ASSUME Types, TagsFollow, [Next]_vars
  PROVE  TagsFollow'
  <1> USE DEF Types
  <1>1. ASSUME UNCHANGED <<service.camera, pic>>, ctl'.isStreaming => ctl.isStreaming,
               ~ctl.isStreaming => SameControls(ctl'.cache, ctl.cache)
        PROVE  TagsFollow'
    BY <1>1 DEF TagsFollow, TaggedAs, SameControls
  <1>2. ASSUME pic' = NoPicture PROVE TagsFollow'
    BY <1>2 DEF NoPicture, TagsFollow
  <1>3. ASSUME NEW b \in BOOLEAN, SetStreaming(b) PROVE TagsFollow'
    BY <1>3 DEF SetStreaming, TagsFollow
  <1>4. ASSUME NEW p \in Requests, SetParameters(p) PROVE TagsFollow'
    <2>1. p \in ParamType
      BY RequestParams
    <2>2. PICK refused : ctl' = ControlsAfter(ctl, service.camera, p, refused)
      BY <1>4 DEF SetParameters
    <2>3. ~ctl.isStreaming => Sent(ctl, Asked(service.camera, p)) = {}
      BY DEF Sent, Sends
    <2>4. /\ ctl'.isStreaming = ctl.isStreaming
          /\ ~ctl.isStreaming => SameControls(ctl'.cache, ctl.cache)
      <3>1. ctl \in CtlState
        OBVIOUS
      <3>2. CASE p.formats
        <4>1. SetTo(ctl, ctl', Asked(service.camera, p), Sent(ctl, Asked(service.camera, p)),
                    refused)
          BY <2>1, <2>2, <3>1, <3>2, ControlsAfterSets
        <4> QED
          BY <2>3, <4>1 DEF SetTo, SameControls
      <3>3. CASE ~p.formats
        BY <2>2, <3>3 DEF ControlsAfter, SameControls
      <3> QED
        BY <3>2, <3>3
    <2> QED
      BY <1>1, <1>4, <2>4 DEF SetParameters
  <1>5. CASE AutoFocus \/ CancelAutoFocus
    BY <1>1, <1>5 DEF AutoFocus, CancelAutoFocus, SameControls
  <1>6. CASE TakePicture
    BY <1>6, StreamingType DEF TakePicture, TagsFollow
  <1>7. CASE Release
    BY <1>1, <1>7, StreamingType DEF Release, SameControls
  <1>8. CASE Join
    BY <1>1, <1>8 DEF Join, JoinFocus, JoinPicture, SameControls
  <1>9. CASE FocusStep
    BY <1>1, <1>9 DEF FocusStep, FocusWait, FocusWoken, FocusStart, FocusStarted,
       FocusProgress, FocusResult, FocusAnswer, SameControls
  <1>10. CASE PictureGrab
    <2>1. ~ctl.isStreaming /\ pic.photo = NoPhoto /\ ctl' = ctl
      BY <1>10 DEF PictureGrab, TagsFollow
    <2>2. CASE pic' = [pic EXCEPT !.pc = "tags", !.shot = ctl]
      <3>1. pic'.pc = "tags" /\ pic'.shot = ctl /\ pic'.photo = NoPhoto
        BY <2>1, <2>2
      <3> QED
        BY <2>1, <3>1 DEF TagsFollow, SameControls
    <2>3. CASE pic' = [pic EXCEPT !.pc = "idle"]
      <3>1. pic'.pc = "idle" /\ pic'.photo = NoPhoto
        BY <2>1, <2>3
      <3> QED
        BY <3>1 DEF TagsFollow
    <2> QED
      BY <1>10, <2>2, <2>3 DEF PictureGrab
  <1>11. CASE PictureTags
    <2>1. PICK s \in Shots :
            pic' = [pic EXCEPT !.pc = "deliver",
                               !.photo = ExifInfo(service.camera, ctl.cache, s)]
      BY <1>11 DEF PictureTags
    <2>2. /\ pic'.pc = "deliver" /\ pic'.shot = pic.shot
          /\ pic'.photo = ExifInfo(service.camera, ctl.cache, s)
      BY <2>1
    <2>3. TaggedAs(pic.photo, pic.shot)'
      BY <1>11, <2>2 DEF PictureTags, TagsFollow, TaggedAs
    <2> QED
      BY <1>11, <2>2, <2>3 DEF PictureTags, TagsFollow
  <1>12. CASE UNCHANGED vars
    BY <1>1, <1>12 DEF vars, SameControls
  <1> QED
    BY <1>2, <1>3, <1>4, <1>5, <1>6, <1>7, <1>8, <1>9, <1>10, <1>11, <1>12
       DEF Next, Call, Open, Close, PictureStep, PictureDeliver

(* For any pictures, requests and refusals: the tags of a picture, read from *)
(* the wrapper after its frame was taken, tell with which controls the       *)
(* driver took it, if it had what the wrapper kept.                          *)
THEOREM TagsAreOfTheShot == Spec => []TagsOfTheShot
  <1>1. Init => TagsFollow
    BY DEF Init, NoPicture, TagsFollow
  <1>2. TagsFollow => TagsOfTheShot
    <2> SUFFICES ASSUME TagsFollow, pic.photo # NoPhoto,
                        \A c \in Controls : pic.shot.driver[c] = pic.shot.cache[c]
                 PROVE  \E s \in Shots :
                          [pic.photo EXCEPT !.orientation = 0]
                            = [ExifInfo(service.camera, Applied(pic.shot), s)
                                 EXCEPT !.orientation = 0]
      BY DEF TagsOfTheShot
    <2>1. pic.shot \in CtlState /\ TaggedAs(pic.photo, pic.shot)
      BY DEF TagsFollow
    <2>2. PICK f : /\ SameControls(f, pic.shot.cache)
                   /\ \E s \in Shots : pic.photo = ExifInfo(service.camera, f, s)
      BY <2>1 DEF TaggedAs
    <2>3. PICK s \in Shots : pic.photo = ExifInfo(service.camera, f, s)
      BY <2>2
    <2>4. SameControls(f, Applied(pic.shot))
      BY <2>1, <2>2 DEF SameControls, Applied, CtlState, Kept
    <2> QED
      BY <2>3, <2>4, SameTags
  <1>3. Types /\ TagsFollow /\ [Next]_vars => TagsFollow'
    BY TagsStep
  <1> QED
    BY <1>1, <1>2, <1>3, TypesAlways, PTL DEF Spec

=============================================================================
