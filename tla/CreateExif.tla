------------------------------ MODULE CreateExif ------------------------------
(* What CameraHardware::CreateExif (src/libcamera/CameraHardware.cpp) tells *)
(* ExifCreator about a picture. It is a function of the camera, of what     *)
(* V4L2Camera remembers of its controls, and of the circumstances of the    *)
(* shot, which are a record:                                                *)
(*   time       whether localtime worked                                    *)
(*   version    the characters of the driver's version, 18 to 22            *)
(*   sv         the band of the driver's sensitivity, 1 to 31               *)
(*   fired      the driver's flash flag                                     *)
(*   gps        whether the parameters have a position                      *)
(* and what mThumbnailWidth and mThumbnailHeight, mPreviousFlashMode,       *)
(* mPreviousGPSProcessingMethod and m_gps_date happen to hold, which no     *)
(* code assigns:                                                            *)
(*   thumbnail, flashMode, method, datestamp                                *)
EXTENDS Integers, Sequences

CAMERA_BF == 0
CAMERA_FF == 1

(* convertToExifLMH                                                         *)
LMH(value, key) == IF value = key THEN 0 ELSE IF value < key THEN 1 ELSE 2

(* The orientation tag for a rotation.                                      *)
OrientationTag(rotation) == CASE rotation = 90 -> 6
                              [] rotation = 180 -> 3
                              [] rotation = 270 -> 8
                              [] OTHER -> 1

(* tempISO by the band of the driver's sensitivity.                         *)
tempISO == <<0, 10, 12, 16, 20, 25, 32, 40, 50, 64, 80, 100, 125, 160, 200, 250,
             320, 400, 500, 640, 800, 1000, 1250, 160, 2000, 2500, 3200, 4000,
             5000, 6400, 8000>>

(* The exposure bias, in tenths, for getBrightness().                       *)
ExposureBias(brightness) == IF brightness \in 0 .. 8 THEN 5 * (brightness - 4) ELSE 0

(* The sensitivity for getISO().                                            *)
SpeedRating(iso, sv) == CASE iso = 2 -> 50
                          [] iso = 3 -> 100
                          [] iso = 4 -> 200
                          [] iso = 5 -> 400
                          [] iso = 6 -> 800
                          [] OTHER -> tempISO[sv]

(* The tags of a picture taken with the controls, no scene being set.       *)
ControlTags(ctl, sv) ==
  [meteringMode |-> ctl.metering, whiteBalance |-> IF ctl.whiteBalance <= 1 THEN 0 ELSE 1,
   saturation |-> LMH(ctl.saturation, 2), sharpness |-> LMH(ctl.sharpness, 2),
   isoSpeedRating |-> SpeedRating(ctl.iso, sv),
   exposureBias |-> <<ExposureBias(ctl.brightness), 10>>, sceneCaptureType |-> 0]

(* Those of a scene, one row for a mode: metering, white balance,           *)
(* saturation, sharpness, sensitivity, bias and type of scene.              *)
SceneRow(mode, flashMode, sv) ==
  CASE mode \in {3, 4, 5} -> <<2, 1, 0, 0, tempISO[sv], 0, 4>>   \* sunset, dawn, candlelight
    [] mode = 6  -> <<2, 0, 2, 0, 50, 10, 1>>                    \* beach & snow
    [] mode = 7  -> <<IF flashMode <= 1 THEN 3 ELSE 2, 0, 0, 0, tempISO[sv], 0, 4>>
    [] mode = 8  -> <<2, 0, 0, 2, tempISO[sv], 0, 4>>            \* text
    [] mode = 9  -> <<2, 0, 0, 0, tempISO[sv], 0, 3>>            \* night
    [] mode = 10 -> <<5, 0, 2, 2, tempISO[sv], 0, 1>>            \* landscape
    [] mode = 11 -> <<2, 0, 0, 0, 50, 0, 4>>                     \* fireworks
    [] mode = 12 -> <<2, 0, 0, 1, tempISO[sv], 0, 2>>            \* portrait
    [] mode = 13 -> <<2, 0, 2, 0, tempISO[sv], 0, 4>>            \* fall colour
    [] mode = 14 -> <<2, 0, 2, 0, 200, 0, 4>>                    \* indoors
    [] mode = 15 -> <<2, 0, 0, 0, tempISO[sv], 0, 4>>            \* sports

(* A mode without a row leaves what memset left.                            *)
SceneTags(mode, flashMode, sv) ==
  IF mode \notin 3 .. 15
  THEN [meteringMode |-> 0, whiteBalance |-> 0, saturation |-> 0, sharpness |-> 0,
        isoSpeedRating |-> 0, exposureBias |-> <<0, 0>>, sceneCaptureType |-> 0]
  ELSE LET row == SceneRow(mode, flashMode, sv) IN
       [meteringMode |-> row[1], whiteBalance |-> row[2], saturation |-> row[3],
        sharpness |-> row[4], isoSpeedRating |-> row[5],
        exposureBias |-> <<row[6], 10>>, sceneCaptureType |-> row[7]]

(* The tags of the back camera.                                             *)
BackTags(ctl, shot) ==
  IF ctl.sceneMode <= 1 THEN ControlTags(ctl, shot.sv)
  ELSE SceneTags(ctl.sceneMode, shot.flashMode, shot.sv)

(* Those of the front camera.                                               *)
FrontTags(ctl) ==
  [meteringMode |-> ctl.metering, whiteBalance |-> 0, saturation |-> 0, sharpness |-> 0,
   isoSpeedRating |-> 100, exposureBias |-> <<ExposureBias(ctl.brightness), 10>>,
   sceneCaptureType |-> 0]

(* ExifInfoStructure. The back camera's version is written to an array of   *)
(* SOFTWARE_VERSION_LENGTH bytes, after the sizes and the times that lie    *)
(* behind it: all up to the end of the string is the string's.              *)
FieldAt == [software |-> 42, imageWidth |-> 48, imageHeight |-> 52,
            pixelXDimension |-> 56, pixelYDimension |-> 60, dateTimeOriginal |-> 64]

Overwritten(cam, shot) ==
  IF cam = CAMERA_FF THEN {}
  ELSE {f \in DOMAIN FieldAt \ {"software"} : FieldAt[f] <= FieldAt.software + shot.version}

(* The strings, by length. "%4d:%02d:%02d %02d:%02d:%02d" has 19 characters *)
Lengths(cam, shot) ==
  LET date == IF shot.time THEN 19 ELSE 0 IN
  [maker |-> 7, model |-> 6, software |-> IF cam = CAMERA_BF THEN shot.version ELSE 0,
   dateTime |-> date, dateTimeDigitized |-> date,
   dateTimeOriginal |-> IF "dateTimeOriginal" \in Overwritten(cam, shot) THEN 0 ELSE date,
   latitudeRef |-> IF shot.gps THEN 1 ELSE 0, longitudeRef |-> IF shot.gps THEN 1 ELSE 0,
   processingMethod |-> IF shot.gps THEN shot.method ELSE 0,
   datestamp |-> IF shot.gps THEN shot.datestamp ELSE 0]

(* pictureThread passes no thumbnail, so its size is 0 even where the       *)
(* fields of its dimensions make CreateExif announce one.                   *)
ExifInfo(cam, ctl, shot) ==
  [orientation |-> OrientationTag(ctl.orientation),
   contrast |-> IF cam = CAMERA_BF THEN LMH(ctl.contrast, 2) ELSE 0,
   flash |-> IF cam = CAMERA_BF THEN [fired |-> shot.fired, auto |-> shot.flashMode = 3]
             ELSE [fired |-> FALSE, auto |-> FALSE],
   tags |-> IF cam = CAMERA_BF THEN BackTags(ctl, shot) ELSE FrontTags(ctl),
   overwritten |-> Overwritten(cam, shot), length |-> Lengths(cam, shot),
   hasGps |-> shot.gps, hasThumbnail |-> shot.thumbnail, thumbSize |-> 0]

=============================================================================
