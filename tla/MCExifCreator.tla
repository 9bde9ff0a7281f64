---------------------------- MODULE MCExifCreator ----------------------------
(* Calls of ExifCreator for TLC: what CreateExif makes of a few shots of    *)
(* both cameras, and the same with thumbnails, without the APP1 marker and  *)
(* by the other entry, which the class offers and nothing here calls.       *)
EXTENDS ExifCreator

CONSTANT Thumbnails   \* sizes of thumbnails, in bytes

CE == INSTANCE CreateExif

MCControls == [metering |-> 2, whiteBalance |-> 1, saturation |-> 2, sharpness |-> 2,
               contrast |-> 2, iso |-> 0, brightness |-> 5, sceneMode |-> 1,
               orientation |-> 0]

MCShots == [time : BOOLEAN, version : {18, 22}, sv : {12}, fired : {FALSE},
            gps : BOOLEAN, thumbnail : BOOLEAN, flashMode : {1},
            method : {0, 141, 149}, datestamp : {10}]

InfoOf(cam, shot) ==
  LET e == CE!ExifInfo(cam, MCControls, shot) IN
  [gpsEntry |-> FALSE, flag |-> TRUE, hasGps |-> e.hasGps,
   hasThumbnail |-> e.hasThumbnail, thumbSize |-> e.thumbSize, length |-> e.length]

PictureInfos == {InfoOf(cam, shot) : cam \in {0, 1}, shot \in MCShots}

OtherInfos ==
  {[i EXCEPT !.gpsEntry = g, !.flag = f, !.thumbSize = n] :
     i \in {InfoOf(0, shot) : shot \in {s \in MCShots : s.time /\ s.method = 0}},
     g \in BOOLEAN, f \in BOOLEAN, n \in Thumbnails}

MCInfos == PictureInfos \cup {i \in OtherInfos : i.gpsEntry => i.flag}
=============================================================================
