--------------------------- MODULE MCCameraDevice ---------------------------
(* Requests and pictures for TLC. The driver starts with what V4L2Camera's  *)
(* constructor supposes.                                                    *)
EXTENDS CameraDevice

MCDriverDefaults == [c \in Controls |-> Constructed[c]]

Request(scene, focus, balance, exposure, zoom) ==
  [formats |-> TRUE, whiteBalance |-> balance, scene |-> scene, focus |-> focus,
   exposure |-> exposure, zoom |-> zoom, rotation |-> 90, fps |-> <<7000, 30000>>]

(* The automatic scene, a scene with its own focus mode and frame rates,    *)
(* names the camera does not know, values out of range, another rotation    *)
(* and another format.                                                      *)
MCRequests ==
  {Request("auto", "fixed", "auto", 0, 0),
   Request("night", "facedetection", "daylight", 4, 1),
   Request("auto", "facedetection", "shade", -4, 13),
   [Request("action", "macro", "cloudy-daylight", 5, 31) EXCEPT !.rotation = -1],
   [Request("auto", "fixed", "incandescent", 0, 0) EXCEPT !.formats = FALSE]}

MCShots == {[time |-> TRUE, version |-> 18, sv |-> 12, fired |-> TRUE, gps |-> FALSE,
             thumbnail |-> FALSE, flashMode |-> 1, method |-> 0, datestamp |-> 0]}
=============================================================================
