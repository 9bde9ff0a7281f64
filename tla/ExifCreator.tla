----------------------------- MODULE ExifCreator -----------------------------
(* The writer of a picture's Exif data (src/libcamera/ExifCreator.cpp). It  *)
(* lays out a TIFF file of directories in one pass: the entries of a        *)
(* directory go where pCurBuff points, in the block reserved for them, and  *)
(* what does not fit into an entry goes to offset, the end of the file so   *)
(* far. The blocks are reserved from numbers the header file states, one    *)
(* call writes one entry, and nothing checks that the two agree. Positions  *)
(* count from the TIFF header, which follows the ten bytes of the APP1      *)
(* header; contents are left out, lengths and pointers are not.             *)
EXTENDS Integers, Sequences, FiniteSets

CONSTANT Infos   \* what pSetExifInfo may point to, and how it is called

IFDs == {"0th", "Exif", "GPS", "1st"}

(* The strings of ExifInfoStructure, by their lengths.                      *)
Strings == {"maker", "model", "software", "dateTime", "dateTimeOriginal",
            "dateTimeDigitized", "latitudeRef", "longitudeRef",
            "processingMethod", "datestamp"}

InfoType == [gpsEntry : BOOLEAN, flag : BOOLEAN, hasGps : BOOLEAN,
             hasThumbnail : BOOLEAN, thumbSize : Nat, length : [Strings -> Nat]]

ASSUME InfosAssumption == Infos \subseteq InfoType

VARIABLES
  info,      \* the parameters of the call
  todo,      \* the writes to come
  pCurBuff,  \* for each directory where its next entry goes
  offset,    \* the end of the file so far
  entries,   \* the entries written
  written,   \* the bytes written, as areas, and what they are for
  result     \* what ExifCreate returns, and the length in the APP1 header

vars == <<info, todo, pCurBuff, offset, entries, written, result>>

NoResult == [size |-> -1, appLength |-> -1]

-----------------------------------------------------------------------------
(* Sizes and numbers of ExifCreator.h.                                      *)

TAG_SIZE == 12
NUMBER_SIZE == 2
OFFSET_SIZE == 4
APP1_SIZE == 10

NUM_0TH_IFD == 10
NUM_GPS_IDF == 10
NUM_1TH_IFD == 10

(* Mutant. The entry of the flashpix version is counted but not written.    *)
NUM_EXIF_IFDWithDisabled == 26

NUM_EXIF_IFD == 25

(* The bytes of a value of each type.                                       *)
Width(type) == CASE type \in {"BYTE", "ASCII", "UNDEFINED"} -> 1
                 [] type = "SHORT" -> 2
                 [] type = "LONG" -> 4
                 [] OTHER -> 8

(* __ExifGetASCIILength counts the NUL.                                     *)
ASCIILength(n) == n + 1

-----------------------------------------------------------------------------
(* The writes of a call, in their order. A tag says with which function it  *)
(* is written, into which directory, under which number and how many values *)
(* it has.                                                                  *)

Tag(write, ifd, id, count) ==
  [write |-> write, ifd |-> ifd, id |-> id, count |-> count]

Short(ifd, id) == Tag("SHORTTag", ifd, id, 1)
Long(ifd, id) == Tag("LONGTag", ifd, id, 1)
Rational(ifd, id) == Tag("RATIONALTag", ifd, id, 1)
SRational(ifd, id) == Tag("SRATIONALTag", ifd, id, 1)
Ascii(ifd, id, n) == Tag("ASCIITag", ifd, id, ASCIILength(n))
Undefined(ifd, id, count) == Tag("UNDEFINEDTag", ifd, id, count)

Directory(ifd, n) == Tag("IFD", ifd, 0, n)
NextIFD(ifd, id) == Tag("NextIFD", ifd, id, 1)

(* 1 to 16: how the picture was taken.                                      *)
ExifIFDShot(s) ==
  << Directory("Exif", NUM_EXIF_IFD),
     Rational("Exif", \h829A), Rational("Exif", \h829D),
     Short("Exif", \h8822), Short("Exif", \h8827),
     Undefined("Exif", \h9000, 4),
     Ascii("Exif", \h9003, s["dateTimeOriginal"]),
     Ascii("Exif", \h9004, s["dateTimeDigitized"]),
     Undefined("Exif", \h9101, 4),
     SRational("Exif", \h9201), Rational("Exif", \h9202),
     SRational("Exif", \h9203), SRational("Exif", \h9204),
     Rational("Exif", \h9205), Short("Exif", \h9207),
     Short("Exif", \h9209), Rational("Exif", \h920A) >>

(* 18 to 28: the picture itself. Those under #if 0 are not written.         *)
ExifIFDPicture ==
  << Short("Exif", \hA001), Long("Exif", \hA002), Long("Exif", \hA003),
     Short("Exif", \hA402), Short("Exif", \hA403), Short("Exif", \hA406),
     Short("Exif", \hA408), Short("Exif", \hA409), Short("Exif", \hA40A) >>

(* __ExifWriteGPDIFD puts eight bytes before the processing method, in the  *)
(* array that holds it. The array has 150 bytes, and what does not fit runs *)
(* into the date stamp behind it.                                           *)
PREFIX_SIZE == 8
METHOD_SIZE == 150
DatestampLength(s) ==
  IF s["processingMethod"] + 1 + PREFIX_SIZE > METHOD_SIZE
  THEN s["processingMethod"] + PREFIX_SIZE - METHOD_SIZE
  ELSE s["datestamp"]

GPSIFD(s) ==
  << Directory("GPS", NUM_GPS_IDF),
     Tag("BYTESTag", "GPS", 0, 4),
     Ascii("GPS", 1, s["latitudeRef"]), Tag("GPSInfoTag", "GPS", 2, 3),
     Ascii("GPS", 3, s["longitudeRef"]), Tag("GPSInfoTag", "GPS", 4, 3),
     Tag("BYTESTag", "GPS", 5, 1), Tag("GPSInfoTag", "GPS", 6, 1),
     Tag("GPSInfoTag", "GPS", 7, 3),
     Undefined("GPS", \h1B, ASCIILength(s["processingMethod"]) + PREFIX_SIZE),
     Ascii("GPS", \h1D, DatestampLength(s)) >>

(* __ExifWriteIFDTag: the entry that points to a directory, then the        *)
(* directory.                                                               *)
IFDTag(ifd, id, directory) == << Tag("IFDTag", ifd, id, 1) >> \o directory

ExifIFD(s) == ExifIFDShot(s) \o ExifIFDPicture

-----------------------------------------------------------------------------
(* __ExifCreate_wo_GPS. Despite its name it writes the GPS directory.       *)

ZerothIFD_wo_GPS(i) ==
  LET s == i.length IN
  << Directory("0th", NUM_0TH_IFD + (IF i.hasGps THEN 1 ELSE 0)),
     Ascii("0th", \h010F, s["maker"]), Ascii("0th", \h0110, s["model"]),
     Short("0th", \h0112), Ascii("0th", \h0131, s["software"]) >>
  \o (IF i.flag THEN << >> ELSE << Tag("padd", "0th", 0, 1) >>)
  \o << Ascii("0th", \h0132, s["dateTime"]), Short("0th", \h0213),
        Rational("0th", \h011A), Rational("0th", \h011B), Short("0th", \h0128) >>
  \o IFDTag("0th", \h8769, ExifIFD(s))
  \o (IF i.hasGps THEN IFDTag("0th", \h8825, GPSIFD(s)) ELSE << >>)

FirstIFD_wo_GPS(i) ==
  IF ~i.hasThumbnail THEN << NextIFD("0th", 0) >>
  ELSE << NextIFD("0th", 1), Directory("1st", NUM_1TH_IFD),
          Long("1st", \h0100), Long("1st", \h0101), Short("1st", \h0103),
          Short("1st", \h0112), Rational("1st", \h011A), Rational("1st", \h011B),
          Short("1st", \h0128), Tag("JFIF", "1st", \h0201, 1),
          Long("1st", \h0202), Short("1st", \h0213), NextIFD("1st", 0) >>
       \o (IF i.flag THEN << Tag("thumbnail", "1st", 0, i.thumbSize) >> ELSE << >>)

(* __ExifCreate, for callers that do not choose the flag.                   *)

ZerothIFD(i) ==
  LET s == i.length IN
  << Directory("0th", NUM_0TH_IFD + (IF i.hasGps THEN 1 ELSE 0)),
     Ascii("0th", \h010F, s["maker"]), Ascii("0th", \h0110, s["model"]),
     Short("0th", \h0112), Ascii("0th", \h0131, s["software"]),
     Ascii("0th", \h0132, s["dateTime"]), Short("0th", \h0213),
     Rational("0th", \h011A), Rational("0th", \h011B), Short("0th", \h0128) >>
  \o IFDTag("0th", \h8769, ExifIFD(s))
  \o (IF i.hasGps THEN IFDTag("0th", \h8825, GPSIFD(s)) ELSE << >>)

FirstIFD(i) ==
  IF ~i.hasThumbnail THEN << NextIFD("0th", 0) >>
  ELSE << NextIFD("0th", 1), Directory("1st", NUM_1TH_IFD),
          Long("1st", \h0100), Long("1st", \h0101), Short("1st", \h0103),
          Short("1st", \h0112), Rational("1st", \h011A), Rational("1st", \h011B),
          Short("1st", \h0128), Tag("JFIF", "1st", \h0201, 1),
          Long("1st", \h0202), Short("1st", \h0213), NextIFD("1st", 0),
          Tag("thumbnail", "1st", 0, i.thumbSize) >>

Writes(i) == IF i.gpsEntry THEN ZerothIFD(i) \o FirstIFD(i)
             ELSE ZerothIFD_wo_GPS(i) \o FirstIFD_wo_GPS(i)

-----------------------------------------------------------------------------
(* Writing.                                                                 *)

Area(what, ifd, id, at, len) ==
  [what |-> what, ifd |-> ifd, id |-> id, at |-> at, len |-> len]

End(a) == a.at + a.len

Next1(write) == todo # << >> /\ Head(todo).write = write /\ todo' = Tail(todo)

Init ==
  /\ info \in Infos
  /\ todo = Writes(info)
  /\ pCurBuff = [d \in IFDs |-> 0]
  /\ offset = 8
  /\ entries = {}
  /\ written = {Area("APP1", "0th", 0, -APP1_SIZE, APP1_SIZE),
                Area("TIFF", "0th", 0, 0, 8)}
  /\ result = NoResult

(* The twelve bytes of an entry: number, type, how many values, and these   *)
(* or where they are. "is" tells the two apart.                             *)
Entry(t, type, is, value) ==
  /\ entries' = entries \cup
       {[ifd |-> t.ifd, id |-> t.id, type |-> type, count |-> t.count,
         is |-> is, value |-> value]}
  /\ pCurBuff' = [pCurBuff EXCEPT ![t.ifd] = @ + TAG_SIZE]
  /\ UNCHANGED <<info, result>>

EntryArea(t) == Area("entry", t.ifd, t.id, pCurBuff[t.ifd], TAG_SIZE)

(* An entry whose values fit.                                               *)
Inline(t, type, is, value) ==
  /\ Entry(t, type, is, value)
  /\ written' = written \cup {EntryArea(t)}
  /\ UNCHANGED offset

(* Mutant. The entry points behind its values.                              *)
OutOfLineBehind(t, type) ==
  LET len == Width(type) * t.count IN
  /\ Entry(t, type, "offset", offset + len)
  /\ written' = written \cup {EntryArea(t), Area("value", t.ifd, t.id, offset, len)}
  /\ offset' = offset + len

(* An entry whose values go to the end of the file.                         *)
OutOfLine(t, type) ==
  LET len == Width(type) * t.count IN
  /\ Entry(t, type, "offset", offset)
  /\ written' = written \cup {EntryArea(t), Area("value", t.ifd, t.id, offset, len)}
  /\ offset' = offset + len

(* Mutant. The block has no room for the offset of the next directory.      *)
BeginIFDWithoutLink ==
  LET t == Head(todo) IN
  /\ Next1("IFD")
  /\ written' = written \cup {Area("number", t.ifd, t.count, offset, NUMBER_SIZE)}
  /\ pCurBuff' = [pCurBuff EXCEPT ![t.ifd] = offset + NUMBER_SIZE]
  /\ offset' = offset + NUMBER_SIZE + t.count * TAG_SIZE
  /\ UNCHANGED <<info, entries, result>>

(* A directory's number of entries, and the block for these and for the     *)
(* offset of the next directory.                                            *)
BeginIFD ==
  LET t == Head(todo) IN
  /\ Next1("IFD")
  /\ written' = written \cup {Area("number", t.ifd, t.count, offset, NUMBER_SIZE)}
  /\ pCurBuff' = [pCurBuff EXCEPT ![t.ifd] = offset + NUMBER_SIZE]
  /\ offset' = offset + NUMBER_SIZE + t.count * TAG_SIZE + OFFSET_SIZE
  /\ UNCHANGED <<info, entries, result>>

WriteSHORTTag == Next1("SHORTTag") /\ Inline(Head(todo), "SHORT", "value", 0)

WriteLONGTag == Next1("LONGTag") /\ Inline(Head(todo), "LONG", "value", 0)

(* The LONG tags that hold positions: those of a directory to come, and of  *)
(* the thumbnail.                                                           *)
WriteIFDTag == Next1("IFDTag") /\ Inline(Head(todo), "LONG", "offset", offset)

WriteJFIFTag == Next1("JFIF") /\ Inline(Head(todo), "LONG", "offset", offset)

WriteRATIONALTag == Next1("RATIONALTag") /\ OutOfLine(Head(todo), "RATIONAL")

WriteSRATIONALTag == Next1("SRATIONALTag") /\ OutOfLine(Head(todo), "SRATIONAL")

(* One or three rationals.                                                  *)
WriteGPSInfoTag == Next1("GPSInfoTag") /\ OutOfLine(Head(todo), "RATIONAL")

(* Up to four bytes fit into the entry.                                     *)
Counted(write, type) ==
  /\ Next1(write)
  /\ IF Head(todo).count <= 4 THEN Inline(Head(todo), type, "value", 0)
                              ELSE OutOfLine(Head(todo), type)

WriteBYTESTag == Counted("BYTESTag", "BYTE")

WriteASCIITag == Counted("ASCIITag", "ASCII")

WriteUNDEFINEDTag == Counted("UNDEFINEDTag", "UNDEFINED")

(* Where the next directory is, behind the entries of this one; 0 if there  *)
(* is none. The Exif and GPS directories get none written.                  *)
WriteNextIFD ==
  LET t == Head(todo) IN
  /\ Next1("NextIFD")
  /\ written' = written \cup {Area("next", t.ifd, 0, pCurBuff[t.ifd], OFFSET_SIZE)}
  /\ entries' = entries \cup
       {[ifd |-> t.ifd, id |-> 0, type |-> "next", count |-> 1,
         is |-> IF t.id = 0 THEN "value" ELSE "offset",
         value |-> IF t.id = 0 THEN 0 ELSE offset]}
  /\ UNCHANGED <<info, pCurBuff, offset, result>>

(* The byte that data without the APP1 marker gets before the date.         *)
WritePadd ==
  /\ Next1("padd")
  /\ written' = written \cup {Area("padd", "0th", 0, offset, 1)}
  /\ offset' = offset + 1
  /\ UNCHANGED <<info, pCurBuff, entries, result>>

(* The thumbnail, if the file stays below 64 kB with it; if not there is no *)
(* file.                                                                    *)
WriteThumbnail ==
  LET size == Head(todo).count
      fits == offset + size < 65535 IN
  /\ Next1("thumbnail")
  /\ offset' = IF fits THEN offset + size ELSE 0
  /\ written' = IF fits
                THEN written \cup {Area("thumbnail", "1st", 0, offset, size)}
                ELSE written
  /\ UNCHANGED <<info, pCurBuff, entries, result>>

(* Mutant. The length is taken before the APP1 header is added.             *)
ReturnShort(i, end) ==
  IF end = 0 THEN [size |-> 0, appLength |-> 8]
  ELSE [size |-> end + APP1_SIZE,
        appLength |-> IF i.flag THEN (end - 2) % 65536 ELSE 0]

(* ExifCreate_wo_GPS: nothing but the APP1 header is no file. The length is *)
(* stored in two bytes, unless the data come without the marker.            *)
Return_wo_GPS(i, end) ==
  IF end = 0 THEN [size |-> 0, appLength |-> 8]
  ELSE [size |-> end + APP1_SIZE,
        appLength |-> IF i.flag THEN (end + APP1_SIZE - 2) % 65536 ELSE 0]

(* ExifCreate.                                                              *)
Return(end) ==
  IF end = 0 THEN [size |-> 0, appLength |-> 8]
  ELSE [size |-> end + APP1_SIZE, appLength |-> (end + APP1_SIZE - 2) % 65536]

ReturnLength ==
  /\ todo = << >> /\ result = NoResult
  /\ result' = IF info.gpsEntry THEN Return(offset) ELSE Return_wo_GPS(info, offset)
  /\ UNCHANGED <<info, todo, pCurBuff, offset, entries, written>>

Next ==
  \/ BeginIFD \/ WriteSHORTTag \/ WriteLONGTag \/ WriteIFDTag \/ WriteJFIFTag
  \/ WriteRATIONALTag \/ WriteSRATIONALTag \/ WriteGPSInfoTag
  \/ WriteBYTESTag \/ WriteASCIITag \/ WriteUNDEFINEDTag
  \/ WriteNextIFD \/ WritePadd \/ WriteThumbnail \/ ReturnLength

Spec == Init /\ [][Next]_vars

-----------------------------------------------------------------------------
(* Properties.                                                              *)

Done == result # NoResult /\ result.size # 0

Disjoint(a, b) == End(a) <= b.at \/ End(b) <= a.at

(* No byte is written twice: entries stay inside the block of their         *)
(* directory, the offset of the next directory has its place behind them,   *)
(* and values never reach into each other or into a directory, whatever the *)
(* strings' lengths.                                                        *)
NoOverlap == \A a, b \in written : a # b => Disjoint(a, b)

(* When the file is complete every directory has as many entries as it says *)
(* it has, and the directories that are searched by number have them in     *)
(* ascending order. (The 0th has not: 0x0213 stands before 0x011A.)         *)
EntriesOf(ifd) == {e \in entries : e.ifd = ifd /\ e.type # "next"}

Position(e) == (CHOOSE a \in written : a.what = "entry" /\ a.ifd = e.ifd /\ a.id = e.id).at

DirectoriesFull ==
  Done => \A a \in written : a.what = "number" =>
            /\ Cardinality(EntriesOf(a.ifd)) = a.id
            /\ pCurBuff[a.ifd] = End(a) + a.id * TAG_SIZE
            /\ a.ifd # "0th" => \A e, f \in EntriesOf(a.ifd) :
                                  e.id < f.id => Position(e) < Position(f)

(* When the file is complete, what an entry points to is there: a value of  *)
(* the entry's size, the directory it names, or the thumbnail.              *)
PointsTo(e, a) ==
  /\ a.at = e.value
  /\ CASE e.type = "next" -> a.what = "number" /\ a.ifd = "1st"
       [] e.type = "LONG" /\ e.id = \h8769 -> a.what = "number" /\ a.ifd = "Exif"
       [] e.type = "LONG" /\ e.id = \h8825 -> a.what = "number" /\ a.ifd = "GPS"
       [] e.type = "LONG" /\ e.id = \h0201 -> a.what = "thumbnail"
       [] OTHER -> a.what = "value" /\ a.len = Width(e.type) * e.count

PointersResolve ==
  Done => \A e \in entries :
            e.is = "offset" /\ (info.flag \/ e.id # \h0201)
              => \E a \in written : PointsTo(e, a)

(* The length in the APP1 header is that of what follows the marker, and    *)
(* without a thumbnail the file fits the memory pictureThread gives it.     *)
EXIF_FILE_SIZE == 28800
LengthHolds ==
  Done => /\ info.flag => result.appLength = result.size - 2
          /\ \A a \in written : End(a) <= result.size - APP1_SIZE
          /\ ~info.hasThumbnail => result.size <= EXIF_FILE_SIZE

=============================================================================
