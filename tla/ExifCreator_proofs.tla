-------------------------- MODULE ExifCreator_proofs --------------------------
(* Theorems about ExifCreator for any lengths of strings and thumbnails: the *)
(* writes of a call find the room that was reserved for them, no byte is     *)
(* written twice, what entries point to is there, and directories have all   *)
(* their entries, in order.                                                  *)
EXTENDS ExifCreator, TLAPS, SequenceTheorems, FiniteSetTheorems

-----------------------------------------------------------------------------
(* The table of the writes: which of them is the k-th.                       *)

(* Writes of plain entries; the two others hold positions.                   *)
Plain == {"SHORTTag", "LONGTag", "RATIONALTag", "SRATIONALTag", "GPSInfoTag", "BYTESTag",
          "ASCIITag", "UNDEFINEDTag"}

EntryWrites == Plain \cup {"IFDTag", "JFIF"}

Tags == [write : EntryWrites \cup {"IFD", "NextIFD", "padd", "thumbnail"}, ifd : IFDs,
         id : Nat, count : Nat]

(* The numbers of the entries of each directory, as they are written.        *)
Ids0th == << \h010F, \h0110, \h0112, \h0131, \h0132, \h0213, \h011A, \h011B, \h0128,
             \h8769, \h8825 >>
IdsExif == << \h829A, \h829D, \h8822, \h8827, \h9000, \h9003, \h9004, \h9101, \h9201,
              \h9202, \h9203, \h9204, \h9205, \h9207, \h9209, \h920A, \hA001, \hA002,
              \hA003, \hA402, \hA403, \hA406, \hA408, \hA409, \hA40A >>
IdsGps == << 0, 1, 2, 3, 4, 5, 6, 7, \h1B, \h1D >>
Ids1st == << \h0100, \h0101, \h0103, \h0112, \h011A, \h011B, \h0128, \h0201, \h0202,
             \h0213 >>

Id(d, j) == CASE d = "0th" -> Ids0th[j]
              [] d = "Exif" -> IdsExif[j]
              [] d = "GPS" -> IdsGps[j]
              [] OTHER -> Ids1st[j]

(* t is the write of the j-th entry of directory d.                          *)
IsPlain(t, d, j) == t.write \in Plain /\ t.ifd = d /\ t.id = Id(d, j)

(* Sequences of writes.                                                      *)
LEMMA Joined ==
  ASSUME NEW s \in Seq(Tags), NEW t \in Seq(Tags)
  PROVE  /\ s \o t \in Seq(Tags) /\ Len(s \o t) = Len(s) + Len(t)
         /\ Len(s) \in Nat /\ Len(t) \in Nat
         /\ \A k \in 1 .. Len(s) + Len(t) :
              (s \o t)[k] = IF k <= Len(s) THEN s[k] ELSE t[k - Len(s)]
  OBVIOUS

LEMMA OneTag ==
  ASSUME NEW t \in Tags
  PROVE  << t >> \in Seq(Tags) /\ Len(<< t >>) = 1 /\ << t >>[1] = t
  OBVIOUS

LEMMA Strung ==
  ASSUME NEW i \in InfoType, NEW n \in Strings
  PROVE  i.length[n] \in Nat /\ ASCIILength(i.length[n]) \in Nat
  BY DEF InfoType, ASCIILength

LEMMA StringNames == \A n \in {"maker", "model", "software", "dateTime", "dateTimeOriginal",
            "dateTimeDigitized", "latitudeRef", "longitudeRef",
            "processingMethod", "datestamp"} : n \in Strings
  BY DEF Strings

LEMMA ShotTable ==
  ASSUME NEW i \in InfoType
  PROVE  LET s == ExifIFDShot(i.length) IN
         /\ s \in Seq(Tags) /\ Len(s) = 17
         /\ s[1] = Directory("Exif", 25)
         /\ \A k \in 2 .. 17 : IsPlain(s[k], "Exif", k - 1)
  <1> DEFINE s == ExifIFDShot(i.length)
  <1>1. Len(s) = 17 /\ s[1] = Directory("Exif", 25)
    BY DEF ExifIFDShot, NUM_EXIF_IFD
  <1>2. \A k \in 2 .. 17 : IsPlain(s[k], "Exif", k - 1)
    BY DEF IsPlain, Id, IdsExif, ExifIFDShot, Plain, Short, Rational, SRational, Ascii, Undefined, Tag
  <1>3. /\ ASCIILength(i.length["dateTimeOriginal"]) \in Nat
        /\ ASCIILength(i.length["dateTimeDigitized"]) \in Nat
    BY Strung, StringNames
  <1>4. s \in Seq(Tags)
    BY <1>3 DEF ExifIFDShot, Short, Rational, SRational, Ascii, Undefined, Directory, Tag, Tags,
       IFDs, EntryWrites, Plain, NUM_EXIF_IFD
  <1> QED
    BY <1>1, <1>2, <1>4

LEMMA PictureTable ==
  /\ ExifIFDPicture \in Seq(Tags) /\ Len(ExifIFDPicture) = 9
  /\ \A k \in 1 .. 9 : IsPlain(ExifIFDPicture[k], "Exif", 16 + k)
  <1>1. /\ Len(ExifIFDPicture) = 9
        /\ \A k \in 1 .. 9 : IsPlain(ExifIFDPicture[k], "Exif", 16 + k)
    BY DEF IsPlain, Id, IdsExif, ExifIFDPicture, Plain, Short, Long, Tag
  <1>2. ExifIFDPicture \in Seq(Tags)
    BY DEF ExifIFDPicture, Short, Long, Tag, Tags, IFDs, EntryWrites, Plain
  <1> QED
    BY <1>1, <1>2

LEMMA GpsTable ==
  ASSUME NEW i \in InfoType
  PROVE  LET s == GPSIFD(i.length) IN
         /\ s \in Seq(Tags) /\ Len(s) = 11
         /\ s[1] = Directory("GPS", 10)
         /\ \A k \in 2 .. 11 : IsPlain(s[k], "GPS", k - 1)
  <1> DEFINE s == GPSIFD(i.length)
  <1>1. Len(s) = 11 /\ s[1] = Directory("GPS", 10)
    BY DEF GPSIFD, NUM_GPS_IDF
  <1>2. \A k \in 2 .. 11 : IsPlain(s[k], "GPS", k - 1)
    BY DEF IsPlain, Id, IdsGps, GPSIFD, Plain, Ascii, Undefined, Tag
  <1>3. /\ ASCIILength(i.length["latitudeRef"]) \in Nat /\ ASCIILength(i.length["longitudeRef"]) \in Nat
        /\ ASCIILength(i.length["processingMethod"]) + PREFIX_SIZE \in Nat
        /\ ASCIILength(DatestampLength(i.length)) \in Nat
    <2>1. \A n \in Strings : i.length[n] \in Nat
      BY Strung
    <2>2. /\ i.length["processingMethod"] \in Nat /\ i.length["datestamp"] \in Nat
          /\ i.length["latitudeRef"] \in Nat /\ i.length["longitudeRef"] \in Nat
      BY <2>1, StringNames
    <2> QED
      BY <2>2 DEF ASCIILength, DatestampLength, PREFIX_SIZE, METHOD_SIZE
  <1>4. s \in Seq(Tags)
    BY <1>3 DEF GPSIFD, Ascii, Undefined, Directory, Tag, Tags, IFDs, EntryWrites, Plain, NUM_GPS_IDF
  <1> QED
    BY <1>1, <1>2, <1>4

(* A directory behind the entry that points to it.                           *)
ExifBlock(i) == IFDTag("0th", \h8769, ExifIFD(i.length))
GpsBlock(i) == IFDTag("0th", \h8825, GPSIFD(i.length))

LEMMA ExifDirectory ==
  ASSUME NEW i \in InfoType
  PROVE  LET s == ExifIFD(i.length) IN
         /\ s \in Seq(Tags) /\ Len(s) = 26 /\ s[1] = Directory("Exif", 25)
         /\ \A k \in 2 .. 26 : IsPlain(s[k], "Exif", k - 1)
  <1> DEFINE shot == ExifIFDShot(i.length)
             s == shot \o ExifIFDPicture
  <1>1. /\ shot \in Seq(Tags) /\ Len(shot) = 17 /\ shot[1] = Directory("Exif", 25)
        /\ \A k \in 2 .. 17 : IsPlain(shot[k], "Exif", k - 1)
    BY ShotTable
  <1> HIDE DEF shot
  <1>2. /\ s \in Seq(Tags) /\ Len(s) = Len(shot) + Len(ExifIFDPicture)
        /\ \A k \in 1 .. Len(shot) + Len(ExifIFDPicture) :
             s[k] = IF k <= Len(shot) THEN shot[k] ELSE ExifIFDPicture[k - Len(shot)]
    BY <1>1, PictureTable, Joined, Zenon
  <1>3. s = ExifIFD(i.length)
    BY DEF ExifIFD, shot
  <1> HIDE DEF s
  <1>4. /\ s[1] = Directory("Exif", 25) /\ Len(s) = 26
        /\ \A k \in 2 .. 26 : IsPlain(s[k], "Exif", k - 1)
    BY <1>1, <1>2, PictureTable
  <1> QED
    BY <1>2, <1>3, <1>4

(* One write before others.                                                  *)
LEMMA Preceded ==
  ASSUME NEW t \in Tags, NEW s \in Seq(Tags)
  PROVE  /\ << t >> \o s \in Seq(Tags) /\ Len(<< t >> \o s) = Len(s) + 1
         /\ (<< t >> \o s)[1] = t
         /\ \A k \in 1 .. Len(s) : (<< t >> \o s)[k + 1] = s[k]
  <1>1. << t >> \in Seq(Tags) /\ Len(<< t >>) = 1 /\ << t >>[1] = t
    BY OneTag
  <1> DEFINE o == << t >>
             w == o \o s
  <1> HIDE DEF o
  <1>2. /\ w \in Seq(Tags) /\ Len(w) = Len(o) + Len(s) /\ Len(s) \in Nat
        /\ \A k \in 1 .. Len(o) + Len(s) : w[k] = IF k <= Len(o) THEN o[k] ELSE s[k - Len(o)]
    BY <1>1, Joined, Zenon DEF o
  <1>3. Len(o) = 1 /\ o[1] = t
    BY <1>1 DEF o
  <1> HIDE DEF w
  <1>4. w[1] = t /\ Len(w) = Len(s) + 1
    BY <1>2, <1>3
  <1>5. ASSUME NEW k \in 1 .. Len(s) PROVE w[k + 1] = s[k]
    <2>1. k + 1 \in 1 .. Len(o) + Len(s) /\ ~(k + 1 <= Len(o)) /\ k + 1 - Len(o) = k
      BY <1>2, <1>3
    <2> QED
      BY <1>2, <2>1
  <1> QED
    BY <1>2, <1>4, <1>5 DEF w, o

LEMMA ExifTable ==
  ASSUME NEW i \in InfoType
  PROVE  LET s == ExifBlock(i) IN
         /\ s \in Seq(Tags) /\ Len(s) = 27
         /\ s[1] = Tag("IFDTag", "0th", \h8769, 1) /\ s[2] = Directory("Exif", 25)
  <1> DEFINE d == ExifIFD(i.length)
             tag == Tag("IFDTag", "0th", \h8769, 1)
             b == << tag >> \o d
  <1>1. d \in Seq(Tags) /\ Len(d) = 26 /\ d[1] = Directory("Exif", 25)
    BY ExifDirectory
  <1>0. d \in Seq(Tags)
    BY ExifDirectory
  <1>2. tag \in Tags
    BY DEF Tag, Tags, IFDs, EntryWrites
  <1>3. ExifBlock(i) = b
    BY DEF ExifBlock, IFDTag
  <1> HIDE DEF d, tag
  <1>4. b \in Seq(Tags) /\ Len(b) = Len(d) + 1 /\ b[1] = tag
    BY <1>0, <1>2, Preceded, Zenon
  <1>6. \A m \in 1 .. Len(d) : b[m + 1] = d[m]
    BY <1>0, <1>2, Preceded, Zenon
  <1> HIDE DEF b
  <1>5. Len(b) = 27 /\ b[2] = d[1]
    <2>1. 1 \in 1 .. Len(d) /\ 1 + 1 = 2
      BY <1>1
    <2> QED
      BY <1>1, <1>4, <1>6, <2>1
  <1> QED
    BY <1>1, <1>3, <1>4, <1>5 DEF tag

LEMMA ExifPlain ==
  ASSUME NEW i \in InfoType, NEW k \in 3 .. 27
  PROVE  IsPlain(ExifBlock(i)[k], "Exif", k - 2)
  <1> DEFINE d == ExifIFD(i.length)
             tag == Tag("IFDTag", "0th", \h8769, 1)
             b == << tag >> \o d
  <1>1. d \in Seq(Tags) /\ Len(d) = 26 /\ \A l \in 2 .. 26 : IsPlain(d[l], "Exif", l - 1)
    BY ExifDirectory
  <1>0. d \in Seq(Tags)
    BY ExifDirectory
  <1>2. tag \in Tags
    BY DEF Tag, Tags, IFDs, EntryWrites
  <1>3. ExifBlock(i) = b
    BY DEF ExifBlock, IFDTag
  <1> HIDE DEF d, tag
  <1>4. PICK l \in 2 .. 26 : k = l + 1
    <2>1. k - 1 \in 2 .. 26 /\ k = (k - 1) + 1
      OBVIOUS
    <2> QED
      BY <2>1
  <1>5. \A m \in 1 .. Len(d) : b[m + 1] = d[m]
    BY <1>0, <1>2, Preceded, Zenon
  <1> HIDE DEF b
  <1>6. b[l + 1] = d[l]
    <2>1. l \in 1 .. Len(d)
      BY <1>1
    <2> QED
      BY <1>5, <2>1, Zenon
  <1>7. IsPlain(d[l], "Exif", l - 1)
    BY <1>1
  <1> QED
    BY <1>3, <1>4, <1>6, <1>7

LEMMA GpsBlockTable ==
  ASSUME NEW i \in InfoType
  PROVE  LET s == GpsBlock(i) IN
         /\ s \in Seq(Tags) /\ Len(s) = 12
         /\ s[1] = Tag("IFDTag", "0th", \h8825, 1) /\ s[2] = Directory("GPS", 10)
         /\ \A k \in 3 .. 12 : IsPlain(s[k], "GPS", k - 2)
  <1> DEFINE gps == GPSIFD(i.length)
             tag == Tag("IFDTag", "0th", \h8825, 1)
             s == << tag >> \o gps
  <1>1. /\ gps \in Seq(Tags) /\ Len(gps) = 11 /\ gps[1] = Directory("GPS", 10)
        /\ \A k \in 2 .. 11 : IsPlain(gps[k], "GPS", k - 1)
    BY GpsTable
  <1>2. tag \in Tags
    BY DEF Tag, Tags, IFDs, EntryWrites
  <1> HIDE DEF gps, tag
  <1>5. << tag >> \in Seq(Tags) /\ Len(<< tag >>) = 1 /\ << tag >>[1] = tag
    BY <1>2, OneTag
  <1>6. /\ s \in Seq(Tags) /\ Len(s) = Len(<< tag >>) + Len(gps)
        /\ \A k \in 1 .. Len(<< tag >>) + Len(gps) :
             s[k] = IF k <= Len(<< tag >>) THEN << tag >>[k] ELSE gps[k - Len(<< tag >>)]
    BY <1>1, <1>5, Joined, Zenon
  <1>7. s = GpsBlock(i)
    BY DEF GpsBlock, IFDTag, gps, tag
  <1> HIDE DEF s
  <1>8. s[1] = tag /\ s[2] = gps[1] /\ Len(s) = 12 /\ \A k \in 3 .. 12 : IsPlain(s[k], "GPS", k - 2)
    BY <1>1, <1>5, <1>6
  <1> QED
    BY <1>1, <1>6, <1>7, <1>8 DEF tag

(* How many writes the byte before the date, and the GPS directory, are.     *)
Pad(i) == IF i.gpsEntry \/ i.flag THEN 0 ELSE 1
Gps(i) == IF i.hasGps THEN 12 ELSE 0
Num0th(i) == 10 + (IF i.hasGps THEN 1 ELSE 0)

(* Which entry of the 0th directory the k-th write is, with p of the former. *)
Nth0th(p, k) == IF k <= 5 THEN k - 1 ELSE k - 1 - p

(* The 0th directory before its pointers.                                    *)
Head0th(i) ==
  << Directory("0th", Num0th(i)),
     Ascii("0th", \h010F, i.length["maker"]), Ascii("0th", \h0110, i.length["model"]),
     Short("0th", \h0112), Ascii("0th", \h0131, i.length["software"]) >>
Pad0th(i) == IF i.flag THEN << >> ELSE << Tag("padd", "0th", 0, 1) >>
Tail0th(i) ==
  << Ascii("0th", \h0132, i.length["dateTime"]), Short("0th", \h0213),
     Rational("0th", \h011A), Rational("0th", \h011B), Short("0th", \h0128) >>
Entry0th(i) ==
  << Directory("0th", Num0th(i)),
     Ascii("0th", \h010F, i.length["maker"]), Ascii("0th", \h0110, i.length["model"]),
     Short("0th", \h0112), Ascii("0th", \h0131, i.length["software"]),
     Ascii("0th", \h0132, i.length["dateTime"]), Short("0th", \h0213),
     Rational("0th", \h011A), Rational("0th", \h011B), Short("0th", \h0128) >>

Values0th(i) == IF i.gpsEntry THEN Entry0th(i) ELSE (Head0th(i) \o Pad0th(i)) \o Tail0th(i)

LEMMA Values0thTable ==
  ASSUME NEW i \in InfoType
  PROVE  /\ Values0th(i) \in Seq(Tags) /\ Len(Values0th(i)) = 10 + Pad(i)
         /\ Values0th(i)[1] = Directory("0th", Num0th(i))
         /\ \A k \in 2 .. 10 + Pad(i) :
              IF k = 6 /\ Pad(i) = 1 THEN Values0th(i)[k] = Tag("padd", "0th", 0, 1)
              ELSE IsPlain(Values0th(i)[k], "0th", Nth0th(Pad(i), k))
  <1>0. /\ ASCIILength(i.length["maker"]) \in Nat /\ ASCIILength(i.length["model"]) \in Nat
        /\ ASCIILength(i.length["software"]) \in Nat /\ ASCIILength(i.length["dateTime"]) \in Nat
        /\ Num0th(i) \in Nat
    BY Strung, StringNames DEF Num0th
  <1>1. /\ Entry0th(i) \in Seq(Tags) /\ Len(Entry0th(i)) = 10
        /\ Entry0th(i)[1] = Directory("0th", Num0th(i))
        /\ \A k \in 2 .. 10 : IsPlain(Entry0th(i)[k], "0th", k - 1)
    <2>1. Entry0th(i) \in Seq(Tags)
      BY <1>0 DEF Entry0th, Short, Rational, Ascii, Directory, Tag, Tags, IFDs, EntryWrites, Plain
    <2>2. \A k \in 2 .. 10 : IsPlain(Entry0th(i)[k], "0th", k - 1)
      BY DEF IsPlain, Id, Ids0th, Entry0th, Plain, Short, Rational, Ascii, Tag
    <2>3. Len(Entry0th(i)) = 10 /\ Entry0th(i)[1] = Directory("0th", Num0th(i))
      BY DEF Entry0th
    <2> QED
      BY <2>1, <2>2, <2>3
  <1>2. /\ Head0th(i) \in Seq(Tags) /\ Len(Head0th(i)) = 5
        /\ Head0th(i)[1] = Directory("0th", Num0th(i))
        /\ \A k \in 2 .. 5 : IsPlain(Head0th(i)[k], "0th", k - 1)
    <2>1. Head0th(i) \in Seq(Tags)
      BY <1>0 DEF Head0th, Short, Rational, Ascii, Directory, Tag, Tags, IFDs, EntryWrites, Plain
    <2>2. \A k \in 2 .. 5 : IsPlain(Head0th(i)[k], "0th", k - 1)
      BY DEF IsPlain, Id, Ids0th, Head0th, Plain, Short, Rational, Ascii, Tag
    <2>3. Len(Head0th(i)) = 5 /\ Head0th(i)[1] = Directory("0th", Num0th(i))
      BY DEF Head0th
    <2> QED
      BY <2>1, <2>2, <2>3
  <1>3. /\ Tail0th(i) \in Seq(Tags) /\ Len(Tail0th(i)) = 5
        /\ \A k \in 1 .. 5 : IsPlain(Tail0th(i)[k], "0th", k + 4)
    <2>1. Tail0th(i) \in Seq(Tags)
      BY <1>0 DEF Tail0th, Short, Rational, Ascii, Tag, Tags, IFDs, EntryWrites, Plain
    <2>2. \A k \in 1 .. 5 : IsPlain(Tail0th(i)[k], "0th", k + 4)
      BY DEF IsPlain, Id, Ids0th, Tail0th, Plain, Short, Rational, Ascii, Tag
    <2>3. Len(Tail0th(i)) = 5
      BY DEF Tail0th
    <2> QED
      BY <2>1, <2>2, <2>3
  <1>4. /\ Pad0th(i) \in Seq(Tags) /\ Len(Pad0th(i)) = IF i.flag THEN 0 ELSE 1
        /\ ~i.flag => Pad0th(i)[1] = Tag("padd", "0th", 0, 1)
    <2>1. CASE i.flag
      BY <2>1 DEF Pad0th
    <2>2. CASE ~i.flag
      <3>1. Pad0th(i) = << Tag("padd", "0th", 0, 1) >> /\ Tag("padd", "0th", 0, 1) \in Tags
        BY <2>2 DEF Pad0th, Tag, Tags, IFDs
      <3> QED
        BY <2>2, <3>1, OneTag
    <2> QED
      BY <2>1, <2>2
  <1>5. CASE i.gpsEntry
    <2>1. Values0th(i) = Entry0th(i) /\ Pad(i) = 0
      BY <1>5 DEF Values0th, Pad
    <2>2. \A k \in 2 .. 10 : Nth0th(0, k) = k - 1
      BY DEF Nth0th
    <2>3. \A k \in 2 .. 10 : IsPlain(Entry0th(i)[k], "0th", Nth0th(0, k))
      BY <1>1, <2>2
    <2> QED
      BY <1>1, <2>1, <2>3
  <1>6. CASE ~i.gpsEntry
    <2> DEFINE h == Head0th(i) \o Pad0th(i)
               s == h \o Tail0th(i)
    <2>1. /\ h \in Seq(Tags) /\ Len(h) = Len(Head0th(i)) + Len(Pad0th(i))
          /\ \A k \in 1 .. Len(Head0th(i)) + Len(Pad0th(i)) :
               h[k] = IF k <= Len(Head0th(i)) THEN Head0th(i)[k] ELSE Pad0th(i)[k - Len(Head0th(i))]
      BY <1>2, <1>4, Joined, Zenon
    <2> HIDE DEF h
    <2>2. /\ s \in Seq(Tags) /\ Len(s) = Len(h) + Len(Tail0th(i))
          /\ \A k \in 1 .. Len(h) + Len(Tail0th(i)) :
               s[k] = IF k <= Len(h) THEN h[k] ELSE Tail0th(i)[k - Len(h)]
      BY <1>3, <2>1, Joined, Zenon
    <2>3. s = Values0th(i)
      BY <1>6 DEF h, Values0th
    <2> HIDE DEF s
    <2>4. Pad(i) = (IF i.flag THEN 0 ELSE 1) /\ Pad(i) \in {0, 1} /\ Len(h) = 5 + Pad(i)
      BY <1>2, <1>4, <1>6, <2>1 DEF Pad
    <2>5. Len(s) = 10 + Pad(i) /\ s[1] = Directory("0th", Num0th(i))
      <3>1. Len(s) = 10 + Pad(i) /\ Len(h) >= 1
        BY <1>3, <2>2, <2>4
      <3>2. s[1] = h[1]
        BY <1>3, <2>2, <2>4, <3>1
      <3>3. h[1] = Head0th(i)[1]
        BY <1>2, <1>4, <2>1, <2>4
      <3> QED
        BY <1>2, <3>1, <3>2, <3>3
    <2>6. ASSUME NEW k \in 2 .. 10 + Pad(i)
          PROVE  IF k = 6 /\ Pad(i) = 1 THEN s[k] = Tag("padd", "0th", 0, 1)
                 ELSE IsPlain(s[k], "0th", Nth0th(Pad(i), k))
      <3>1. CASE k <= 5
        <4>1. s[k] = Head0th(i)[k]
          BY <1>2, <1>3, <1>4, <2>1, <2>2, <2>4, <3>1
        <4>2. Nth0th(Pad(i), k) = k - 1 /\ k \in 2 .. 5
          BY <3>1 DEF Nth0th
        <4>3. IsPlain(Head0th(i)[k], "0th", k - 1)
          BY <1>2, <4>2
        <4> QED
          BY <3>1, <4>1, <4>2, <4>3
      <3>2. CASE k = 6 /\ Pad(i) = 1
        <4>1. s[k] = Pad0th(i)[1]
          <5>1. Len(h) = 6 /\ Len(Head0th(i)) = 5 /\ Len(Pad0th(i)) = 1 /\ k = 6
            BY <1>2, <1>4, <1>6, <2>4, <3>2
          <5>2. s[6] = h[6] /\ h[6] = Pad0th(i)[6 - 5]
            BY <1>3, <2>1, <2>2, <5>1
          <5> QED
            BY <5>1, <5>2
        <4> QED
          BY <1>4, <2>4, <3>2, <4>1
      <3>3. CASE k > 5 + Pad(i)
        <4>0. Len(Tail0th(i)) = 5
          BY <1>3
        <4>1. s[k] = Tail0th(i)[k - (5 + Pad(i))] /\ k - (5 + Pad(i)) \in 1 .. 5
          BY <2>2, <2>4, <3>3, <4>0
        <4>2. IsPlain(s[k], "0th", Nth0th(Pad(i), k))
          <5> DEFINE j == k - (5 + Pad(i))
          <5>1. IsPlain(Tail0th(i)[j], "0th", j + 4)
            BY <1>3, <4>1
          <5>2. j + 4 = Nth0th(Pad(i), k)
            BY <2>4, <3>3 DEF Nth0th
          <5> QED
            BY <4>1, <5>1, <5>2
        <4> QED
          BY <2>4, <3>3, <4>2
      <3> QED
        BY <2>4, <3>1, <3>2, <3>3
    <2> QED
      BY <2>2, <2>3, <2>5, <2>6
  <1> QED
    BY <1>5, <1>6

(* The first directory, or that there is none.                               *)
First(i) == IF i.gpsEntry THEN FirstIFD(i) ELSE FirstIFD_wo_GPS(i)

Entries1st ==
  << NextIFD("0th", 1), Directory("1st", 10),
     Long("1st", \h0100), Long("1st", \h0101), Short("1st", \h0103),
     Short("1st", \h0112), Rational("1st", \h011A), Rational("1st", \h011B),
     Short("1st", \h0128), Tag("JFIF", "1st", \h0201, 1),
     Long("1st", \h0202), Short("1st", \h0213), NextIFD("1st", 0) >>

LEMMA FirstTable ==
  ASSUME NEW i \in InfoType
  PROVE  /\ First(i) \in Seq(Tags)
         /\ Len(First(i)) = IF i.hasThumbnail THEN 14 - Pad(i) ELSE 1
         /\ First(i)[1] = NextIFD("0th", IF i.hasThumbnail THEN 1 ELSE 0)
         /\ i.hasThumbnail =>
              /\ First(i)[2] = Directory("1st", 10)
              /\ \A k \in 3 .. 12 : k # 10 => IsPlain(First(i)[k], "1st", k - 2)
              /\ First(i)[10] = Tag("JFIF", "1st", \h0201, 1)
              /\ First(i)[11].write = "LONGTag" /\ First(i)[12].write = "SHORTTag"
              /\ First(i)[13] = NextIFD("1st", 0)
              /\ Pad(i) = 0 => First(i)[14] = Tag("thumbnail", "1st", 0, i.thumbSize)
  <1>1. CASE ~i.hasThumbnail
    <2>1. First(i) = << NextIFD("0th", 0) >>
      BY <1>1 DEF First, FirstIFD, FirstIFD_wo_GPS
    <2>2. NextIFD("0th", 0) \in Tags
      BY DEF NextIFD, Tag, Tags, IFDs
    <2> QED
      BY <1>1, <2>1, <2>2, OneTag
  <1>2. CASE i.hasThumbnail
    <2> DEFINE tag == Tag("thumbnail", "1st", 0, i.thumbSize)
               t == IF i.gpsEntry \/ i.flag THEN << tag >> ELSE << >>
               s == Entries1st \o t
    <2>1. /\ Len(Entries1st) = 13
          /\ Entries1st[1] = NextIFD("0th", 1) /\ Entries1st[2] = Directory("1st", 10)
          /\ Entries1st[10] = Tag("JFIF", "1st", \h0201, 1) /\ Entries1st[13] = NextIFD("1st", 0)
          /\ Entries1st[11].write = "LONGTag" /\ Entries1st[12].write = "SHORTTag"
      BY DEF Entries1st, Long, Short, Tag
    <2>2. \A k \in 3 .. 12 : k # 10 => IsPlain(Entries1st[k], "1st", k - 2)
      BY DEF IsPlain, Id, Ids1st, Entries1st, Plain, Long, Short, Rational, Tag
    <2>3. Entries1st \in Seq(Tags)
      BY DEF Entries1st, NextIFD, Directory, Long, Short, Rational, Tag, Tags, IFDs, EntryWrites, Plain
    <2>4. tag \in Tags
      BY DEF Tag, Tags, IFDs, InfoType
    <2> HIDE DEF tag
    <2>5. t \in Seq(Tags) /\ Len(t) = 1 - Pad(i) /\ (Pad(i) = 0 => t[1] = tag) /\ Pad(i) \in {0, 1}
      BY <2>4, OneTag DEF Pad
    <2>6. First(i) = s
      <3>1. CASE i.gpsEntry
        BY <1>2, <3>1, <2>1 DEF First, FirstIFD, Entries1st, NUM_1TH_IFD, tag
      <3>2. CASE ~i.gpsEntry
        BY <1>2, <3>2, <2>1 DEF First, FirstIFD_wo_GPS, Entries1st, NUM_1TH_IFD, tag
      <3> QED
        BY <3>1, <3>2
    <2> HIDE DEF t
    <2>7. /\ s \in Seq(Tags) /\ Len(s) = Len(Entries1st) + Len(t)
          /\ \A k \in 1 .. Len(Entries1st) + Len(t) :
               s[k] = IF k <= Len(Entries1st) THEN Entries1st[k] ELSE t[k - Len(Entries1st)]
      BY <2>3, <2>5, Joined, Zenon
    <2> HIDE DEF s
    <2>8. Len(s) = 14 - Pad(i) /\ \A k \in 1 .. 13 : s[k] = Entries1st[k]
      BY <2>1, <2>5, <2>7
    <2>9. Pad(i) = 0 => s[14] = t[1]
      BY <2>1, <2>5, <2>7
    <2>10. /\ s[1] = Entries1st[1] /\ s[2] = Entries1st[2] /\ s[10] = Entries1st[10]
           /\ s[11] = Entries1st[11] /\ s[12] = Entries1st[12] /\ s[13] = Entries1st[13]
      BY <2>8
    <2>11. \A k \in 3 .. 12 : k # 10 => IsPlain(s[k], "1st", k - 2)
      BY <2>2, <2>8
    <2>12. s \in Seq(Tags) /\ Len(s) = 14 - Pad(i) /\ (Pad(i) = 0 => s[14] = tag)
      BY <2>5, <2>7, <2>8, <2>9
    <2> QED
      BY <1>2, <2>1, <2>6, <2>10, <2>11, <2>12 DEF tag
  <1> QED
    BY <1>1, <1>2

(* The k-th write of a call, with p and g of these.                          *)
WriteAt(i, p, g, k, t) ==
  /\ k = 1 => t = Directory("0th", Num0th(i))
  /\ k = 6 /\ p = 1 => t = Tag("padd", "0th", 0, 1)
  /\ 2 <= k /\ k <= 10 + p /\ ~(k = 6 /\ p = 1) => IsPlain(t, "0th", Nth0th(p, k))
  /\ k = 11 + p => t = Tag("IFDTag", "0th", \h8769, 1)
  /\ k = 12 + p => t = Directory("Exif", 25)
  /\ 13 + p <= k /\ k <= 37 + p => IsPlain(t, "Exif", k - 12 - p)
  /\ g = 12 /\ k = 38 + p => t = Tag("IFDTag", "0th", \h8825, 1)
  /\ g = 12 /\ k = 39 + p => t = Directory("GPS", 10)
  /\ g = 12 /\ 40 + p <= k /\ k <= 49 + p => IsPlain(t, "GPS", k - 39 - p)
  /\ k = 38 + p + g => t = NextIFD("0th", IF i.hasThumbnail THEN 1 ELSE 0)
  /\ k = 39 + p + g => t = Directory("1st", 10)
  /\ 40 + p + g <= k /\ k <= 49 + p + g /\ k # 47 + p + g => IsPlain(t, "1st", k - 39 - p - g)
  /\ k = 47 + p + g => t = Tag("JFIF", "1st", \h0201, 1)
  /\ k = 48 + p + g => t.write = "LONGTag"
  /\ k = 49 + p + g => t.write = "SHORTTag"
  /\ k = 50 + p + g => t = NextIFD("1st", 0)
  /\ k = 51 + p + g => t = Tag("thumbnail", "1st", 0, i.thumbSize)

IsWrite(i, k, t) == WriteAt(i, Pad(i), Gps(i), k, t)

Length(i) == 38 + Pad(i) + Gps(i) + (IF i.hasThumbnail THEN 13 - Pad(i) ELSE 0)

LEMMA FourParts ==
  ASSUME NEW v \in Seq(Tags), NEW e \in Seq(Tags), NEW n \in Seq(Tags), NEW f \in Seq(Tags),
         NEW w, w = ((v \o e) \o n) \o f
  PROVE  /\ w \in Seq(Tags) /\ Len(w) = Len(v) + Len(e) + Len(n) + Len(f)
         /\ \A k \in 1 .. Len(v) : w[k] = v[k]
         /\ \A k \in 1 .. Len(e) : w[Len(v) + k] = e[k]
         /\ \A k \in 1 .. Len(n) : w[Len(v) + Len(e) + k] = n[k]
         /\ \A k \in 1 .. Len(f) : w[Len(v) + Len(e) + Len(n) + k] = f[k]
  <1> DEFINE ve == v \o e
             z == ve \o n
  <1>1. /\ ve \in Seq(Tags) /\ Len(ve) = Len(v) + Len(e) /\ Len(v) \in Nat /\ Len(e) \in Nat
        /\ \A k \in 1 .. Len(v) + Len(e) : ve[k] = IF k <= Len(v) THEN v[k] ELSE e[k - Len(v)]
    BY Joined, Zenon
  <1> HIDE DEF ve
  <1>2. /\ z \in Seq(Tags) /\ Len(z) = Len(ve) + Len(n) /\ Len(n) \in Nat
        /\ \A k \in 1 .. Len(ve) + Len(n) : z[k] = IF k <= Len(ve) THEN ve[k] ELSE n[k - Len(ve)]
    BY <1>1, Joined, Zenon
  <1>3. w = z \o f
    BY DEF ve
  <1> HIDE DEF z
  <1>4. /\ w \in Seq(Tags) /\ Len(w) = Len(z) + Len(f) /\ Len(f) \in Nat
        /\ \A k \in 1 .. Len(z) + Len(f) : w[k] = IF k <= Len(z) THEN z[k] ELSE f[k - Len(z)]
    <2>1. /\ z \o f \in Seq(Tags) /\ Len(z \o f) = Len(z) + Len(f) /\ Len(f) \in Nat
          /\ \A k \in 1 .. Len(z) + Len(f) : (z \o f)[k] = IF k <= Len(z) THEN z[k] ELSE f[k - Len(z)]
      BY <1>2, Joined, Zenon
    <2> QED
      BY <1>3, <2>1, Zenon
  <1>5. \A k \in 1 .. Len(v) : w[k] = v[k]
    BY <1>1, <1>2, <1>4
  <1>6. \A k \in 1 .. Len(e) : w[Len(v) + k] = e[k]
    BY <1>1, <1>2, <1>4
  <1>7. \A k \in 1 .. Len(n) : w[Len(v) + Len(e) + k] = n[k]
    BY <1>1, <1>2, <1>4
  <1>8. \A k \in 1 .. Len(f) : w[Len(v) + Len(e) + Len(n) + k] = f[k]
    BY <1>1, <1>2, <1>4
  <1> QED
    BY <1>1, <1>2, <1>4, <1>5, <1>6, <1>7, <1>8

GpsPart(i) == IF i.hasGps THEN GpsBlock(i) ELSE << >>

LEMMA WritesParts ==
  ASSUME NEW i \in InfoType
  PROVE  Writes(i) = ((Values0th(i) \o ExifBlock(i)) \o GpsPart(i)) \o First(i)
  <1>1. CASE i.gpsEntry
    <2>1. Entry0th(i) \o ExifBlock(i) \o GpsPart(i) = ZerothIFD(i)
      BY DEF ZerothIFD, Entry0th, Num0th, ExifBlock, GpsBlock, GpsPart, NUM_0TH_IFD
    <2>2. Values0th(i) = Entry0th(i) /\ Writes(i) = ZerothIFD(i) \o First(i)
      BY <1>1 DEF Values0th, Writes, First
    <2> QED
      BY <2>1, <2>2, Zenon
  <1>2. CASE ~i.gpsEntry
    <2>1. Head0th(i) \o Pad0th(i) \o Tail0th(i) \o ExifBlock(i) \o GpsPart(i) = ZerothIFD_wo_GPS(i)
      BY DEF ZerothIFD_wo_GPS, Head0th, Pad0th, Tail0th, Num0th, ExifBlock, GpsBlock, GpsPart, NUM_0TH_IFD
    <2>2. /\ Values0th(i) = (Head0th(i) \o Pad0th(i)) \o Tail0th(i)
          /\ Writes(i) = ZerothIFD_wo_GPS(i) \o First(i)
      BY <1>2 DEF Values0th, Writes, First
    <2> QED
      BY <2>1, <2>2, Zenon
  <1> QED
    BY <1>1, <1>2

LEMMA GpsPartTable ==
  ASSUME NEW i \in InfoType
  PROVE  /\ GpsPart(i) \in Seq(Tags) /\ Len(GpsPart(i)) = Gps(i) /\ Gps(i) \in {0, 12}
         /\ Gps(i) = 12 => /\ GpsPart(i)[1] = Tag("IFDTag", "0th", \h8825, 1)
                           /\ GpsPart(i)[2] = Directory("GPS", 10)
                           /\ \A k \in 3 .. 12 : IsPlain(GpsPart(i)[k], "GPS", k - 2)
  <1>1. CASE i.hasGps
    <2>1. GpsPart(i) = GpsBlock(i) /\ Gps(i) = 12
      BY <1>1 DEF Gps, GpsPart
    <2> QED
      BY <2>1, GpsBlockTable
  <1>2. CASE ~i.hasGps
    BY <1>2 DEF Gps, GpsPart
  <1> QED
    BY <1>1, <1>2

LEMMA WritesTable ==
  ASSUME NEW i \in InfoType
  PROVE  /\ Writes(i) \in Seq(Tags) /\ Len(Writes(i)) = Length(i)
         /\ \A k \in 1 .. Length(i) : IsWrite(i, k, Writes(i)[k])
  <1> DEFINE v == Values0th(i)
             e == ExifBlock(i)
             n == GpsPart(i)
             f == First(i)
             w == Writes(i)
             p == Pad(i)
             g == Gps(i)
  <1>1. /\ v \in Seq(Tags) /\ Len(v) = 10 + p /\ v[1] = Directory("0th", Num0th(i))
        /\ \A k \in 2 .. 10 + p :
              IF k = 6 /\ p = 1 THEN v[k] = Tag("padd", "0th", 0, 1) ELSE IsPlain(v[k], "0th", Nth0th(p, k))
    BY Values0thTable
  <1>2. /\ e \in Seq(Tags) /\ Len(e) = 27
        /\ e[1] = Tag("IFDTag", "0th", \h8769, 1) /\ e[2] = Directory("Exif", 25)
    BY ExifTable
  <1>P. \A k \in 3 .. 27 : IsPlain(e[k], "Exif", k - 2)
    BY ExifPlain
  <1>3. /\ n \in Seq(Tags) /\ Len(n) = g /\ g \in {0, 12}
        /\ g = 12 => /\ n[1] = Tag("IFDTag", "0th", \h8825, 1) /\ n[2] = Directory("GPS", 10)
                     /\ \A k \in 3 .. 12 : IsPlain(n[k], "GPS", k - 2)
    BY GpsPartTable
  <1>4. /\ f \in Seq(Tags) /\ Len(f) = (IF i.hasThumbnail THEN 14 - p ELSE 1)
        /\ f[1] = NextIFD("0th", IF i.hasThumbnail THEN 1 ELSE 0)
        /\ i.hasThumbnail =>
              /\ f[2] = Directory("1st", 10)
              /\ \A k \in 3 .. 12 : k # 10 => IsPlain(f[k], "1st", k - 2)
              /\ f[10] = Tag("JFIF", "1st", \h0201, 1)
              /\ f[11].write = "LONGTag" /\ f[12].write = "SHORTTag"
              /\ f[13] = NextIFD("1st", 0)
              /\ p = 0 => f[14] = Tag("thumbnail", "1st", 0, i.thumbSize)
    BY FirstTable
  <1>5. p \in {0, 1}
    BY DEF Pad
  <1>6. w = ((v \o e) \o n) \o f
    BY WritesParts
  <1>7. Length(i) = 38 + p + g + (IF i.hasThumbnail THEN 13 - p ELSE 0)
    BY DEF Length
  <1> HIDE DEF v, e, n, f, w, p, g
  <1>8. /\ w \in Seq(Tags) /\ Len(w) = Len(v) + Len(e) + Len(n) + Len(f)
        /\ \A k \in 1 .. Len(v) : w[k] = v[k]
        /\ \A k \in 1 .. Len(e) : w[Len(v) + k] = e[k]
        /\ \A k \in 1 .. Len(n) : w[Len(v) + Len(e) + k] = n[k]
        /\ \A k \in 1 .. Len(f) : w[Len(v) + Len(e) + Len(n) + k] = f[k]
    <2>1. v \in Seq(Tags) /\ e \in Seq(Tags) /\ n \in Seq(Tags) /\ f \in Seq(Tags)
      BY <1>1, <1>2, <1>3, <1>4
    <2> QED
      BY <1>6, <2>1, FourParts
  <1>L. /\ Len(v) = 10 + p /\ Len(e) = 27 /\ Len(n) = g /\ g \in {0, 12}
        /\ Len(f) = IF i.hasThumbnail THEN 14 - p ELSE 1
    BY <1>1, <1>2, <1>3, <1>4
  <1>W. Len(w) = Len(v) + Len(e) + Len(n) + Len(f)
    BY <1>8
  <1>9. Len(w) = Length(i)
    BY <1>5, <1>7, <1>L, <1>W
  <1>10. ASSUME NEW k \in 1 .. Length(i) PROVE WriteAt(i, p, g, k, w[k])
    <2>1. CASE k <= 10 + p
      <3>1. w[k] = v[k]
        BY <1>1, <1>5, <1>8, <2>1
      <3> QED
        BY <1>1, <1>3, <1>5, <2>1, <3>1 DEF WriteAt
    <2>2. CASE 11 + p <= k /\ k <= 37 + p
      <3>1. PICK j \in 1 .. 27 : k = 10 + p + j
        <4>1. k - (10 + p) \in 1 .. 27 /\ k = 10 + p + (k - (10 + p))
          BY <1>5, <2>2
        <4> QED
          BY <4>1
      <3>2. w[k] = e[j]
        <4>1. \A l \in 1 .. 27 : w[10 + p + l] = e[l]
          BY <1>8, <1>L
        <4> QED
          BY <3>1, <4>1
      <3>3. CASE j = 1
        <4>1. w[k] = Tag("IFDTag", "0th", \h8769, 1) /\ k = 11 + p
          BY <1>2, <1>5, <3>1, <3>2, <3>3
        <4>2. g \in {0, 12}
          BY <1>L
        <4> QED
          BY <1>5, <4>1, <4>2 DEF WriteAt
      <3>4. CASE j = 2
        <4>1. w[k] = Directory("Exif", 25) /\ k = 12 + p
          BY <1>2, <1>5, <3>1, <3>2, <3>4
        <4>2. g \in {0, 12}
          BY <1>L
        <4> QED
          BY <1>5, <4>1, <4>2 DEF WriteAt
      <3>5. CASE j \in 3 .. 27
        <4>1. 13 + p <= k /\ k <= 37 + p
          BY <1>5, <3>1, <3>5
        <4>2. IsPlain(w[k], "Exif", k - 12 - p)
          <5>1. k - 12 - p = j - 2
            BY <1>5, <3>1
          <5>2. IsPlain(e[j], "Exif", j - 2)
            BY <1>P, <3>5
          <5> QED
            BY <3>2, <5>1, <5>2
        <4> QED
          BY <1>5, <1>L, <4>1, <4>2 DEF WriteAt
      <3> QED
        BY <3>3, <3>4, <3>5
    <2>3. CASE 38 + p <= k /\ k <= 37 + p + g
      <3>1. g = 12
        BY <1>3, <1>5, <2>3
      <3>2. PICK j \in 1 .. 12 : k = 37 + p + j
        <4>1. k - (37 + p) \in 1 .. 12 /\ k = 37 + p + (k - (37 + p))
          BY <1>5, <2>3, <3>1
        <4> QED
          BY <4>1
      <3>3. w[k] = n[j]
        <4>1. \A l \in 1 .. 12 : w[10 + p + 27 + l] = n[l]
          BY <1>8, <1>L, <3>1
        <4>2. k = 10 + p + 27 + j
          BY <1>5, <3>2
        <4> QED
          BY <4>1, <4>2
      <3>4. CASE j = 1
        <4>1. w[k] = Tag("IFDTag", "0th", \h8825, 1) /\ k = 38 + p
          BY <1>3, <1>5, <3>1, <3>2, <3>3, <3>4
        <4> QED
          BY <1>5, <3>1, <4>1 DEF WriteAt
      <3>5. CASE j = 2
        <4>1. w[k] = Directory("GPS", 10) /\ k = 39 + p
          BY <1>3, <1>5, <3>1, <3>2, <3>3, <3>5
        <4> QED
          BY <1>5, <3>1, <4>1 DEF WriteAt
      <3>6. CASE j \in 3 .. 12
        <4>1. \A l \in 3 .. 12 : IsPlain(n[l], "GPS", l - 2)
          BY <1>3, <3>1
        <4>2. IsPlain(w[k], "GPS", k - 39 - p)
          <5>1. k - 39 - p = j - 2
            BY <1>5, <3>2
          <5>2. IsPlain(n[j], "GPS", j - 2)
            BY <3>6, <4>1
          <5> QED
            BY <3>3, <5>1, <5>2
        <4> QED
          BY <1>5, <3>1, <3>2, <3>6, <4>2 DEF WriteAt
      <3> QED
        BY <3>4, <3>5, <3>6
    <2>4. CASE 38 + p + g <= k
      <3>1. PICK j \in 1 .. Len(f) : k = 37 + p + g + j
        <4>1. /\ k - (37 + p + g) \in 1 .. Len(f) /\ k = 37 + p + g + (k - (37 + p + g))
          BY <1>5, <1>9, <1>L, <1>W, <2>4
        <4> QED
          BY <4>1
      <3>2. w[k] = f[j]
        <4>1. k = Len(v) + Len(e) + Len(n) + j
          BY <1>5, <1>L, <3>1
        <4> QED
          BY <1>8, <3>1, <4>1
      <3>3. CASE j = 1
        BY <1>4, <1>5, <1>L, <3>1, <3>2, <3>3 DEF WriteAt
      <3>4. CASE j > 1
        <4>1. i.hasThumbnail /\ j \in 2 .. 14 - p
          BY <1>5, <1>L, <3>1, <3>4
        <4>2. CASE j \in 3 .. 12 /\ j # 10
          <5>1. IsPlain(w[k], "1st", k - 39 - p - g)
            <6>1. \A l \in 3 .. 12 : l # 10 => IsPlain(f[l], "1st", l - 2)
              BY <1>4, <4>1
            <6>2. k - 39 - p - g = j - 2
              BY <1>5, <1>L, <3>1
            <6>3. IsPlain(f[j], "1st", j - 2)
              BY <4>2, <6>1
            <6> QED
              BY <3>2, <6>2, <6>3
          <5>2. (j = 11 => w[k].write = "LONGTag") /\ (j = 12 => w[k].write = "SHORTTag")
            BY <1>4, <3>2, <4>1
          <5>3. /\ 40 + p + g <= k /\ k <= 49 + p + g /\ k # 47 + p + g
                /\ k = 48 + p + g => j = 11
                /\ k = 49 + p + g => j = 12
            BY <1>5, <1>L, <3>1, <4>2
          <5>4. /\ k # 1 /\ k # 6 /\ ~(k <= 10 + p) /\ k # 11 + p /\ k # 12 + p /\ ~(k <= 37 + p)
                /\ ~(g = 12 /\ k <= 49 + p)
                /\ k # 38 + p + g /\ k # 39 + p + g /\ k # 50 + p + g /\ k # 51 + p + g
            BY <1>5, <1>L, <5>3
          <5>5. g = 12 => k # 38 + p /\ k # 39 + p
            BY <1>5, <1>L, <5>3
          <5> QED
            BY <5>1, <5>2, <5>3, <5>4, <5>5 DEF WriteAt
        <4>3. CASE j = 2 \/ j = 10 \/ j = 13
          BY <1>4, <1>5, <1>L, <3>1, <3>2, <4>1, <4>3 DEF WriteAt
        <4>4. CASE j = 14
          <5>1. p = 0 /\ w[k] = Tag("thumbnail", "1st", 0, i.thumbSize)
            BY <1>4, <1>5, <3>2, <4>1, <4>4
          <5> QED
            BY <1>L, <3>1, <4>4, <5>1 DEF WriteAt
        <4> QED
          BY <1>5, <4>1, <4>2, <4>3, <4>4
      <3> QED
        BY <3>1, <3>3, <3>4
    <2> QED
      BY <1>3, <1>5, <2>1, <2>2, <2>3, <2>4
  <1> QED
    BY <1>8, <1>9, <1>10 DEF w, p, g, IsWrite

-----------------------------------------------------------------------------
(* How far a call is after k writes: the directories that have been begun,   *)
(* how many of their entries have been written, and how many there will be.  *)
Clamp(x, n) == IF x < 0 THEN 0 ELSE IF x > n THEN n ELSE x

FilledAt(p, g, d, k) ==
  CASE d = "0th" -> Clamp(k - 1, 4) + Clamp(k - 5 - p, 6)
                    + (IF g = 12 THEN Clamp(k - 37 - p, 1) ELSE 0)
    [] d = "Exif" -> Clamp(k - 12 - p, 25)
    [] d = "GPS" -> IF g = 12 THEN Clamp(k - 39 - p, 10) ELSE 0
    [] OTHER -> Clamp(k - 39 - p - g, 10)

BegunAt(p, g, d, k) ==
  CASE d = "0th" -> k >= 1
    [] d = "Exif" -> k >= 12 + p
    [] d = "GPS" -> g = 12 /\ k >= 39 + p
    [] OTHER -> k >= 39 + p + g

NumAt(g, d) ==
  CASE d = "0th" -> IF g = 12 THEN 11 ELSE 10
    [] d = "Exif" -> 25
    [] OTHER -> 10

Filled(i, k) == [d \in IFDs |-> FilledAt(Pad(i), Gps(i), d, k)]
Begun(i, k) == {d \in IFDs : BegunAt(Pad(i), Gps(i), d, k)}
Num(i) == [d \in IFDs |-> NumAt(Gps(i), d)]

(* The next write of a call, t, has its place.                               *)
HasPlace(t, last, f, f1, B, B1, n) ==
  \/ /\ t.write = "IFD" /\ t.count = n[t.ifd] /\ t.ifd \notin B /\ B1 = B \cup {t.ifd}
     /\ f1 = f /\ f[t.ifd] = 0
  \/ /\ t.write \in EntryWrites /\ t.ifd \in B /\ f[t.ifd] < n[t.ifd]
     /\ t.id = Id(t.ifd, f[t.ifd] + 1)
     /\ f1 = [f EXCEPT ![t.ifd] = @ + 1] /\ B1 = B
  \/ /\ t.write = "NextIFD" /\ t.ifd \in B /\ f[t.ifd] = n[t.ifd]
     /\ f1 = f /\ B1 = B
  \/ t.write = "padd" /\ f1 = f /\ B1 = B
  \/ t.write = "thumbnail" /\ last /\ f1 = f /\ B1 = B

PlaceAt(p, g, t, last, k) ==
  \/ /\ t.write = "IFD" /\ t.count = NumAt(g, t.ifd)
     /\ ~BegunAt(p, g, t.ifd, k) /\ BegunAt(p, g, t.ifd, k + 1) /\ FilledAt(p, g, t.ifd, k) = 0
     /\ \A d \in IFDs : /\ FilledAt(p, g, d, k + 1) = FilledAt(p, g, d, k)
                        /\ d # t.ifd => (BegunAt(p, g, d, k + 1) <=> BegunAt(p, g, d, k))
  \/ /\ t.write \in EntryWrites /\ BegunAt(p, g, t.ifd, k)
     /\ FilledAt(p, g, t.ifd, k) < NumAt(g, t.ifd)
     /\ t.id = Id(t.ifd, FilledAt(p, g, t.ifd, k) + 1)
     /\ FilledAt(p, g, t.ifd, k + 1) = FilledAt(p, g, t.ifd, k) + 1
     /\ \A d \in IFDs : /\ BegunAt(p, g, d, k + 1) <=> BegunAt(p, g, d, k)
                        /\ d # t.ifd => FilledAt(p, g, d, k + 1) = FilledAt(p, g, d, k)
  \/ /\ \/ /\ t.write = "NextIFD" /\ BegunAt(p, g, t.ifd, k)
           /\ FilledAt(p, g, t.ifd, k) = NumAt(g, t.ifd)
        \/ t.write = "padd"
        \/ t.write = "thumbnail" /\ last
     /\ \A d \in IFDs : /\ FilledAt(p, g, d, k + 1) = FilledAt(p, g, d, k)
                        /\ BegunAt(p, g, d, k + 1) <=> BegunAt(p, g, d, k)

LEMMA Places ==
  ASSUME NEW i \in InfoType, NEW k \in 0 .. Length(i) - 1
  PROVE  LET t == Writes(i)[k + 1] IN
         t \in Tags /\ PlaceAt(Pad(i), Gps(i), t, k + 1 = Length(i), k)
  <1> DEFINE p == Pad(i)
             g == Gps(i)
             t == Writes(i)[k + 1]
             last == k + 1 = Length(i)
             h == i.hasThumbnail
  <1>1. p \in {0, 1} /\ g \in {0, 12}
    BY DEF Pad, Gps
  <1>2. Length(i) = 38 + p + g + (IF h THEN 13 - p ELSE 0)
    BY DEF Length
  <1>3. k + 1 \in 1 .. Length(i) /\ Length(i) \in Nat
    BY <1>1, <1>2
  <1>4. t \in Tags /\ IsWrite(i, k + 1, t)
    BY <1>3, WritesTable
  <1>5. WriteAt(i, p, g, k + 1, t)
    BY <1>4 DEF IsWrite
  <1>6. g = 12 <=> i.hasGps
    BY DEF Gps, InfoType
  <1> HIDE DEF p, g, t, h
  <1> SUFFICES PlaceAt(p, g, t, last, k)
    BY <1>4 DEF p, g, t
  <1> USE DEF PlaceAt, FilledAt, BegunAt, NumAt, Clamp, IFDs
  <1>7. CASE k + 1 = 1
    <2>1. t = Directory("0th", Num0th(i))
      BY <1>5, <1>7 DEF WriteAt
    <2>2. t.write = "IFD" /\ t.ifd = "0th" /\ t.count = NumAt(g, "0th")
      BY <1>6, <2>1 DEF Directory, Tag, Num0th
    <2> QED
      BY <1>1, <1>4, <1>7, <2>2
  <1>8. CASE \/ 2 <= k + 1 /\ k + 1 <= 11 + p /\ ~(k + 1 = 6 /\ p = 1)
             \/ g = 12 /\ k + 1 = 38 + p
    <2>1. PICK j : /\ t.write \in EntryWrites /\ t.ifd = "0th" /\ t.id = Id("0th", j)
                   /\ j = FilledAt(p, g, "0th", k) + 1
      <3>1. CASE k + 1 <= 10 + p
        <4>1. IsPlain(t, "0th", Nth0th(p, k + 1))
          BY <1>1, <1>3, <1>5, <1>8, <3>1 DEF WriteAt
        <4>2. Nth0th(p, k + 1) = FilledAt(p, g, "0th", k) + 1
          BY <1>1, <1>3, <1>8, <3>1 DEF Nth0th
        <4> QED
          BY <4>1, <4>2 DEF IsPlain, EntryWrites
      <3>2. CASE k + 1 = 11 + p
        <4>1. t.write = "IFDTag" /\ t.ifd = "0th" /\ t.id = \h8769
          BY <1>5, <3>2 DEF WriteAt, Tag
        <4>2. \h8769 = Id("0th", 10)
          BY DEF Id, Ids0th
        <4>3. FilledAt(p, g, "0th", k) + 1 = 10
          BY <1>1, <1>3, <3>2
        <4> QED
          BY <4>1, <4>2, <4>3 DEF EntryWrites
      <3>3. CASE g = 12 /\ k + 1 = 38 + p
        <4>1. t.write = "IFDTag" /\ t.ifd = "0th" /\ t.id = \h8825
          BY <1>5, <3>3 DEF WriteAt, Tag
        <4>2. \h8825 = Id("0th", 11)
          BY DEF Id, Ids0th
        <4>3. FilledAt(p, g, "0th", k) + 1 = 11
          BY <1>1, <1>3, <3>3
        <4> QED
          BY <4>1, <4>2, <4>3 DEF EntryWrites
      <3> QED
        BY <1>1, <1>3, <1>8, <3>1, <3>2, <3>3
    <2>2. t.write \in EntryWrites /\ t.ifd = "0th"
      BY <2>1
    <2>3. t.id = Id(t.ifd, FilledAt(p, g, t.ifd, k) + 1)
      <3> HIDE DEF FilledAt
      <3> QED
        BY <2>1
    <2> QED
      BY <1>1, <1>3, <1>4, <1>8, <2>2, <2>3
  <1>9. CASE k + 1 = 6 /\ p = 1
    <2>1. t.write = "padd"
      BY <1>5, <1>9 DEF WriteAt, Tag
    <2> QED
      BY <1>1, <1>4, <1>9, <2>1
  <1>10. CASE k + 1 = 12 + p
    <2>1. t.write = "IFD" /\ t.ifd = "Exif" /\ t.count = 25
      BY <1>5, <1>10 DEF WriteAt, Directory, Tag
    <2> QED
      BY <1>1, <1>4, <1>10, <2>1
  <1>11. CASE 13 + p <= k + 1 /\ k + 1 <= 37 + p
    <2>0. PICK j : j = (k + 1) - 12 - p
      OBVIOUS
    <2>1. t.write \in EntryWrites /\ t.ifd = "Exif" /\ t.id = Id("Exif", j)
      <3>1. IsPlain(t, "Exif", j)
        BY <1>5, <1>11, <2>0 DEF WriteAt
      <3> QED
        BY <3>1 DEF IsPlain, EntryWrites
    <2>2. j = FilledAt(p, g, "Exif", k) + 1
      BY <1>1, <1>3, <1>11, <2>0
    <2>3. t.id = Id(t.ifd, FilledAt(p, g, t.ifd, k) + 1)
      <3> HIDE DEF FilledAt
      <3> QED
        BY <2>1, <2>2
    <2>4. /\ BegunAt(p, g, t.ifd, k) /\ FilledAt(p, g, t.ifd, k) < NumAt(g, t.ifd)
          /\ FilledAt(p, g, t.ifd, k + 1) = FilledAt(p, g, t.ifd, k) + 1
          /\ \A d \in IFDs : /\ BegunAt(p, g, d, k + 1) <=> BegunAt(p, g, d, k)
                             /\ d # t.ifd => FilledAt(p, g, d, k + 1) = FilledAt(p, g, d, k)
      BY <1>1, <1>3, <1>11, <2>1
    <2> HIDE DEF FilledAt, BegunAt, NumAt
    <2> QED
      BY <2>1, <2>3, <2>4
  <1>12. CASE g = 12 /\ k + 1 = 39 + p
    <2>1. t.write = "IFD" /\ t.ifd = "GPS" /\ t.count = 10
      BY <1>5, <1>12 DEF WriteAt, Directory, Tag
    <2> QED
      BY <1>1, <1>4, <1>12, <2>1
  <1>13. CASE g = 12 /\ 40 + p <= k + 1 /\ k + 1 <= 49 + p
    <2>0. PICK j : j = (k + 1) - 39 - p
      OBVIOUS
    <2>1. t.write \in EntryWrites /\ t.ifd = "GPS" /\ t.id = Id("GPS", j)
      <3>1. IsPlain(t, "GPS", j)
        BY <1>5, <1>13, <2>0 DEF WriteAt
      <3> QED
        BY <3>1 DEF IsPlain, EntryWrites
    <2>2. j = FilledAt(p, g, "GPS", k) + 1
      BY <1>1, <1>3, <1>13, <2>0
    <2>3. t.id = Id(t.ifd, FilledAt(p, g, t.ifd, k) + 1)
      <3> HIDE DEF FilledAt
      <3> QED
        BY <2>1, <2>2
    <2>4. /\ BegunAt(p, g, t.ifd, k) /\ FilledAt(p, g, t.ifd, k) < NumAt(g, t.ifd)
          /\ FilledAt(p, g, t.ifd, k + 1) = FilledAt(p, g, t.ifd, k) + 1
          /\ \A d \in IFDs : /\ BegunAt(p, g, d, k + 1) <=> BegunAt(p, g, d, k)
                             /\ d # t.ifd => FilledAt(p, g, d, k + 1) = FilledAt(p, g, d, k)
      BY <1>1, <1>3, <1>13, <2>1
    <2> HIDE DEF FilledAt, BegunAt, NumAt
    <2> QED
      BY <2>1, <2>3, <2>4
  <1>14. CASE k + 1 = 38 + p + g
    <2>1. t.write = "NextIFD" /\ t.ifd = "0th"
      BY <1>5, <1>14 DEF WriteAt, NextIFD, Tag
    <2> QED
      BY <1>1, <1>4, <1>14, <2>1
  <1>15. CASE k + 1 = 39 + p + g
    <2>1. t.write = "IFD" /\ t.ifd = "1st" /\ t.count = 10
      BY <1>5, <1>15 DEF WriteAt, Directory, Tag
    <2> QED
      BY <1>1, <1>4, <1>15, <2>1
  <1>16. CASE 40 + p + g <= k + 1 /\ k + 1 <= 49 + p + g
    <2>0. PICK j : j = (k + 1) - 39 - p - g
      OBVIOUS
    <2>1. t.write \in EntryWrites /\ t.ifd = "1st" /\ t.id = Id("1st", j)
      <3>1. CASE k + 1 = 47 + p + g
        <4>1. t.write = "JFIF" /\ t.ifd = "1st" /\ t.id = \h0201
          BY <1>5, <3>1 DEF WriteAt, Tag
        <4>2. \h0201 = Id("1st", 8)
          BY DEF Id, Ids1st
        <4>3. j = 8
          BY <1>1, <1>3, <2>0, <3>1
        <4> QED
          BY <4>1, <4>2, <4>3 DEF EntryWrites
      <3>2. CASE k + 1 # 47 + p + g
        <4>1. IsPlain(t, "1st", j)
          BY <1>5, <1>16, <2>0, <3>2 DEF WriteAt
        <4> QED
          BY <4>1 DEF IsPlain, EntryWrites
      <3> QED
        BY <3>1, <3>2
    <2>2. j = FilledAt(p, g, "1st", k) + 1
      BY <1>1, <1>3, <1>16, <2>0
    <2>3. t.id = Id(t.ifd, FilledAt(p, g, t.ifd, k) + 1)
      <3> HIDE DEF FilledAt
      <3> QED
        BY <2>1, <2>2
    <2>4. /\ BegunAt(p, g, t.ifd, k) /\ FilledAt(p, g, t.ifd, k) < NumAt(g, t.ifd)
          /\ FilledAt(p, g, t.ifd, k + 1) = FilledAt(p, g, t.ifd, k) + 1
          /\ \A d \in IFDs : /\ BegunAt(p, g, d, k + 1) <=> BegunAt(p, g, d, k)
                             /\ d # t.ifd => FilledAt(p, g, d, k + 1) = FilledAt(p, g, d, k)
      BY <1>1, <1>3, <1>16, <2>1
    <2> HIDE DEF FilledAt, BegunAt, NumAt
    <2> QED
      BY <2>1, <2>3, <2>4
  <1>17. CASE k + 1 = 50 + p + g
    <2>1. t.write = "NextIFD" /\ t.ifd = "1st"
      BY <1>5, <1>17 DEF WriteAt, NextIFD, Tag
    <2> QED
      BY <1>1, <1>4, <1>17, <2>1
  <1>18. CASE k + 1 = 51 + p + g
    <2>1. t.write = "thumbnail"
      BY <1>5, <1>18 DEF WriteAt, Tag
    <2>2. last
      BY <1>1, <1>2, <1>3, <1>18
    <2> QED
      BY <1>1, <1>4, <1>18, <2>1, <2>2
  <1> QED
    BY <1>1, <1>2, <1>3, <1>7, <1>8, <1>9, <1>10, <1>11, <1>12, <1>13, <1>14, <1>15, <1>16, <1>17, <1>18

LEMMA Walk ==
  ASSUME NEW i \in InfoType, NEW k \in 0 .. Length(i) - 1
  PROVE  LET t == Writes(i)[k + 1] IN
         /\ t \in Tags
         /\ HasPlace(t, k + 1 = Length(i), Filled(i, k), Filled(i, k + 1), Begun(i, k), Begun(i, k + 1),
                     Num(i))
  <1> DEFINE p == Pad(i)
             g == Gps(i)
             t == Writes(i)[k + 1]
             last == k + 1 = Length(i)
  <1>1. t \in Tags /\ t.ifd \in IFDs
    BY Places DEF Tags
  <1>2. PlaceAt(p, g, t, last, k)
    BY Places
  <1> HIDE DEF p, g, t, last
  <1> DEFINE f == [d \in IFDs |-> FilledAt(p, g, d, k)]
             f1 == [d \in IFDs |-> FilledAt(p, g, d, k + 1)]
             B == {d \in IFDs : BegunAt(p, g, d, k)}
             B1 == {d \in IFDs : BegunAt(p, g, d, k + 1)}
             n == [d \in IFDs |-> NumAt(g, d)]
  <1>3. HasPlace(t, last, f, f1, B, B1, n)
    BY <1>1, <1>2 DEF HasPlace, PlaceAt
  <1> QED
    BY <1>1, <1>3 DEF Filled, Begun, Num, p, g, t, last

-----------------------------------------------------------------------------
(* Where things lie. A directory has a block for its number, its entries and *)
(* the offset of the next directory; everything else is outside the blocks,  *)
(* and everything before the end of the file.                                *)
InBlock == {"number", "entry", "next"}

BlockEnd(a) == a.at + NUMBER_SIZE + a.id * TAG_SIZE + OFFSET_SIZE

(* b is in the block of a, where f of n entries have been written, up to c.  *)
Within(a, b, c, f, n) ==
  /\ b.what = "number" => b = a
  /\ b.what = "entry" => a.at + NUMBER_SIZE <= b.at /\ End(b) <= c
  /\ b.what = "next" => /\ f = n /\ b.at = c /\ b.len = OFFSET_SIZE
                       /\ b = Area("next", a.ifd, 0, c, OFFSET_SIZE)

Apart(a, b) == End(b) <= a.at \/ BlockEnd(a) <= b.at

Measured(w, off) == \A a \in w : a.ifd \in IFDs /\ a.at \in Int /\ a.len \in Nat /\ End(a) <= off

Blocks(w, cur, off, f, n) ==
  \A a \in w : a.what = "number" =>
    /\ a.id = n[a.ifd] /\ a.len = NUMBER_SIZE /\ f[a.ifd] <= n[a.ifd]
    /\ cur[a.ifd] = a.at + NUMBER_SIZE + TAG_SIZE * f[a.ifd]
    /\ BlockEnd(a) <= off

Kept(w, cur, f, n) ==
  \A a, b \in w : a.what = "number" =>
    IF b.ifd = a.ifd /\ b.what \in InBlock THEN Within(a, b, cur[a.ifd], f[a.ifd], n[a.ifd])
    ELSE Apart(a, b)

Separate(w) == \A a, b \in w : a # b => Disjoint(a, b)

HaveBlocks(w, B) ==
  /\ \A b \in w : b.what \in InBlock => b.ifd \in B
  /\ \A d \in B : \E a \in w : a.what = "number" /\ a.ifd = d

Numbers(cur, off, f, n) ==
  /\ off \in Int /\ cur \in [IFDs -> Int]
  /\ f \in [IFDs -> Nat] /\ n \in [IFDs -> Nat]

Layout(w, cur, off, f, B, n) ==
  /\ Numbers(cur, off, f, n) /\ B \subseteq IFDs
  /\ Measured(w, off) /\ Blocks(w, cur, off, f, n) /\ Kept(w, cur, f, n)
  /\ Separate(w) /\ HaveBlocks(w, B)

LEMMA AddEntry ==
  ASSUME NEW w, NEW cur, NEW off, NEW f, NEW B, NEW n, Layout(w, cur, off, f, B, n),
         NEW d \in B, f[d] < n[d], NEW e,
         e.what = "entry", e.ifd = d, e.at = cur[d], e.len = TAG_SIZE
  PROVE  /\ Layout(w \cup {e}, [cur EXCEPT ![d] = @ + TAG_SIZE], off, [f EXCEPT ![d] = @ + 1], B, n)
         /\ \A a \in w : Disjoint(a, e) /\ End(e) <= off
  <1> DEFINE w1 == w \cup {e}
             c1 == [cur EXCEPT ![d] = @ + TAG_SIZE]
             f1 == [f EXCEPT ![d] = @ + 1]
  <1> USE DEF TAG_SIZE, NUMBER_SIZE, OFFSET_SIZE, End
  <1>1. /\ Numbers(cur, off, f, n) /\ B \subseteq IFDs /\ d \in IFDs
        /\ Measured(w, off) /\ Blocks(w, cur, off, f, n) /\ Kept(w, cur, f, n)
        /\ Separate(w) /\ HaveBlocks(w, B)
    BY DEF Layout
  <1>2. /\ Numbers(c1, off, f1, n)
        /\ c1[d] = cur[d] + 12 /\ f1[d] = f[d] + 1
        /\ \A x \in IFDs : x # d => c1[x] = cur[x] /\ f1[x] = f[x]
    BY <1>1 DEF Numbers
  <1>3. /\ cur[d] \in Int /\ f[d] \in Nat /\ n[d] \in Nat /\ off \in Int
    BY <1>1 DEF Numbers
  <1>4. PICK m \in w : m.what = "number" /\ m.ifd = d
    BY <1>1 DEF HaveBlocks
  <1>5. /\ m.id = n[d] /\ m.at \in Int /\ m.len = 2
        /\ cur[d] = m.at + 2 + 12 * f[d] /\ BlockEnd(m) <= off
    BY <1>1, <1>4 DEF Blocks, Measured
  <1>6. m.at + 2 <= e.at /\ e.at + 12 + 4 <= BlockEnd(m)
    BY <1>3, <1>5 DEF BlockEnd
  <1>7. End(e) <= off /\ BlockEnd(m) \in Int
    BY <1>3, <1>5, <1>6 DEF BlockEnd
  <1>8. ASSUME NEW a \in w PROVE End(a) <= e.at \/ (e.at + 12 <= a.at)
    <2>1. a.at \in Int /\ a.len \in Nat
      BY <1>1 DEF Measured
    <2>2. CASE a.ifd = d /\ a.what \in InBlock
      <3>1. Within(m, a, cur[d], f[d], n[d])
        BY <1>1, <1>4, <2>2 DEF Kept
      <3> QED
        BY <1>3, <1>5, <2>2, <3>1 DEF Within, InBlock
    <2>3. CASE ~(a.ifd = d /\ a.what \in InBlock)
      <3>1. Apart(m, a)
        BY <1>1, <1>4, <2>3 DEF Kept
      <3> QED
        BY <1>3, <1>5, <1>6, <1>7, <2>1, <3>1 DEF Apart
    <2> QED
      BY <2>2, <2>3
  <1> HIDE DEF c1, f1
  <1>9. Measured(w1, off)
    BY <1>1, <1>3, <1>7 DEF Measured
  <1>10. Blocks(w1, c1, off, f1, n)
    <2> SUFFICES ASSUME NEW a \in w, a.what = "number"
                 PROVE  /\ a.id = n[a.ifd] /\ a.len = NUMBER_SIZE /\ f1[a.ifd] <= n[a.ifd]
                        /\ c1[a.ifd] = a.at + NUMBER_SIZE + TAG_SIZE * f1[a.ifd]
                        /\ BlockEnd(a) <= off
      BY DEF Blocks
    <2>1. a.ifd \in IFDs /\ a.at \in Int
      BY <1>1 DEF Measured
    <2>2. /\ a.id = n[a.ifd] /\ a.len = NUMBER_SIZE /\ f[a.ifd] <= n[a.ifd]
          /\ cur[a.ifd] = a.at + NUMBER_SIZE + TAG_SIZE * f[a.ifd]
          /\ BlockEnd(a) <= off
      BY <1>1 DEF Blocks
    <2>3. CASE a.ifd = d
      BY <1>2, <1>3, <2>1, <2>2, <2>3
    <2>4. CASE a.ifd # d
      BY <1>2, <2>1, <2>2, <2>4
    <2> QED
      BY <2>3, <2>4
  <1>11. Kept(w1, c1, f1, n)
    <2> SUFFICES ASSUME NEW a \in w, a.what = "number", NEW b \in w1
                 PROVE  IF b.ifd = a.ifd /\ b.what \in InBlock
                        THEN Within(a, b, c1[a.ifd], f1[a.ifd], n[a.ifd])
                        ELSE Apart(a, b)
      BY DEF Kept
    <2>1. a.ifd \in IFDs /\ a.at \in Int /\ a.id = n[a.ifd] /\ n[a.ifd] \in Nat /\ a.len = 2
          /\ BlockEnd(a) <= off /\ BlockEnd(a) \in Int
      BY <1>1 DEF Measured, Blocks, Numbers, BlockEnd
    <2>2. a.ifd = d => a = m
      <3>1. a.ifd = d => Within(m, a, cur[d], f[d], n[d])
        BY <1>1, <1>4 DEF Kept, InBlock
      <3> QED
        BY <3>1 DEF Within
    <2>3. CASE b = e
      <3>1. CASE a.ifd = d
        BY <1>2, <1>3, <1>6, <2>2, <2>3, <3>1 DEF Within, InBlock
      <3>2. CASE a.ifd # d
        <4>1. Apart(a, m)
          BY <1>1, <1>4, <3>2 DEF Kept
        <4>2. End(e) <= a.at \/ BlockEnd(a) <= e.at
          <5>1. CASE m.at + 2 <= a.at
            <6>1. Apart(m, a)
              BY <1>1, <1>4, <3>2 DEF Kept
            <6> QED
              BY <1>3, <1>5, <1>6, <1>7, <2>1, <5>1, <6>1 DEF Apart
          <5>2. CASE BlockEnd(a) <= m.at
            BY <1>3, <1>5, <1>6, <2>1, <5>2
          <5> QED
            BY <1>5, <4>1, <5>1, <5>2 DEF Apart
        <4> QED
          BY <2>3, <3>2, <4>2 DEF Apart
      <3> QED
        BY <3>1, <3>2
    <2>4. CASE b \in w
      <3>1. IF b.ifd = a.ifd /\ b.what \in InBlock
            THEN Within(a, b, cur[a.ifd], f[a.ifd], n[a.ifd]) ELSE Apart(a, b)
        BY <1>1, <2>4 DEF Kept
      <3>2. b.at \in Int /\ b.len \in Nat
        BY <1>1, <2>4 DEF Measured
      <3>3. CASE a.ifd = d
        BY <1>2, <1>3, <3>1, <3>2, <3>3 DEF Within, InBlock
      <3>4. CASE a.ifd # d
        BY <1>2, <2>1, <3>1, <3>4
      <3> QED
        BY <3>3, <3>4
    <2> QED
      BY <2>3, <2>4
  <1>12. Separate(w1)
    BY <1>1, <1>8 DEF Separate, Disjoint
  <1>13. HaveBlocks(w1, B)
    BY <1>1 DEF HaveBlocks
  <1>14. Layout(w1, c1, off, f1, B, n)
    BY <1>1, <1>2, <1>9, <1>10, <1>11, <1>12, <1>13 DEF Layout
  <1> QED
    BY <1>7, <1>8, <1>14 DEF c1, f1, Disjoint

(* Bytes outside the blocks go to the end.                                   *)
IsAtEnd(v, off) ==
  /\ v.what \in {"value", "padd", "thumbnail"}
  /\ v.ifd \in IFDs /\ v.at = off /\ v.len \in Nat

LEMMA AddAtEnd ==
  ASSUME NEW w, NEW cur, NEW off, NEW f, NEW B, NEW n, Layout(w, cur, off, f, B, n),
         NEW v, IsAtEnd(v, off)
  PROVE  /\ Layout(w \cup {v}, cur, off + v.len, f, B, n)
         /\ \A a \in w : Disjoint(a, v)
  <1> DEFINE w1 == w \cup {v}
  <1> USE DEF TAG_SIZE, NUMBER_SIZE, OFFSET_SIZE, End, IsAtEnd
  <1>1. /\ Numbers(cur, off, f, n) /\ B \subseteq IFDs
        /\ Measured(w, off) /\ Blocks(w, cur, off, f, n) /\ Kept(w, cur, f, n)
        /\ Separate(w) /\ HaveBlocks(w, B) /\ off \in Int
    BY DEF Layout, Numbers
  <1>2. Measured(w1, off + v.len)
    BY <1>1 DEF Measured
  <1>3. \A a \in w : a.what = "number" => BlockEnd(a) <= off /\ BlockEnd(a) \in Int
    BY <1>1 DEF Blocks, Measured, Numbers, BlockEnd
  <1>4. Blocks(w1, cur, off + v.len, f, n)
    <2>1. v.what # "number"
      OBVIOUS
    <2>2. \A a \in w : a.what = "number" => BlockEnd(a) <= off + v.len
      BY <1>1, <1>3
    <2> QED
      BY <1>1, <2>1, <2>2 DEF Blocks
  <1>5. Kept(w1, cur, f, n)
    <2>1. v.what \notin InBlock /\ v.what # "number"
      BY DEF InBlock
    <2>2. \A a \in w : a.what = "number" => Apart(a, v)
      BY <1>3 DEF Apart
    <2> QED
      BY <1>1, <2>1, <2>2 DEF Kept
  <1>6. \A a \in w : End(a) <= v.at
    BY <1>1 DEF Measured
  <1>7. Separate(w1)
    BY <1>1, <1>6 DEF Separate, Disjoint
  <1>8. HaveBlocks(w1, B)
    BY <1>1 DEF HaveBlocks, InBlock
  <1>9. Numbers(cur, off + v.len, f, n)
    BY <1>1 DEF Numbers
  <1> QED
    BY <1>1, <1>2, <1>4, <1>5, <1>6, <1>7, <1>8, <1>9 DEF Layout, Disjoint

LEMMA AddBlock ==
  ASSUME NEW w, NEW cur, NEW off, NEW f, NEW B, NEW n, Layout(w, cur, off, f, B, n),
         NEW d \in IFDs, d \notin B, f[d] = 0, NEW m,
         m.what = "number", m.ifd = d, m.id = n[d], m.at = off, m.len = NUMBER_SIZE
  PROVE  /\ Layout(w \cup {m}, [cur EXCEPT ![d] = off + NUMBER_SIZE],
                   off + NUMBER_SIZE + n[d] * TAG_SIZE + OFFSET_SIZE, f, B \cup {d}, n)
         /\ \A a \in w : Disjoint(a, m)
  <1> DEFINE w1 == w \cup {m}
             c1 == [cur EXCEPT ![d] = off + NUMBER_SIZE]
             off1 == off + NUMBER_SIZE + n[d] * TAG_SIZE + OFFSET_SIZE
  <1> USE DEF TAG_SIZE, NUMBER_SIZE, OFFSET_SIZE, End
  <1>1. /\ Numbers(cur, off, f, n) /\ B \subseteq IFDs
        /\ Measured(w, off) /\ Blocks(w, cur, off, f, n) /\ Kept(w, cur, f, n)
        /\ Separate(w) /\ HaveBlocks(w, B) /\ off \in Int /\ n[d] \in Nat
    BY DEF Layout, Numbers
  <1>2. /\ Numbers(c1, off1, f, n) /\ off1 = BlockEnd(m) /\ off1 >= off + 6
        /\ c1[d] = off + 2 /\ \A x \in IFDs : x # d => c1[x] = cur[x]
    BY <1>1 DEF Numbers, BlockEnd
  <1>3. off1 \in Int
    BY <1>1
  <1> HIDE DEF c1, off1
  <1>4. \A a \in w : a.what \in InBlock => a.ifd # d
    BY <1>1 DEF HaveBlocks
  <1>5. \A a \in w : End(a) <= off /\ a.at \in Int /\ a.len \in Nat /\ a.ifd \in IFDs
    BY <1>1 DEF Measured
  <1>6. \A a \in w : a.what = "number" => BlockEnd(a) <= off /\ BlockEnd(a) \in Int /\ a.ifd # d
    BY <1>1, <1>4 DEF Blocks, Measured, Numbers, BlockEnd, InBlock
  <1>7. Measured(w1, off1)
    BY <1>1, <1>2, <1>3, <1>5 DEF Measured
  <1>8. Blocks(w1, c1, off1, f, n)
    <2>1. ASSUME NEW a \in w, a.what = "number"
          PROVE  /\ a.id = n[a.ifd] /\ a.len = NUMBER_SIZE /\ f[a.ifd] <= n[a.ifd]
                 /\ c1[a.ifd] = a.at + NUMBER_SIZE + TAG_SIZE * f[a.ifd]
                 /\ BlockEnd(a) <= off1
      <3>1. c1[a.ifd] = cur[a.ifd] /\ BlockEnd(a) <= off1
        BY <1>1, <1>2, <1>3, <1>5, <1>6, <2>1
      <3> QED
        BY <1>1, <2>1, <3>1 DEF Blocks
    <2>2. /\ m.id = n[m.ifd] /\ m.len = NUMBER_SIZE /\ f[m.ifd] <= n[m.ifd]
          /\ c1[m.ifd] = m.at + NUMBER_SIZE + TAG_SIZE * f[m.ifd]
          /\ BlockEnd(m) <= off1
      BY <1>1, <1>2, <1>3
    <2> QED
      BY <2>1, <2>2 DEF Blocks
  <1>9. Kept(w1, c1, f, n)
    <2> SUFFICES ASSUME NEW a \in w1, a.what = "number", NEW b \in w1
                 PROVE  IF b.ifd = a.ifd /\ b.what \in InBlock
                        THEN Within(a, b, c1[a.ifd], f[a.ifd], n[a.ifd])
                        ELSE Apart(a, b)
      BY DEF Kept
    <2>1. CASE a \in w /\ b \in w
      <3>1. c1[a.ifd] = cur[a.ifd]
        BY <1>2, <1>5, <1>6, <2>1
      <3> QED
        BY <1>1, <2>1, <3>1 DEF Kept
    <2>2. CASE a \in w /\ b = m
      BY <1>6, <2>2 DEF Apart
    <2>3. CASE a = m /\ b \in w
      BY <1>4, <1>5, <2>3 DEF Apart
    <2>4. CASE a = m /\ b = m
      BY <2>4 DEF Within, InBlock
    <2> QED
      BY <2>1, <2>2, <2>3, <2>4
  <1>10. Separate(w1)
    BY <1>1, <1>5 DEF Separate, Disjoint
  <1>11. HaveBlocks(w1, B \cup {d})
    BY <1>1 DEF HaveBlocks
  <1>12. Layout(w1, c1, off1, f, B \cup {d}, n)
    BY <1>1, <1>2, <1>7, <1>8, <1>9, <1>10, <1>11 DEF Layout
  <1> QED
    BY <1>5, <1>12 DEF Disjoint, c1, off1

LEMMA AddNext ==
  ASSUME NEW w, NEW cur, NEW off, NEW f, NEW B, NEW n, Layout(w, cur, off, f, B, n),
         NEW d \in B, f[d] = n[d], NEW e, e = Area("next", d, 0, cur[d], OFFSET_SIZE)
  PROVE  Layout(w \cup {e}, cur, off, f, B, n)
  <1> DEFINE w1 == w \cup {e}
  <1> USE DEF TAG_SIZE, NUMBER_SIZE, OFFSET_SIZE, End
  <1>1. /\ Numbers(cur, off, f, n) /\ B \subseteq IFDs /\ d \in IFDs
        /\ Measured(w, off) /\ Blocks(w, cur, off, f, n) /\ Kept(w, cur, f, n)
        /\ Separate(w) /\ HaveBlocks(w, B)
    BY DEF Layout
  <1>2. e.what = "next" /\ e.ifd = d /\ e.id = 0 /\ e.at = cur[d] /\ e.len = 4
    BY DEF Area
  <1>3. cur[d] \in Int /\ f[d] \in Nat /\ n[d] \in Nat /\ off \in Int
    BY <1>1 DEF Numbers
  <1>4. PICK m \in w : m.what = "number" /\ m.ifd = d
    BY <1>1 DEF HaveBlocks
  <1>5. /\ m.id = n[d] /\ m.at \in Int /\ m.len = 2
        /\ cur[d] = m.at + 2 + 12 * f[d] /\ BlockEnd(m) <= off
    BY <1>1, <1>4 DEF Blocks, Measured
  <1>6. m.at + 2 <= e.at /\ e.at + 4 = BlockEnd(m)
    BY <1>2, <1>3, <1>5 DEF BlockEnd
  <1>7. End(e) <= off /\ BlockEnd(m) \in Int
    BY <1>2, <1>3, <1>5, <1>6 DEF BlockEnd
  <1>8. ASSUME NEW a \in w, a # e PROVE End(a) <= e.at \/ e.at + 4 <= a.at
    <2>1. a.at \in Int /\ a.len \in Nat
      BY <1>1 DEF Measured
    <2>2. CASE a.ifd = d /\ a.what \in InBlock
      <3>1. Within(m, a, cur[d], f[d], n[d])
        BY <1>1, <1>4, <2>2 DEF Kept
      <3>2. a.what # "next"
        BY <1>4, <1>8, <3>1 DEF Within
      <3> QED
        BY <1>2, <1>3, <1>5, <2>2, <3>1, <3>2 DEF Within, InBlock
    <2>3. CASE ~(a.ifd = d /\ a.what \in InBlock)
      <3>1. Apart(m, a)
        BY <1>1, <1>4, <2>3 DEF Kept
      <3> QED
        BY <1>2, <1>3, <1>5, <1>6, <1>7, <2>1, <3>1 DEF Apart
    <2> QED
      BY <2>2, <2>3
  <1>9. Measured(w1, off)
    BY <1>1, <1>2, <1>3, <1>7 DEF Measured
  <1>10. Blocks(w1, cur, off, f, n)
    BY <1>1, <1>2 DEF Blocks
  <1>11. Kept(w1, cur, f, n)
    <2> SUFFICES ASSUME NEW a \in w, a.what = "number"
                 PROVE  IF e.ifd = a.ifd /\ e.what \in InBlock
                        THEN Within(a, e, cur[a.ifd], f[a.ifd], n[a.ifd])
                        ELSE Apart(a, e)
      BY <1>1, <1>2 DEF Kept
    <2>1. a.at \in Int /\ BlockEnd(a) <= off /\ BlockEnd(a) \in Int
      BY <1>1 DEF Measured, Blocks, Numbers, BlockEnd
    <2>2. CASE a.ifd = d
      BY <1>2, <2>2 DEF Within, InBlock
    <2>3. CASE a.ifd # d
      <3>1. Apart(a, m) /\ Apart(m, a)
        BY <1>1, <1>4, <2>3 DEF Kept
      <3>2. End(e) <= a.at \/ BlockEnd(a) <= e.at
        <4>1. CASE BlockEnd(m) <= a.at
          BY <1>2, <1>6, <4>1
        <4>2. CASE BlockEnd(a) <= m.at
          BY <1>3, <1>5, <1>6, <2>1, <4>2, <1>2
        <4>3. CASE End(m) <= a.at /\ End(a) <= m.at
          <5>1. a.len = 2
            BY <1>1 DEF Blocks
          <5> QED
            BY <1>5, <2>1, <4>3, <5>1
        <4> QED
          BY <3>1, <4>1, <4>2, <4>3 DEF Apart
      <3> QED
        BY <1>2, <2>3, <3>2 DEF Apart
    <2> QED
      BY <2>2, <2>3
  <1>12. Separate(w1)
    BY <1>1, <1>2, <1>8 DEF Separate, Disjoint
  <1>13. HaveBlocks(w1, B)
    BY <1>1, <1>2 DEF HaveBlocks
  <1> QED
    BY <1>1, <1>9, <1>10, <1>11, <1>12, <1>13 DEF Layout

-----------------------------------------------------------------------------
(* Along a call: the writes left are the last ones of the table, and what    *)
(* has been written lies as after that many writes.                          *)
Written == Length(info) - Len(todo)

Follows ==
  /\ info \in InfoType /\ todo \in Seq(Tags) /\ Len(todo) <= Length(info)
  /\ \A j \in 1 .. Len(todo) : todo[j] = Writes(info)[Written + j]

Laid == Layout(written, pCurBuff, offset, Filled(info, Written), Begun(info, Written), Num(info))

LayoutInv ==
  /\ Follows
  /\ todo # << >> => Laid
  /\ NoOverlap

LEMMA LengthIsNat ==
  ASSUME NEW i \in InfoType
  PROVE  Length(i) \in Nat /\ Length(i) >= 38
  BY DEF Length, Pad, Gps

LEMMA NoneLeft ==
  ASSUME NEW s \in Seq(Tags)
  PROVE  s = << >> <=> Len(s) = 0
  BY Zenon, EmptySeq

LEMMA Advance ==
  ASSUME Follows, todo # << >>, todo' = Tail(todo), info' = info
  PROVE  /\ Follows' /\ Written \in 0 .. Length(info) - 1 /\ Written' = Written + 1
         /\ Head(todo) = Writes(info)[Written + 1]
         /\ Written + 1 = Length(info) <=> todo' = << >>
         /\ Head(todo) \in Tags
         /\ HasPlace(Head(todo), todo' = << >>, Filled(info, Written), Filled(info, Written)',
                     Begun(info, Written), Begun(info, Written)', Num(info))
  <1> DEFINE l == Len(todo)
             n == Length(info)
             k == Written
             w == Writes(info)
  <1>1. /\ info \in InfoType /\ todo \in Seq(Tags) /\ l <= n /\ k = n - l
        /\ \A j \in 1 .. l : todo[j] = w[k + j]
    BY DEF Follows, Written
  <1>2. n \in Nat
    BY <1>1, LengthIsNat
  <1>3. /\ Len(todo') = l - 1 /\ l \in Nat /\ l >= 1 /\ todo' \in Seq(Tags)
        /\ Head(todo) = todo[1]
        /\ \A j \in 1 .. l - 1 : todo'[j] = todo[j + 1]
    BY <1>1
  <1>4. k' = n - (l - 1)
    BY <1>3 DEF Written
  <1>5. todo' = << >> <=> l = 1
    <2>1. todo' = << >> <=> Len(todo') = 0
      BY <1>3, NoneLeft, Zenon
    <2> QED
      BY <1>3, <2>1
  <1> HIDE DEF l, n, k, w
  <1>6. k \in 0 .. n - 1 /\ k' = k + 1 /\ Head(todo) = w[k + 1] /\ (k + 1 = n <=> todo' = << >>)
    BY <1>1, <1>2, <1>3, <1>4, <1>5
  <1>7. \A j \in 1 .. l - 1 : todo'[j] = w[k + 1 + j]
    <2> SUFFICES ASSUME NEW j \in 1 .. l - 1 PROVE todo'[j] = w[k + 1 + j]
      OBVIOUS
    <2>1. todo'[j] = todo[j + 1] /\ j + 1 \in 1 .. l
      BY <1>3
    <2>2. todo[j + 1] = w[k + (j + 1)]
      BY <1>1, <2>1
    <2>3. k + (j + 1) = k + 1 + j
      BY <1>6
    <2> QED
      BY <2>1, <2>2, <2>3
  <1>8. Follows'
    <2>1. Len(todo') <= n /\ Len(todo') = l - 1
      BY <1>1, <1>2, <1>3
    <2> QED
      BY <1>1, <1>3, <1>6, <1>7, <2>1 DEF Follows, n, k, w
  <1>9. LET t == w[k + 1] IN
        /\ t \in Tags
        /\ HasPlace(t, k + 1 = n, Filled(info, k), Filled(info, k + 1), Begun(info, k), Begun(info, k + 1),
                    Num(info))
    BY <1>1, <1>6, Walk DEF w, n
  <1>10. Filled(info, k)' = Filled(info, k + 1) /\ Begun(info, k)' = Begun(info, k + 1)
    BY <1>6 DEF Filled, Begun, Pad, Gps
  <1> QED
    BY <1>6, <1>8, <1>9, <1>10 DEF n, k, w

(* An entry, and an entry with its values.                                   *)
LEMMA EntryKeeps ==
  ASSUME LayoutInv, todo # << >>, todo' = Tail(todo), info' = info, Head(todo).write \in EntryWrites,
         written' = written \cup {EntryArea(Head(todo))}, offset' = offset,
         pCurBuff' = [pCurBuff EXCEPT ![Head(todo).ifd] = @ + TAG_SIZE]
  PROVE  LayoutInv' /\ Laid'
  <1> DEFINE t == Head(todo)
             e == EntryArea(t)
             d == t.ifd
             f == Filled(info, Written)
             f1 == Filled(info, Written)'
             B == Begun(info, Written)
             B1 == Begun(info, Written)'
             n == Num(info)
  <1>1. /\ Follows' /\ HasPlace(t, todo' = << >>, f, f1, B, B1, n)
    BY Advance DEF LayoutInv
  <1>2. d \in B /\ f[d] < n[d] /\ f1 = [f EXCEPT ![d] = @ + 1] /\ B1 = B
    BY <1>1 DEF HasPlace, EntryWrites, Plain
  <1>3. Layout(written, pCurBuff, offset, f, B, n)
    BY DEF LayoutInv, Laid
  <1>4. e.what = "entry" /\ e.ifd = d /\ e.at = pCurBuff[d] /\ e.len = TAG_SIZE
    BY DEF EntryArea, Area
  <1>5. n' = n
    BY DEF Num, Gps
  <1> HIDE DEF t, e, d, f, f1, B, B1, n
  <1>6. Layout(written \cup {e}, [pCurBuff EXCEPT ![d] = @ + TAG_SIZE], offset, [f EXCEPT ![d] = @ + 1],
               B, n)
    BY <1>2, <1>3, <1>4, AddEntry
  <1>7. Layout(written', pCurBuff', offset', f1, B1, n')
    BY <1>2, <1>5, <1>6 DEF e, d, t
  <1>8. Laid' /\ NoOverlap'
    BY <1>7 DEF Laid, f1, B1, n, Layout, Separate, NoOverlap
  <1> QED
    BY <1>1, <1>8 DEF LayoutInv

LEMMA ValueKeeps ==
  ASSUME LayoutInv, todo # << >>, todo' = Tail(todo), info' = info, Head(todo).write \in EntryWrites,
         NEW len \in Nat,
         written' = written \cup {EntryArea(Head(todo)),
                                  Area("value", Head(todo).ifd, Head(todo).id, offset, len)},
         offset' = offset + len,
         pCurBuff' = [pCurBuff EXCEPT ![Head(todo).ifd] = @ + TAG_SIZE]
  PROVE  LayoutInv' /\ Laid'
  <1> DEFINE t == Head(todo)
             e == EntryArea(t)
             d == t.ifd
             f == Filled(info, Written)
             f1 == Filled(info, Written)'
             B == Begun(info, Written)
             B1 == Begun(info, Written)'
             n == Num(info)
             v == Area("value", d, t.id, offset, len)
             w == written \cup {e}
             c == [pCurBuff EXCEPT ![d] = @ + TAG_SIZE]
  <1>1. /\ Follows' /\ HasPlace(t, todo' = << >>, f, f1, B, B1, n) /\ t \in Tags
    BY Advance DEF LayoutInv
  <1>2. d \in B /\ f[d] < n[d] /\ f1 = [f EXCEPT ![d] = @ + 1] /\ B1 = B
    BY <1>1 DEF HasPlace, EntryWrites, Plain
  <1>3. Layout(written, pCurBuff, offset, f, B, n)
    BY DEF LayoutInv, Laid
  <1>4. e.what = "entry" /\ e.ifd = d /\ e.at = pCurBuff[d] /\ e.len = TAG_SIZE
    BY DEF EntryArea, Area
  <1>5. n' = n
    BY DEF Num, Gps
  <1>6. v.what = "value" /\ v.ifd = d /\ v.at = offset /\ v.len = len /\ d \in IFDs
    BY <1>1 DEF Area, Tags
  <1>7. written' = w \cup {v} /\ pCurBuff' = c /\ offset' = offset + len
    OBVIOUS
  <1> HIDE DEF t, e, d, f, f1, B, B1, n, v
  <1>8. Layout(w, c, offset, [f EXCEPT ![d] = @ + 1], B, n)
    BY <1>2, <1>3, <1>4, AddEntry
  <1> HIDE DEF w, c
  <1>9. Layout(w \cup {v}, c, offset + v.len, [f EXCEPT ![d] = @ + 1], B, n)
    <2>1. IsAtEnd(v, offset)
      BY <1>6 DEF IsAtEnd
    <2> DEFINE f2 == [f EXCEPT ![d] = @ + 1]
    <2> HIDE DEF f2
    <2>2. Layout(w, c, offset, f2, B, n) => Layout(w \cup {v}, c, offset + v.len, f2, B, n)
      BY <2>1, AddAtEnd, Zenon
    <2> QED
      BY <1>8, <2>2 DEF f2
  <1>10. Layout(written', pCurBuff', offset', f1, B1, n')
    BY <1>2, <1>5, <1>6, <1>7, <1>9
  <1>11. Laid' /\ NoOverlap'
    BY <1>10 DEF Laid, f1, B1, n, Layout, Separate, NoOverlap
  <1> QED
    BY <1>1, <1>11 DEF LayoutInv

(* A directory, and the offset of the next one.                              *)
LEMMA DirectoryKeeps ==
  ASSUME LayoutInv, BeginIFD
  PROVE  LayoutInv' /\ Laid'
  <1> DEFINE t == Head(todo)
             d == t.ifd
             f == Filled(info, Written)
             f1 == Filled(info, Written)'
             B == Begun(info, Written)
             B1 == Begun(info, Written)'
             n == Num(info)
             m == Area("number", d, t.count, offset, NUMBER_SIZE)
  <1>0. /\ todo # << >> /\ todo' = Tail(todo) /\ info' = info /\ t.write = "IFD"
        /\ written' = written \cup {m}
        /\ pCurBuff' = [pCurBuff EXCEPT ![d] = offset + NUMBER_SIZE]
        /\ offset' = offset + NUMBER_SIZE + t.count * TAG_SIZE + OFFSET_SIZE
    BY DEF BeginIFD, Next1
  <1>1. /\ Follows' /\ HasPlace(t, todo' = << >>, f, f1, B, B1, n) /\ t \in Tags
    BY <1>0, Advance DEF LayoutInv
  <1>2. t.count = n[d] /\ d \notin B /\ B1 = B \cup {d} /\ f1 = f /\ f[d] = 0 /\ d \in IFDs
    BY <1>0, <1>1 DEF HasPlace, EntryWrites, Plain, Tags
  <1>3. Layout(written, pCurBuff, offset, f, B, n)
    BY <1>0 DEF LayoutInv, Laid
  <1>4. m.what = "number" /\ m.ifd = d /\ m.id = n[d] /\ m.at = offset /\ m.len = NUMBER_SIZE
    BY <1>2 DEF Area
  <1>5. n' = n
    BY <1>0 DEF Num, Gps
  <1> HIDE DEF t, d, f, f1, B, B1, n, m
  <1>6. Layout(written \cup {m}, [pCurBuff EXCEPT ![d] = offset + NUMBER_SIZE],
               offset + NUMBER_SIZE + n[d] * TAG_SIZE + OFFSET_SIZE, f, B \cup {d}, n)
    BY <1>2, <1>3, <1>4, AddBlock
  <1>7. Layout(written', pCurBuff', offset', f1, B1, n')
    BY <1>0, <1>2, <1>5, <1>6
  <1>8. Laid' /\ NoOverlap'
    BY <1>7 DEF Laid, f1, B1, n, Layout, Separate, NoOverlap
  <1> QED
    BY <1>1, <1>8 DEF LayoutInv

LEMMA NextKeeps ==
  ASSUME LayoutInv, WriteNextIFD
  PROVE  LayoutInv' /\ Laid'
  <1> DEFINE t == Head(todo)
             d == t.ifd
             f == Filled(info, Written)
             f1 == Filled(info, Written)'
             B == Begun(info, Written)
             B1 == Begun(info, Written)'
             n == Num(info)
             e == Area("next", d, 0, pCurBuff[d], OFFSET_SIZE)
  <1>0. /\ todo # << >> /\ todo' = Tail(todo) /\ info' = info /\ t.write = "NextIFD"
        /\ written' = written \cup {e} /\ pCurBuff' = pCurBuff /\ offset' = offset
    BY DEF WriteNextIFD, Next1
  <1>1. /\ Follows' /\ HasPlace(t, todo' = << >>, f, f1, B, B1, n)
    BY <1>0, Advance DEF LayoutInv
  <1>2. d \in B /\ f[d] = n[d] /\ f1 = f /\ B1 = B
    BY <1>0, <1>1 DEF HasPlace, EntryWrites, Plain
  <1>3. Layout(written, pCurBuff, offset, f, B, n)
    BY <1>0 DEF LayoutInv, Laid
  <1>5. n' = n
    BY <1>0 DEF Num, Gps
  <1> HIDE DEF t, d, f, f1, B, B1, n
  <1>6. Layout(written \cup {e}, pCurBuff, offset, f, B, n)
    BY <1>2, <1>3, AddNext
  <1>7. Layout(written', pCurBuff', offset', f1, B1, n')
    BY <1>0, <1>2, <1>5, <1>6
  <1>8. Laid' /\ NoOverlap'
    BY <1>7 DEF Laid, f1, B1, n, Layout, Separate, NoOverlap
  <1> QED
    BY <1>1, <1>8 DEF LayoutInv

(* The byte before the date, and the thumbnail.                              *)
LEMMA PaddKeeps ==
  ASSUME LayoutInv, WritePadd
  PROVE  LayoutInv' /\ Laid'
  <1> DEFINE t == Head(todo)
             f == Filled(info, Written)
             f1 == Filled(info, Written)'
             B == Begun(info, Written)
             B1 == Begun(info, Written)'
             n == Num(info)
             v == Area("padd", "0th", 0, offset, 1)
  <1>0. /\ todo # << >> /\ todo' = Tail(todo) /\ info' = info /\ t.write = "padd"
        /\ written' = written \cup {v} /\ pCurBuff' = pCurBuff /\ offset' = offset + 1
    BY DEF WritePadd, Next1
  <1>1. /\ Follows' /\ HasPlace(t, todo' = << >>, f, f1, B, B1, n)
    BY <1>0, Advance DEF LayoutInv
  <1>2. f1 = f /\ B1 = B
    BY <1>0, <1>1 DEF HasPlace, EntryWrites, Plain
  <1>3. Layout(written, pCurBuff, offset, f, B, n)
    BY <1>0 DEF LayoutInv, Laid
  <1>4. IsAtEnd(v, offset) /\ v.len = 1
    BY DEF Area, IFDs, IsAtEnd
  <1>5. n' = n
    BY <1>0 DEF Num, Gps
  <1> HIDE DEF t, f, f1, B, B1, n, v
  <1>6. Layout(written \cup {v}, pCurBuff, offset + v.len, f, B, n)
    BY <1>3, <1>4, AddAtEnd, Zenon
  <1>7. Layout(written', pCurBuff', offset', f1, B1, n')
    BY <1>0, <1>2, <1>4, <1>5, <1>6
  <1>8. Laid' /\ NoOverlap'
    BY <1>7 DEF Laid, f1, B1, n, Layout, Separate, NoOverlap
  <1> QED
    BY <1>1, <1>8 DEF LayoutInv

LEMMA ThumbnailKeeps ==
  ASSUME LayoutInv, WriteThumbnail
  PROVE  LayoutInv' /\ todo' = << >>
  <1> DEFINE t == Head(todo)
             f == Filled(info, Written)
             f1 == Filled(info, Written)'
             B == Begun(info, Written)
             B1 == Begun(info, Written)'
             n == Num(info)
             v == Area("thumbnail", "1st", 0, offset, t.count)
  <1>0. /\ todo # << >> /\ todo' = Tail(todo) /\ info' = info /\ t.write = "thumbnail"
        /\ written' \in {written, written \cup {v}}
    BY DEF WriteThumbnail, Next1
  <1>1. /\ Follows' /\ HasPlace(t, todo' = << >>, f, f1, B, B1, n) /\ t \in Tags
    BY <1>0, Advance DEF LayoutInv
  <1>2. todo' = << >>
    BY <1>0, <1>1 DEF HasPlace, EntryWrites, Plain
  <1>3. Layout(written, pCurBuff, offset, f, B, n)
    BY <1>0 DEF LayoutInv, Laid
  <1>4. IsAtEnd(v, offset)
    BY <1>1 DEF Area, IFDs, Tags, IsAtEnd
  <1> HIDE DEF t, f, f1, B, B1, n, v
  <1>5. Layout(written \cup {v}, pCurBuff, offset + v.len, f, B, n)
    BY <1>3, <1>4, AddAtEnd, Zenon
  <1>6. NoOverlap'
    BY <1>0, <1>3, <1>5 DEF Layout, Separate, NoOverlap
  <1> QED
    BY <1>1, <1>2, <1>6 DEF LayoutInv

LEMMA LayoutInit == Init => LayoutInv
  <1> SUFFICES ASSUME Init PROVE LayoutInv
    OBVIOUS
  <1> DEFINE a == Area("APP1", "0th", 0, -APP1_SIZE, APP1_SIZE)
             b == Area("TIFF", "0th", 0, 0, 8)
             k == Written
  <1>1. /\ info \in InfoType /\ todo = Writes(info) /\ written = {a, b} /\ offset = 8
        /\ pCurBuff = [d \in IFDs |-> 0]
    BY InfosAssumption DEF Init
  <1>2. todo \in Seq(Tags) /\ Len(todo) = Length(info) /\ Length(info) \in Nat
    BY <1>1, WritesTable, LengthIsNat
  <1>3. k = 0
    BY <1>2 DEF Written
  <1>4. Follows
    BY <1>1, <1>2, <1>3 DEF Follows
  <1>5. /\ a.what = "APP1" /\ a.ifd = "0th" /\ a.at = -10 /\ a.len = 10
        /\ b.what = "TIFF" /\ b.ifd = "0th" /\ b.at = 0 /\ b.len = 8
    BY DEF Area, APP1_SIZE
  <1>6. Begun(info, 0) = {}
    BY DEF Begun, BegunAt, Pad, Gps, IFDs
  <1>7. Filled(info, 0) \in [IFDs -> Nat] /\ Num(info) \in [IFDs -> Nat]
    BY DEF Filled, FilledAt, Num, NumAt, Clamp, Pad, Gps, IFDs
  <1> HIDE DEF a, b, k
  <1>8. Layout(written, pCurBuff, offset, Filled(info, 0), {}, Num(info))
    <2>1. Numbers(pCurBuff, offset, Filled(info, 0), Num(info))
      BY <1>1, <1>7 DEF Numbers
    <2>2. Measured(written, offset)
      BY <1>1, <1>5 DEF Measured, End, IFDs
    <2>3. \A x \in written : x.what # "number" /\ x.what \notin InBlock
      BY <1>1, <1>5 DEF InBlock
    <2>4. Separate(written)
      BY <1>1, <1>5 DEF Separate, Disjoint, End
    <2> QED
      BY <2>1, <2>2, <2>3, <2>4 DEF Layout, Blocks, Kept, HaveBlocks
  <1>9. Laid /\ NoOverlap
    BY <1>3, <1>6, <1>8 DEF Laid, Layout, Separate, NoOverlap, k
  <1> QED
    BY <1>4, <1>9 DEF LayoutInv

(* Which writes are of which kind.                                           *)
InlineStep ==
  /\ todo # << >> /\ todo' = Tail(todo) /\ info' = info /\ Head(todo).write \in EntryWrites
  /\ written' = written \cup {EntryArea(Head(todo))} /\ offset' = offset
  /\ pCurBuff' = [pCurBuff EXCEPT ![Head(todo).ifd] = @ + TAG_SIZE]

ValueStep(len) ==
  /\ todo # << >> /\ todo' = Tail(todo) /\ info' = info /\ Head(todo).write \in EntryWrites
  /\ written' = written \cup {EntryArea(Head(todo)),
                              Area("value", Head(todo).ifd, Head(todo).id, offset, len)}
  /\ offset' = offset + len
  /\ pCurBuff' = [pCurBuff EXCEPT ![Head(todo).ifd] = @ + TAG_SIZE]

LEMMA LayoutStep ==
  ASSUME LayoutInv, [Next]_vars
  PROVE  LayoutInv'
  <1> USE DEF EntryWrites, Plain
  <1> HIDE DEF EntryWrites
  <1>1. ASSUME todo # << >> PROVE Head(todo).count \in Nat
    <2>1. todo \in Seq(Tags)
      BY DEF LayoutInv, Follows
    <2>2. Head(todo) \in Tags
      BY <1>1, <2>1
    <2> QED
      BY <2>2 DEF Tags
  <1>2. ASSUME NEW type, NEW is, NEW value, todo # << >>, todo' = Tail(todo),
               Head(todo).write \in EntryWrites, Inline(Head(todo), type, is, value)
        PROVE  LayoutInv'
    BY <1>2, EntryKeeps DEF Inline, Entry
  <1>3. ASSUME NEW type, Width(type) \in Nat, todo # << >>, todo' = Tail(todo),
               Head(todo).write \in EntryWrites, OutOfLine(Head(todo), type)
        PROVE  LayoutInv'
    <2> DEFINE len == Width(type) * Head(todo).count
    <2>1. len \in Nat
      BY <1>1, <1>3
    <2>2. /\ written' = written \cup {EntryArea(Head(todo)),
                                      Area("value", Head(todo).ifd, Head(todo).id, offset, len)}
          /\ offset' = offset + len
          /\ pCurBuff' = [pCurBuff EXCEPT ![Head(todo).ifd] = @ + TAG_SIZE]
          /\ info' = info
      BY <1>3 DEF OutOfLine, Entry
    <2> HIDE DEF len
    <2> QED
      BY <1>3, <2>1, <2>2, ValueKeeps
  <1>4. \A type : Width(type) \in Nat
    BY DEF Width
  <1>5. CASE WriteSHORTTag \/ WriteLONGTag \/ WriteIFDTag \/ WriteJFIFTag
    BY <1>2, <1>5 DEF WriteSHORTTag, WriteLONGTag, WriteIFDTag, WriteJFIFTag, Next1, EntryWrites
  <1>6. CASE WriteRATIONALTag \/ WriteSRATIONALTag \/ WriteGPSInfoTag
    BY <1>3, <1>4, <1>6 DEF WriteRATIONALTag, WriteSRATIONALTag, WriteGPSInfoTag, Next1, EntryWrites
  <1>7. CASE WriteBYTESTag \/ WriteASCIITag \/ WriteUNDEFINEDTag
    BY <1>2, <1>3, <1>4, <1>7
       DEF WriteBYTESTag, WriteASCIITag, WriteUNDEFINEDTag, Counted, Next1, EntryWrites
  <1>8. CASE UNCHANGED <<info, todo, written, pCurBuff, offset>>
    BY <1>8 DEF LayoutInv, Follows, Written, Laid, NoOverlap, Filled, Begun, Num, Pad, Gps
  <1>9. CASE ReturnLength \/ UNCHANGED vars
    BY <1>8, <1>9 DEF ReturnLength, vars
  <1> QED
    BY <1>5, <1>6, <1>7, <1>9, DirectoryKeeps, NextKeeps, PaddKeeps, ThumbnailKeeps DEF Next

(* No byte of the file is written twice, whatever the strings' lengths and   *)
(* the thumbnail's: every directory gets exactly the entries its block was   *)
(* reserved for.                                                             *)
THEOREM NoByteTwice == Spec => []NoOverlap
  <1>1. Init => LayoutInv
    BY LayoutInit
  <1>2. LayoutInv /\ [Next]_vars => LayoutInv'
    BY LayoutStep
  <1>3. LayoutInv => NoOverlap
    BY DEF LayoutInv
  <1> QED
    BY <1>1, <1>2, <1>3, PTL DEF Spec

-----------------------------------------------------------------------------
(* What the entries point to. The entries that hold positions are written    *)
(* when what they point to is the next to go to the end of the file: at once,*)
(* except for the thumbnail's, behind which three more writes come that do   *)
(* not move the end.                                                         *)
JfifAt(i) == 47 + Pad(i) + Gps(i)

Follow(i, k, t, last, u) ==
  /\ t.write = "IFDTag" =>
       ~last /\ u.write = "IFD" /\ (\/ t.id = \h8769 /\ u.ifd = "Exif"
                                    \/ t.id = \h8825 /\ u.ifd = "GPS")
  /\ t.write = "NextIFD" => t.id = 0 \/ (~last /\ u.write = "IFD" /\ u.ifd = "1st")
  /\ t.write = "JFIF" => t.id = \h0201 /\ k = JfifAt(i) /\ i.hasThumbnail
  /\ k \in {JfifAt(i) + 1, JfifAt(i) + 2, JfifAt(i) + 3} =>
       t.write \in {"LONGTag", "SHORTTag", "NextIFD"} /\ (t.write = "NextIFD" => t.id = 0)
  /\ k = JfifAt(i) + 4 => t.write = "thumbnail"
  /\ last /\ i.flag /\ i.hasThumbnail => k = JfifAt(i) + 4

LEMMA WhatFollows ==
  ASSUME NEW i \in InfoType, NEW k \in 1 .. Length(i), NEW t, t = Writes(i)[k],
         NEW u, k # Length(i) => u = Writes(i)[k + 1]
  PROVE  Follow(i, k, t, k = Length(i), u)
  <1> DEFINE p == Pad(i)
             g == Gps(i)
             h == i.hasThumbnail
             l == Length(i)
  <1>1. p \in {0, 1} /\ g \in {0, 12} /\ JfifAt(i) = 47 + p + g /\ (i.flag => p = 0)
    BY DEF Pad, Gps, JfifAt
  <1>2. l = 38 + p + g + (IF h THEN 13 - p ELSE 0) /\ h \in BOOLEAN
    BY DEF Length, InfoType
  <1>3. WriteAt(i, p, g, k, t)
    BY WritesTable DEF IsWrite
  <1>4. k # l => WriteAt(i, p, g, k + 1, u)
    <2>1. k # l => k + 1 \in 1 .. l
      BY <1>1, <1>2
    <2> QED
      BY <2>1, WritesTable DEF IsWrite
  <1>5. h = i.hasThumbnail
    OBVIOUS
  <1> HIDE DEF p, g, h, l
  <1> SUFFICES Follow(i, k, t, k = l, u)
    BY DEF l
  <1> DEFINE positions == {"IFDTag", "NextIFD", "JFIF"}
  <1>6. CASE k <= 10 + p
    <2>1. t.write \notin positions /\ k # l
      BY <1>1, <1>2, <1>3, <1>6 DEF WriteAt, Directory, Tag, IsPlain, Plain
    <2> QED
      BY <1>1, <1>6, <2>1 DEF Follow
  <1>7. CASE k = 11 + p
    <2>1. t.write = "IFDTag" /\ t.id = \h8769 /\ k # l
      BY <1>1, <1>2, <1>3, <1>7 DEF WriteAt, Tag
    <2>2. u.write = "IFD" /\ u.ifd = "Exif"
      BY <1>1, <1>4, <1>7, <2>1 DEF WriteAt, Directory, Tag
    <2> QED
      BY <1>1, <1>7, <2>1, <2>2 DEF Follow
  <1>8. CASE 12 + p <= k /\ k <= 37 + p
    <2>1. t.write \notin positions /\ k # l
      BY <1>1, <1>2, <1>3, <1>8 DEF WriteAt, Directory, Tag, IsPlain, Plain
    <2> QED
      BY <1>1, <1>8, <2>1 DEF Follow
  <1>9. CASE g = 12 /\ k = 38 + p
    <2>1. t.write = "IFDTag" /\ t.id = \h8825 /\ k # l
      BY <1>1, <1>2, <1>3, <1>9 DEF WriteAt, Tag
    <2>2. u.write = "IFD" /\ u.ifd = "GPS"
      BY <1>1, <1>4, <1>9, <2>1 DEF WriteAt, Directory, Tag
    <2> QED
      BY <1>1, <1>9, <2>1, <2>2 DEF Follow
  <1>10. CASE g = 12 /\ 39 + p <= k /\ k <= 49 + p
    <2>1. t.write \notin positions /\ k # l
      BY <1>1, <1>2, <1>3, <1>10 DEF WriteAt, Directory, Tag, IsPlain, Plain
    <2> QED
      BY <1>1, <1>10, <2>1 DEF Follow
  <1>11. CASE k = 38 + p + g
    <2>1. t.write = "NextIFD" /\ (t.id = 0 <=> ~h) /\ (k = l <=> ~h)
      BY <1>1, <1>2, <1>3, <1>5, <1>11 DEF WriteAt, NextIFD, Tag
    <2>2. h => u.write = "IFD" /\ u.ifd = "1st"
      BY <1>1, <1>4, <1>11, <2>1 DEF WriteAt, Directory, Tag
    <2> QED
      BY <1>1, <1>5, <1>11, <2>1, <2>2 DEF Follow
  <1>12. CASE 39 + p + g <= k /\ k <= 46 + p + g
    <2>1. t.write \notin positions /\ k # l
      BY <1>1, <1>2, <1>3, <1>12 DEF WriteAt, Directory, Tag, IsPlain, Plain
    <2> QED
      BY <1>1, <1>12, <2>1 DEF Follow
  <1>13. CASE k = 47 + p + g
    <2>1. t.write = "JFIF" /\ t.id = \h0201 /\ k # l
      BY <1>1, <1>2, <1>3, <1>13 DEF WriteAt, Tag
    <2>2. h
      <3>1. k <= l
        BY DEF l
      <3> QED
        BY <1>1, <1>2, <1>13, <3>1
    <2> QED
      BY <1>1, <1>5, <1>13, <2>1, <2>2 DEF Follow
  <1>14. CASE k = 48 + p + g \/ k = 49 + p + g
    <2>1. t.write \in {"LONGTag", "SHORTTag"} /\ k # l
      BY <1>1, <1>2, <1>3, <1>14 DEF WriteAt
    <2> QED
      BY <1>1, <1>14, <2>1 DEF Follow
  <1>15. CASE k = 50 + p + g
    <2>1. t.write = "NextIFD" /\ t.id = 0 /\ (k = l => p = 1)
      BY <1>1, <1>2, <1>3, <1>15 DEF WriteAt, NextIFD, Tag
    <2> QED
      BY <1>1, <1>15, <2>1 DEF Follow
  <1>16. CASE k = 51 + p + g
    <2>1. t.write = "thumbnail"
      BY <1>3, <1>16 DEF WriteAt, Tag
    <2> QED
      BY <1>1, <1>16, <2>1 DEF Follow
  <1>17. k \in Nat /\ k >= 1 /\ k <= 51 + p + g
    <2>1. k \in 1 .. l
      BY DEF l
    <2> QED
      BY <1>1, <1>2, <2>1
  <1>18. \/ k <= 37 + p
         \/ 38 + p + g <= k
         \/ g = 12 /\ 38 + p <= k /\ k <= 49 + p
    BY <1>1, <1>17
  <1>19. CASE k <= 37 + p
    <2>1. k <= 10 + p \/ k = 11 + p \/ (12 + p <= k /\ k <= 37 + p)
      BY <1>1, <1>17, <1>19
    <2> QED
      BY <1>6, <1>7, <1>8, <2>1
  <1>20. CASE g = 12 /\ 38 + p <= k /\ k <= 49 + p
    <2>1. k = 38 + p \/ (39 + p <= k /\ k <= 49 + p)
      BY <1>1, <1>17, <1>20
    <2> QED
      BY <1>9, <1>10, <1>20, <2>1
  <1>21. CASE 38 + p + g <= k
    <2>1. \/ k = 38 + p + g
          \/ 39 + p + g <= k /\ k <= 46 + p + g
          \/ k = 47 + p + g
          \/ k = 48 + p + g \/ k = 49 + p + g
          \/ k = 50 + p + g
          \/ k = 51 + p + g
      BY <1>1, <1>17, <1>21
    <2> QED
      BY <1>11, <1>12, <1>13, <1>14, <1>15, <1>16, <2>1
  <1> QED
    BY <1>18, <1>19, <1>20, <1>21

LEMMA Upcoming ==
  ASSUME Follows, todo # << >>, todo' = Tail(todo), info' = info
  PROVE  Follow(info, Written + 1, Head(todo), todo' = << >>, Head(todo)')
  <1> DEFINE k == Written + 1
             t == Head(todo)
             u == Head(todo')
             w == Writes(info)
  <1>1. /\ Follows' /\ Written \in 0 .. Length(info) - 1 /\ Written' = k
        /\ t = w[k] /\ (k = Length(info) <=> todo' = << >>)
    BY Advance
  <1>2. info \in InfoType /\ Length(info) \in Nat
    BY LengthIsNat DEF Follows
  <1>3. k \in 1 .. Length(info)
    BY <1>1, <1>2
  <1>4. todo' # << >> => u = w[k + 1]
    <2>1. /\ todo' \in Seq(Tags)
          /\ \A j \in 1 .. Len(todo') : todo'[j] = w[k + j]
      BY <1>1 DEF Follows
    <2>2. todo' # << >> => Len(todo') >= 1 /\ u = todo'[1]
      BY <2>1
    <2> QED
      BY <2>1, <2>2
  <1> HIDE DEF k, t, u, w
  <1>5. k # Length(info) => u = w[k + 1]
    BY <1>1, <1>4
  <1>6. Follow(info, k, t, k = Length(info), u)
    BY <1>1, <1>2, <1>3, <1>5, WhatFollows DEF w
  <1> QED
    BY <1>1, <1>6 DEF k, t, u, Follow

(* An entry is resolved, or what it points to comes next.                    *)
Resolved(e) == \E a \in written : PointsTo(e, a)

Names(e, d) ==
  \/ e.type = "next" /\ d = "1st"
  \/ e.type = "LONG" /\ e.id = \h8769 /\ d = "Exif"
  \/ e.type = "LONG" /\ e.id = \h8825 /\ d = "GPS"

Pending(e) ==
  /\ e.value = offset
  /\ \/ todo # << >> /\ Head(todo).write = "IFD" /\ Names(e, Head(todo).ifd)
     \/ /\ e.type = "LONG" /\ e.id = \h0201 /\ info.hasThumbnail
        /\ Written \in {JfifAt(info), JfifAt(info) + 1, JfifAt(info) + 2, JfifAt(info) + 3}

Pointed(e) == Resolved(e) \/ Pending(e)

PointInv ==
  /\ todo # << >> \/ offset # 0 => \A e \in entries : e.is = "offset" => Pointed(e)
  /\ result # NoResult => todo = << >>
  /\ Done => offset # 0

LEMMA MoreWritten ==
  ASSUME NEW e, Resolved(e), written \subseteq written'
  PROVE  Resolved(e)'
  BY DEF Resolved, PointsTo

(* Entries written before stay resolved or pending, until the thumbnail does *)
(* not fit.                                                                  *)
LEMMA OldEntries ==
  ASSUME LayoutInv, todo # << >>, todo' = Tail(todo), info' = info, written \subseteq written',
         NEW e, Pointed(e),
         \/ BeginIFD
         \/ WriteThumbnail
         \/ Head(todo).write \in {"SHORTTag", "LONGTag", "NextIFD"} /\ offset' = offset
         \/ Head(todo).write \notin {"SHORTTag", "LONGTag", "NextIFD", "IFD", "thumbnail"}
  PROVE  Pointed(e)' \/ (todo' = << >> /\ offset' = 0)
  <1> DEFINE t == Head(todo)
             k == Written
             j == JfifAt(info)
  <1>1. /\ Follow(info, k + 1, t, todo' = << >>, Head(todo)') /\ k \in Nat /\ k' = k + 1
    <2>1. Follows /\ info \in InfoType
      BY DEF LayoutInv, Follows
    <2>2. k \in 0 .. Length(info) - 1 /\ k' = k + 1 /\ Length(info) \in Nat
      BY <2>1, Advance, LengthIsNat
    <2>3. Follow(info, k + 1, t, todo' = << >>, Head(todo)')
      BY <2>1, Upcoming
    <2>4. k \in Nat
      <3> HIDE DEF k
      <3> QED
        BY <2>2
    <2> QED
      BY <2>2, <2>3, <2>4, Zenon
  <1>2. j \in Nat /\ j' = j
    BY DEF JfifAt, Pad, Gps
  <1>3. CASE Resolved(e)
    BY <1>3, MoreWritten DEF Pointed
  <1>4. CASE Pending(e) /\ t.write = "IFD" /\ Names(e, t.ifd)
    <2> DEFINE m == Area("number", t.ifd, t.count, offset, NUMBER_SIZE)
    <2>1. BeginIFD
      BY <1>4 DEF WriteThumbnail, Next1
    <2>2. m \in written'
      BY <2>1 DEF BeginIFD
    <2>3. m.what = "number" /\ m.ifd = t.ifd /\ m.at = offset
      BY DEF Area
    <2> HIDE DEF m, t
    <2>4. PointsTo(e, m)
      BY <1>4, <2>3 DEF Pending, Names, PointsTo
    <2>5. Resolved(e)'
      BY <2>2, <2>4 DEF Resolved, PointsTo
    <2> QED
      BY <2>5 DEF Pointed
  <1>5. CASE /\ e.value = offset
             /\ e.type = "LONG" /\ e.id = \h0201 /\ info.hasThumbnail
             /\ k \in {j, j + 1, j + 2, j + 3}
    <2>1. CASE k \in {j, j + 1, j + 2}
      <3>1. t.write \in {"LONGTag", "SHORTTag", "NextIFD"}
        BY <1>1, <1>2, <1>5, <2>1 DEF Follow
      <3>2. offset' = offset
        BY <3>1 DEF BeginIFD, WriteThumbnail, Next1
      <3>3. k' \in {j, j + 1, j + 2, j + 3}'
        BY <1>1, <1>2, <2>1
      <3>4. Pending(e)'
        BY <1>5, <3>2, <3>3 DEF Pending
      <3> QED
        BY <3>4 DEF Pointed
    <2>2. CASE k = j + 3
      <3> DEFINE v == Area("thumbnail", "1st", 0, offset, t.count)
      <3>1. t.write = "thumbnail"
        BY <1>1, <1>2, <1>5, <2>2 DEF Follow
      <3>2. WriteThumbnail
        BY <3>1 DEF BeginIFD, Next1
      <3>3. todo' = << >>
        BY <3>2, ThumbnailKeeps
      <3>4. CASE v \in written'
        <4>1. v.what = "thumbnail" /\ v.at = offset
          BY DEF Area
        <4> HIDE DEF v
        <4>2. PointsTo(e, v)
          BY <1>5, <4>1 DEF PointsTo
        <4>3. Resolved(e)'
          BY <3>4, <4>2 DEF Resolved, PointsTo
        <4> QED
          BY <4>3 DEF Pointed
      <3>5. CASE v \notin written'
        <4>1. offset' = 0
          BY <3>2, <3>5 DEF WriteThumbnail
        <4> QED
          BY <3>3, <4>1
      <3> QED
        BY <3>4, <3>5
    <2> QED
      BY <1>5, <2>1, <2>2
  <1> QED
    BY <1>3, <1>4, <1>5 DEF Pointed, Pending

(* Every write but one of a position makes an entry that is no pointer, or   *)
(* one with its values.                                                      *)
LEMMA NewEntries ==
  ASSUME LayoutInv, todo # << >>, todo' = Tail(todo), info' = info,
         NEW e \in entries', e \notin entries, e.is = "offset",
         \/ \E type, is, value : /\ Inline(Head(todo), type, is, value)
                                 /\ is = "value" \/ (type = "LONG" /\ value = offset)
                                 /\ is = "value" \/ Head(todo).write \in {"IFDTag", "JFIF"}
         \/ \E type : type \notin {"LONG", "next"} /\ OutOfLine(Head(todo), type)
         \/ WriteNextIFD
  PROVE  Pointed(e)'
  <1> DEFINE t == Head(todo)
             u == Head(todo)'
             k == Written
             j == JfifAt(info)
  <1>1. /\ Follow(info, k + 1, t, todo' = << >>, u) /\ k' = k + 1
    BY Advance, Upcoming DEF LayoutInv
  <1>2. j' = j
    BY DEF JfifAt, Pad, Gps
  <1>3. CASE \E type, is, value : /\ Inline(t, type, is, value)
                                  /\ is = "value" \/ (type = "LONG" /\ value = offset)
                                  /\ is = "value" \/ t.write \in {"IFDTag", "JFIF"}
    <2>1. /\ e.type = "LONG" /\ e.id = t.id /\ e.value = offset /\ t.write \in {"IFDTag", "JFIF"}
          /\ offset' = offset
      BY <1>3 DEF Inline, Entry
    <2>2. CASE t.write = "IFDTag"
      <3>1. /\ todo' # << >> /\ u.write = "IFD"
            /\ \/ t.id = \h8769 /\ u.ifd = "Exif"
               \/ t.id = \h8825 /\ u.ifd = "GPS"
        BY <1>1, <2>2 DEF Follow
      <3> HIDE DEF t
      <3>2. Names(e, u.ifd)
        BY <2>1, <3>1 DEF Names
      <3>3. Pending(e)'
        BY <2>1, <3>1, <3>2 DEF Pending, Names
      <3> QED
        BY <3>3 DEF Pointed
    <2>3. CASE t.write = "JFIF"
      <3>1. t.id = \h0201 /\ k + 1 = j /\ info.hasThumbnail
        BY <1>1, <2>3 DEF Follow
      <3>2. Pending(e)'
        BY <1>1, <1>2, <2>1, <3>1 DEF Pending
      <3> QED
        BY <3>2 DEF Pointed
    <2> QED
      BY <2>1, <2>2, <2>3
  <1>4. CASE \E type : type \notin {"LONG", "next"} /\ OutOfLine(t, type)
    <2>1. PICK type : type \notin {"LONG", "next"} /\ OutOfLine(t, type)
      BY <1>4
    <2> DEFINE v == Area("value", t.ifd, t.id, offset, Width(type) * t.count)
    <2>2. v \in written' /\ e.type = type /\ e.count = t.count /\ e.value = offset
      BY <2>1 DEF OutOfLine, Entry
    <2>3. v.what = "value" /\ v.at = offset /\ v.len = Width(type) * t.count
      BY DEF Area
    <2> HIDE DEF v, t
    <2>4. PointsTo(e, v)
      BY <2>1, <2>2, <2>3 DEF PointsTo
    <2>5. Resolved(e)'
      BY <2>2, <2>4 DEF Resolved, PointsTo
    <2> QED
      BY <2>5 DEF Pointed
  <1>5. CASE WriteNextIFD
    <2>1. /\ e.type = "next" /\ e.value = offset /\ t.id # 0 /\ t.write = "NextIFD"
          /\ offset' = offset
      BY <1>5 DEF WriteNextIFD, Next1
    <2>2. todo' # << >> /\ u.write = "IFD" /\ u.ifd = "1st"
      BY <1>1, <2>1 DEF Follow
    <2>3. Pending(e)'
      BY <2>1, <2>2 DEF Pending, Names
    <2> QED
      BY <2>3 DEF Pointed
  <1> QED
    BY <1>3, <1>4, <1>5

LEMMA PointWrite ==
  ASSUME LayoutInv, PointInv, todo # << >>, todo' = Tail(todo), info' = info, result' = result,
         written \subseteq written',
         \/ BeginIFD
         \/ WriteThumbnail
         \/ Head(todo).write \in {"SHORTTag", "LONGTag", "NextIFD"} /\ offset' = offset
         \/ Head(todo).write \notin {"SHORTTag", "LONGTag", "NextIFD", "IFD", "thumbnail"},
         \/ entries' = entries
         \/ \E type, is, value : /\ Inline(Head(todo), type, is, value)
                                 /\ is = "value" \/ (type = "LONG" /\ value = offset)
                                 /\ is = "value" \/ Head(todo).write \in {"IFDTag", "JFIF"}
         \/ \E type : type \notin {"LONG", "next"} /\ OutOfLine(Head(todo), type)
         \/ WriteNextIFD
  PROVE  PointInv'
  <1>1. result' = NoResult
    BY DEF PointInv
  <1>2. ASSUME NEW e \in entries', e.is = "offset"
        PROVE  Pointed(e)' \/ (todo' = << >> /\ offset' = 0)
    <2>1. CASE e \in entries
      <3>1. Pointed(e)
        BY <1>2, <2>1 DEF PointInv
      <3> QED
        BY <3>1, OldEntries
    <2>2. CASE e \notin entries
      BY <1>2, <2>2, NewEntries
    <2> QED
      BY <2>1, <2>2
  <1> QED
    BY <1>1, <1>2 DEF PointInv, Done

LEMMA PointStep ==
  ASSUME LayoutInv, PointInv, [Next]_vars
  PROVE  PointInv'
  <1>1. CASE BeginIFD
    BY <1>1, PointWrite DEF BeginIFD, Next1
  <1>2. CASE WriteThumbnail
    <2>1. written \subseteq written'
      BY <1>2 DEF WriteThumbnail
    <2> QED
      BY <1>2, <2>1, PointWrite DEF WriteThumbnail, Next1
  <1>3. CASE WritePadd
    BY <1>3, PointWrite DEF WritePadd, Next1
  <1>4. CASE WriteNextIFD
    <2>1. /\ todo # << >> /\ todo' = Tail(todo) /\ info' = info /\ result' = result
          /\ written \subseteq written' /\ Head(todo).write = "NextIFD" /\ offset' = offset
      BY <1>4 DEF WriteNextIFD, Next1
    <2> QED
      BY <1>4, <2>1, PointWrite
  <1>5. ASSUME NEW type, Inline(Head(todo), type, "value", 0), todo # << >>, todo' = Tail(todo),
               Head(todo).write \in Plain
        PROVE  PointInv'
    <2>1. /\ info' = info /\ result' = result /\ written \subseteq written' /\ offset' = offset
      BY <1>5 DEF Inline, Entry
    <2>2. \/ Head(todo).write \in {"SHORTTag", "LONGTag", "NextIFD"} /\ offset' = offset
          \/ Head(todo).write \notin {"SHORTTag", "LONGTag", "NextIFD", "IFD", "thumbnail"}
      BY <1>5, <2>1 DEF Plain
    <2> QED
      BY <1>5, <2>1, <2>2, PointWrite
  <1>6. ASSUME NEW type, OutOfLine(Head(todo), type), todo # << >>, todo' = Tail(todo),
               type \notin {"LONG", "next"},
               Head(todo).write \in Plain \ {"SHORTTag", "LONGTag"}
        PROVE  PointInv'
    <2>1. /\ info' = info /\ result' = result /\ written \subseteq written'
      BY <1>6 DEF OutOfLine, Entry
    <2>2. Head(todo).write \notin {"SHORTTag", "LONGTag", "NextIFD", "IFD", "thumbnail"}
      BY <1>6 DEF Plain
    <2> QED
      BY <1>6, <2>1, <2>2, PointWrite
  <1>7. CASE WriteIFDTag \/ WriteJFIFTag
    <2>1. /\ todo # << >> /\ todo' = Tail(todo) /\ Head(todo).write \in {"IFDTag", "JFIF"}
          /\ Inline(Head(todo), "LONG", "offset", offset)
      BY <1>7 DEF WriteIFDTag, WriteJFIFTag, Next1
    <2>2. info' = info /\ result' = result /\ written \subseteq written'
      BY <2>1 DEF Inline, Entry
    <2>3. Head(todo).write \notin {"SHORTTag", "LONGTag", "NextIFD", "IFD", "thumbnail"}
      BY <2>1
    <2> QED
      BY <2>1, <2>2, <2>3, PointWrite
  <1>8. CASE WriteSHORTTag \/ WriteLONGTag
    BY <1>5, <1>8 DEF WriteSHORTTag, WriteLONGTag, Next1, Plain
  <1>9. CASE WriteRATIONALTag \/ WriteSRATIONALTag \/ WriteGPSInfoTag
    BY <1>6, <1>9 DEF WriteRATIONALTag, WriteSRATIONALTag, WriteGPSInfoTag, Next1, Plain
  <1>10. CASE WriteBYTESTag \/ WriteASCIITag \/ WriteUNDEFINEDTag
    BY <1>5, <1>6, <1>10 DEF WriteBYTESTag, WriteASCIITag, WriteUNDEFINEDTag, Counted, Next1, Plain
  <1>11. ASSUME UNCHANGED <<info, todo, written, offset, entries>> PROVE
           /\ todo' # << >> \/ offset' # 0 => \A e \in entries' : e.is = "offset" => Pointed(e)'
    BY <1>11 DEF PointInv, Pointed, Resolved, Pending, Written, JfifAt, Pad, Gps
  <1>12. CASE ReturnLength
    <2>1. /\ UNCHANGED <<info, todo, written, offset, entries>> /\ todo' = << >>
          /\ result'.size # 0 => offset # 0
      BY <1>12 DEF ReturnLength, Return, Return_wo_GPS
    <2> QED
      BY <1>11, <2>1 DEF PointInv, Done
  <1>13. CASE UNCHANGED vars
    BY <1>11, <1>13 DEF PointInv, Done, vars
  <1> QED
    BY <1>1, <1>2, <1>3, <1>4, <1>7, <1>8, <1>9, <1>10, <1>12, <1>13 DEF Next

LEMMA PointInit == Init => PointInv
  BY DEF Init, PointInv, Done

LEMMA PointEnd ==
  ASSUME LayoutInv, PointInv
  PROVE  PointersResolve
  <1> SUFFICES ASSUME Done, NEW e \in entries, e.is = "offset", info.flag \/ e.id # \h0201
               PROVE  Resolved(e)
    BY DEF PointersResolve, Resolved
  <1>1. todo = << >> /\ offset # 0
    BY DEF PointInv, Done
  <1>2. Pointed(e)
    BY <1>1 DEF PointInv
  <1>3. ASSUME Pending(e) PROVE FALSE
    <2>1. /\ info.flag /\ info.hasThumbnail
          /\ Written \in {JfifAt(info), JfifAt(info) + 1, JfifAt(info) + 2, JfifAt(info) + 3}
      BY <1>1, <1>3 DEF Pending
    <2>2. Len(todo) = 0 /\ info \in InfoType
      BY <1>1 DEF LayoutInv, Follows
    <2>3. Written = Length(info)
      BY <2>2, LengthIsNat DEF Written
    <2>4. Length(info) = 51 + Gps(info) /\ JfifAt(info) = 47 + Gps(info) /\ Gps(info) \in Nat
      BY <2>1 DEF Length, JfifAt, Pad, Gps
    <2> QED
      BY <2>1, <2>3, <2>4
  <1> QED
    BY <1>2, <1>3 DEF Pointed

(* When a file is complete, what its entries point to is there: the value of *)
(* the entry's size, the directory it names, or the thumbnail, although the  *)
(* positions are written down before what lies there is.                     *)
THEOREM PointersHold == Spec => []PointersResolve
  <1> DEFINE Inv == LayoutInv /\ PointInv
  <1>1. Init => Inv
    BY LayoutInit, PointInit
  <1>2. Inv /\ [Next]_vars => Inv'
    BY LayoutStep, PointStep
  <1>3. Inv => PointersResolve
    BY PointEnd
  <1> QED
    BY <1>1, <1>2, <1>3, PTL DEF Spec

-----------------------------------------------------------------------------
(* The entries of a directory: as many as it says, and in ascending order of *)
(* their numbers.  Only the 0th breaks that order, with three tags that come *)
(* late; Key puts them where they are written.                               *)
Key(d, id) == IF d = "0th" /\ id \in {\h011A, \h011B, \h0128} THEN id + \h1000 ELSE id

LEMMA Ascending ==
  ASSUME NEW d \in IFDs, NEW j \in 1 .. NumAt(12, d)
  PROVE  /\ Id(d, j) \in Nat /\ Key(d, Id(d, j)) \in Nat
         /\ j < NumAt(12, d) => Key(d, Id(d, j)) < Key(d, Id(d, j + 1))
  <1>1. CASE d = "0th"
    <2>1. j \in 1 .. 11 /\ NumAt(12, d) = 11
      BY <1>1 DEF NumAt
    <2> QED
      BY <1>1, <2>1 DEF Id, Ids0th, Key
  <1>2. CASE d = "Exif"
    <2>1. j \in 1 .. 25 /\ NumAt(12, d) = 25
      BY <1>2 DEF NumAt
    <2> QED
      BY <1>2, <2>1 DEF Id, IdsExif, Key
  <1>3. CASE d = "GPS"
    <2>1. j \in 1 .. 10 /\ NumAt(12, d) = 10
      BY <1>3 DEF NumAt
    <2> QED
      BY <1>3, <2>1 DEF Id, IdsGps, Key
  <1>4. CASE d = "1st"
    <2>1. j \in 1 .. 10 /\ NumAt(12, d) = 10
      BY <1>4 DEF NumAt
    <2> QED
      BY <1>4, <2>1 DEF Id, Ids1st, Key
  <1> QED
    BY <1>1, <1>2, <1>3, <1>4 DEF IFDs

IsEntry(a, d) == a.what = "entry" /\ a.ifd = d

Of(es, d) == {e \in es : e.ifd = d /\ e.type # "next"}

(* The entries stand behind the number, up to cur.                           *)
UpTo(w, cur, f, B, n) ==
  \A a \in w : a.what = "number" =>
    /\ a.ifd \in B /\ a.id = n[a.ifd] /\ End(a) \in Int
    /\ cur[a.ifd] = End(a) + TAG_SIZE * f[a.ifd]

Tallied(es, f) ==
  \A d \in IFDs : IsFiniteSet(Of(es, d)) /\ Cardinality(Of(es, d)) = f[d]

(* An entry has an area, under its number.                                   *)
Shown(w, es) == \A d \in IFDs : \A e \in Of(es, d) : \E a \in w : IsEntry(a, d) /\ a.id = e.id

(* The last entry of a directory has the greatest key.                       *)
Latest(w, cur, f) ==
  \A d \in IFDs : \A a \in w : IsEntry(a, d) =>
    /\ a.id \in Nat /\ a.at \in Int /\ a.at < cur[d] /\ f[d] >= 1
    /\ Key(d, a.id) <= Key(d, Id(d, f[d]))

Sorted(w) ==
  \A d \in IFDs \ {"0th"} : \A a, b \in w :
    IsEntry(a, d) /\ IsEntry(b, d) /\ a.id < b.id => a.at < b.at

Full(w, es, cur, f, B, n) ==
  UpTo(w, cur, f, B, n) /\ Tallied(es, f) /\ Shown(w, es) /\ Latest(w, cur, f) /\ Sorted(w)

(* Areas that are neither numbers nor entries.                               *)
Aside(V) == \A v \in V : v.what \notin {"number", "entry"}

LEMMA FullEntry ==
  ASSUME NEW w, NEW es, NEW cur, NEW off, NEW f, NEW B, NEW n, Full(w, es, cur, f, B, n),
         Numbers(cur, off, f, n), B \subseteq IFDs,
         NEW d \in B, f[d] < n[d], n[d] <= NumAt(12, d),
         NEW e, IsEntry(e, d), e.at = cur[d], e.id = Id(d, f[d] + 1), NEW V, Aside(V),
         NEW r, r.ifd = d, r.id = e.id, r.type # "next"
  PROVE  Full(w \cup {e} \cup V, es \cup {r}, [cur EXCEPT ![d] = @ + TAG_SIZE],
              [f EXCEPT ![d] = @ + 1], B, n)
  <1> DEFINE w1 == w \cup {e} \cup V
             es1 == es \cup {r}
             c1 == [cur EXCEPT ![d] = @ + TAG_SIZE]
             f1 == [f EXCEPT ![d] = @ + 1]
  <1>1. /\ UpTo(w, cur, f, B, n) /\ Tallied(es, f) /\ Shown(w, es) /\ Latest(w, cur, f)
        /\ Sorted(w) /\ d \in IFDs
    BY DEF Full
  <1>2. /\ cur[d] \in Int /\ f[d] \in Nat /\ n[d] \in Nat
        /\ c1[d] = cur[d] + 12 /\ f1[d] = f[d] + 1
        /\ \A x \in IFDs : x # d => c1[x] = cur[x] /\ f1[x] = f[x]
    BY <1>1 DEF Numbers, TAG_SIZE
  <1>3. NumAt(12, d) \in Nat /\ f[d] + 1 \in 1 .. NumAt(12, d)
    BY <1>2 DEF NumAt
  <1>4. e.id \in Nat /\ Key(d, e.id) \in Nat
    BY <1>1, <1>3, Ascending
  <1>5. ASSUME NEW a \in w, IsEntry(a, d) PROVE Key(d, a.id) < Key(d, e.id)
    <2>1. f[d] \in 1 .. NumAt(12, d) /\ f[d] < NumAt(12, d)
      BY <1>1, <1>2, <1>3, <1>5 DEF Latest
    <2>2. Key(d, Id(d, f[d])) < Key(d, e.id) /\ Key(d, Id(d, f[d])) \in Nat
      BY <1>1, <2>1, Ascending
    <2>3. Key(d, a.id) <= Key(d, Id(d, f[d])) /\ a.id \in Nat
      BY <1>1, <1>5 DEF Latest
    <2>4. Key(d, a.id) \in Nat
      BY <2>3 DEF Key
    <2> QED
      BY <1>4, <2>2, <2>3, <2>4
  <1>6. \A a \in w1 : /\ a.what = "number" => a \in w
                      /\ \A x \in IFDs : IsEntry(a, x) => a \in w \/ (a = e /\ x = d)
    BY DEF Aside, IsEntry
  <1>7. UpTo(w1, c1, f1, B, n)
    <2> SUFFICES ASSUME NEW a \in w1, a.what = "number"
                 PROVE  /\ a.ifd \in B /\ a.id = n[a.ifd] /\ End(a) \in Int
                        /\ c1[a.ifd] = End(a) + TAG_SIZE * f1[a.ifd]
      BY DEF UpTo
    <2>1. /\ a.ifd \in B /\ a.id = n[a.ifd] /\ End(a) \in Int
          /\ cur[a.ifd] = End(a) + 12 * f[a.ifd]
      BY <1>1, <1>6 DEF UpTo, TAG_SIZE
    <2>2. CASE a.ifd # d
      BY <1>2, <2>1, <2>2 DEF TAG_SIZE
    <2>3. CASE a.ifd = d
      <3> DEFINE z == End(a)
      <3> HIDE DEF z
      <3>1. cur[d] = z + 12 * f[d] /\ z \in Int
        BY <2>1, <2>3 DEF z
      <3>2. cur[d] + 12 = z + 12 * (f[d] + 1)
        <4> DEFINE q == 12 * f[d]
        <4>1. q \in Int /\ 12 * (f[d] + 1) = q + 12
          BY <1>2
        <4>2. cur[d] = z + q
          BY <3>1
        <4> HIDE DEF q
        <4> QED
          BY <3>1, <4>1, <4>2
      <3> QED
        BY <1>2, <2>1, <2>3, <3>2 DEF z, TAG_SIZE
    <2> QED
      BY <2>2, <2>3
  <1>8. Tallied(es1, f1)
    <2> SUFFICES ASSUME NEW x \in IFDs
                 PROVE  IsFiniteSet(Of(es1, x)) /\ Cardinality(Of(es1, x)) = f1[x]
      BY DEF Tallied
    <2>1. IsFiniteSet(Of(es, x)) /\ Cardinality(Of(es, x)) = f[x]
      BY <1>1 DEF Tallied
    <2>2. CASE x # d
      <3>1. Of(es1, x) = Of(es, x)
        BY <2>2 DEF Of
      <3> QED
        BY <1>2, <2>1, <2>2, <3>1
    <2>3. CASE x = d
      <3>1. Of(es1, x) = Of(es, x) \cup {r}
        BY <2>3 DEF Of
      <3>2. r \notin Of(es, x)
        <4> SUFFICES ASSUME r \in Of(es, x) PROVE FALSE
          OBVIOUS
        <4>1. PICK a \in w : IsEntry(a, d) /\ a.id = r.id
          BY <1>1, <2>3 DEF Shown
        <4>2. Key(d, e.id) < Key(d, e.id)
          BY <1>5, <4>1
        <4> QED
          BY <1>4, <4>2
      <3>3. IsFiniteSet(Of(es, x) \cup {r}) /\ Cardinality(Of(es, x) \cup {r}) = Cardinality(Of(es, x)) + 1
        BY <2>1, <3>2, FS_AddElement
      <3> QED
        BY <1>2, <2>1, <2>3, <3>1, <3>3
    <2> QED
      BY <2>2, <2>3
  <1>9. Shown(w1, es1)
    <2> SUFFICES ASSUME NEW x \in IFDs, NEW o \in Of(es1, x)
                 PROVE  \E a \in w1 : IsEntry(a, x) /\ a.id = o.id
      BY DEF Shown
    <2>1. CASE o \in Of(es, x)
      BY <1>1, <2>1 DEF Shown
    <2>2. CASE o = r
      <3>1. x = d /\ e \in w1
        BY <2>2 DEF Of
      <3> QED
        BY <2>2, <3>1
    <2> QED
      BY <2>1, <2>2 DEF Of
  <1>10. Latest(w1, c1, f1)
    <2> SUFFICES ASSUME NEW x \in IFDs, NEW a \in w1, IsEntry(a, x)
                 PROVE  /\ a.id \in Nat /\ a.at \in Int /\ a.at < c1[x] /\ f1[x] >= 1
                        /\ Key(x, a.id) <= Key(x, Id(x, f1[x]))
      BY DEF Latest
    <2>1. CASE a \in w
      <3>1. /\ a.id \in Nat /\ a.at \in Int /\ a.at < cur[x] /\ f[x] >= 1
            /\ Key(x, a.id) <= Key(x, Id(x, f[x]))
        BY <1>1, <2>1 DEF Latest
      <3>2. CASE x = d
        <4>1. Key(d, a.id) < Key(d, e.id)
          BY <1>5, <2>1, <3>2
        <4>2. Key(d, a.id) \in Nat
          BY <3>1 DEF Key
        <4>3. Key(d, a.id) <= Key(d, Id(d, f1[d]))
          BY <1>2, <1>4, <4>1, <4>2
        <4> QED
          BY <1>2, <3>1, <3>2, <4>3
      <3> QED
        BY <1>2, <3>1, <3>2
    <2>2. CASE a = e /\ x = d
      BY <1>2, <1>4, <2>2
    <2> QED
      BY <1>6, <2>1, <2>2
  <1>11. Sorted(w1)
    <2> SUFFICES ASSUME NEW x \in IFDs \ {"0th"}, NEW a \in w1, NEW b \in w1,
                        IsEntry(a, x), IsEntry(b, x), a.id < b.id
                 PROVE  a.at < b.at
      BY DEF Sorted
    <2>1. CASE a \in w /\ b \in w
      BY <1>1, <2>1 DEF Sorted
    <2>2. CASE a \in w /\ b = e /\ x = d
      BY <1>1, <2>2 DEF Latest
    <2>3. CASE a = e /\ x = d
      <3>1. b \in w \/ b = e
        BY <1>6
      <3>2. b \in w => Key(d, b.id) < Key(d, e.id)
        BY <1>5, <2>3
      <3>3. Key(d, b.id) = b.id /\ Key(d, e.id) = e.id
        BY <2>3 DEF Key
      <3>4. b \in w => b.id \in Nat
        BY <1>1 DEF Latest
      <3> QED
        BY <1>4, <2>3, <3>1, <3>2, <3>3, <3>4
    <2> QED
      BY <1>6, <2>1, <2>2, <2>3
  <1> QED
    BY <1>7, <1>8, <1>9, <1>10, <1>11 DEF Full

LEMMA FullNumber ==
  ASSUME NEW w, NEW es, NEW cur, NEW off, NEW f, NEW B, NEW n, Full(w, es, cur, f, B, n),
         Numbers(cur, off, f, n), B \subseteq IFDs,
         NEW d \in IFDs, d \notin B, f[d] = 0,
         NEW a, a = Area("number", d, n[d], off, NUMBER_SIZE)
  PROVE  Full(w \cup {a}, es, [cur EXCEPT ![d] = off + NUMBER_SIZE], f, B \cup {d}, n)
  <1> DEFINE w1 == w \cup {a}
             c1 == [cur EXCEPT ![d] = off + NUMBER_SIZE]
  <1>1. /\ UpTo(w, cur, f, B, n) /\ Tallied(es, f) /\ Shown(w, es) /\ Latest(w, cur, f)
        /\ Sorted(w)
    BY DEF Full
  <1>2. /\ off \in Int /\ c1[d] = off + 2 /\ \A x \in IFDs : x # d => c1[x] = cur[x]
    BY DEF Numbers, NUMBER_SIZE
  <1>3. /\ a.what = "number" /\ a.ifd = d /\ a.id = n[d] /\ End(a) = off + 2
    BY DEF Area, End, NUMBER_SIZE
  <1>4. \A x \in IFDs : \A b \in w1 : IsEntry(b, x) => b \in w /\ x # d
    <2> SUFFICES ASSUME NEW x \in IFDs, NEW b \in w1, IsEntry(b, x) PROVE b \in w /\ x # d
      OBVIOUS
    <2>1. b \in w
      BY <1>3 DEF IsEntry
    <2>2. f[x] >= 1
      BY <1>1, <2>1 DEF Latest
    <2> QED
      BY <2>1, <2>2
  <1>5. UpTo(w1, c1, f, B \cup {d}, n)
    <2> SUFFICES ASSUME NEW b \in w1, b.what = "number"
                 PROVE  /\ b.ifd \in B \cup {d} /\ b.id = n[b.ifd] /\ End(b) \in Int
                        /\ c1[b.ifd] = End(b) + TAG_SIZE * f[b.ifd]
      BY DEF UpTo
    <2>1. CASE b \in w
      <3>1. /\ b.ifd \in B /\ b.id = n[b.ifd] /\ End(b) \in Int
            /\ cur[b.ifd] = End(b) + TAG_SIZE * f[b.ifd]
        BY <1>1, <2>1 DEF UpTo
      <3>2. c1[b.ifd] = cur[b.ifd]
        BY <1>2, <3>1
      <3> QED
        BY <3>1, <3>2
    <2>2. CASE b = a
      BY <1>2, <1>3, <2>2 DEF TAG_SIZE
    <2> QED
      BY <2>1, <2>2
  <1>6. Shown(w1, es)
    BY <1>1 DEF Shown
  <1>7. Latest(w1, c1, f)
    BY <1>1, <1>2, <1>4 DEF Latest
  <1>8. Sorted(w1)
    BY <1>1, <1>4 DEF Sorted
  <1> QED
    BY <1>1, <1>5, <1>6, <1>7, <1>8 DEF Full

LEMMA FullAside ==
  ASSUME NEW w, NEW es, NEW cur, NEW f, NEW B, NEW n, Full(w, es, cur, f, B, n),
         NEW V, Aside(V), NEW R, \A r \in R : r.type = "next"
  PROVE  Full(w \cup V, es \cup R, cur, f, B, n)
  <1>1. /\ UpTo(w, cur, f, B, n) /\ Tallied(es, f) /\ Shown(w, es) /\ Latest(w, cur, f)
        /\ Sorted(w)
    BY DEF Full
  <1>2. \A d \in IFDs : Of(es \cup R, d) = Of(es, d)
    BY DEF Of
  <1>3. \A a \in w \cup V : /\ a.what = "number" => a \in w
                           /\ \A d \in IFDs : IsEntry(a, d) => a \in w
    BY DEF Aside, IsEntry
  <1>4. UpTo(w \cup V, cur, f, B, n) /\ Latest(w \cup V, cur, f) /\ Sorted(w \cup V)
    BY <1>1, <1>3 DEF UpTo, Latest, Sorted
  <1>5. Tallied(es \cup R, f) /\ Shown(w \cup V, es \cup R)
    BY <1>1, <1>2 DEF Tallied, Shown
  <1> QED
    BY <1>4, <1>5 DEF Full

FullInv == Full(written, entries, pCurBuff, Filled(info, Written), Begun(info, Written), Num(info))

LEMMA FullInit == Init => FullInv
  <1> SUFFICES ASSUME Init PROVE FullInv
    OBVIOUS
  <1>1. /\ info \in InfoType /\ todo = Writes(info) /\ entries = {}
        /\ \A a \in written : a.what \in {"APP1", "TIFF"}
    BY InfosAssumption DEF Init, Area
  <1>2. Written = 0
    <2>1. Len(todo) = Length(info) /\ Length(info) \in Nat
      BY <1>1, WritesTable, LengthIsNat
    <2> QED
      BY <2>1 DEF Written
  <1>3. \A d \in IFDs : Filled(info, 0)[d] = 0
    BY DEF Filled, FilledAt, Clamp, Pad, Gps, IFDs
  <1>4. \A d \in IFDs : Of(entries, d) = {}
    BY <1>1 DEF Of
  <1>5. Tallied(entries, Filled(info, 0))
    BY <1>3, <1>4, FS_EmptySet DEF Tallied
  <1>6. Shown(written, entries)
    BY <1>4 DEF Shown
  <1> QED
    BY <1>1, <1>2, <1>5, <1>6 DEF FullInv, Full, UpTo, Latest, Sorted, IsEntry

(* What each kind of write does.                                             *)
LEMMA FullEntryStep ==
  ASSUME LayoutInv, FullInv, todo # << >>, todo' = Tail(todo), info' = info,
         Head(todo).write \in EntryWrites, NEW V, Aside(V),
         written' = written \cup {EntryArea(Head(todo))} \cup V,
         NEW r, entries' = entries \cup {r}, r.ifd = Head(todo).ifd, r.id = Head(todo).id,
         r.type # "next",
         pCurBuff' = [pCurBuff EXCEPT ![Head(todo).ifd] = @ + TAG_SIZE]
  PROVE  FullInv'
  <1> DEFINE t == Head(todo)
             e == EntryArea(t)
             d == t.ifd
             f == Filled(info, Written)
             B == Begun(info, Written)
             n == Num(info)
  <1>1. HasPlace(t, todo' = << >>, f, f', B, B', n)
    BY Advance DEF LayoutInv
  <1>2. /\ d \in B /\ f[d] < n[d] /\ t.id = Id(d, f[d] + 1)
        /\ f' = [f EXCEPT ![d] = @ + 1] /\ B' = B
    BY <1>1 DEF HasPlace, EntryWrites, Plain
  <1>3. Numbers(pCurBuff, offset, f, n) /\ B \subseteq IFDs
    BY DEF LayoutInv, Laid, Layout
  <1>4. n[d] <= NumAt(12, d) /\ n' = n
    BY <1>2, <1>3 DEF Num, NumAt, Gps
  <1>5. IsEntry(e, d) /\ e.at = pCurBuff[d] /\ e.id = t.id
    BY DEF IsEntry, EntryArea, Area
  <1>6. Full(written, entries, pCurBuff, f, B, n)
    BY DEF FullInv
  <1> HIDE DEF t, e, d, f, B, n
  <1>7. Full(written \cup {e} \cup V, entries \cup {r}, [pCurBuff EXCEPT ![d] = @ + TAG_SIZE],
             [f EXCEPT ![d] = @ + 1], B, n)
    <2>1. r.ifd = d /\ r.id = e.id
      BY <1>5 DEF d, t
    <2>2. e.id = Id(d, f[d] + 1)
      BY <1>2, <1>5
    <2> QED
      BY <1>2, <1>3, <1>4, <1>5, <1>6, <2>1, <2>2, FullEntry
  <1>8. Full(written', entries', pCurBuff', f', B', n')
    BY <1>2, <1>4, <1>7 DEF e, d, t
  <1> QED
    BY <1>8 DEF FullInv, f, B, n

LEMMA FullAsideStep ==
  ASSUME LayoutInv, FullInv, todo # << >>, todo' = Tail(todo), info' = info,
         Head(todo).write \in {"NextIFD", "padd", "thumbnail"},
         NEW V, Aside(V), written' = written \cup V,
         NEW R, \A r \in R : r.type = "next", entries' = entries \cup R,
         pCurBuff' = pCurBuff
  PROVE  FullInv'
  <1> DEFINE t == Head(todo)
             f == Filled(info, Written)
             B == Begun(info, Written)
             n == Num(info)
  <1>1. HasPlace(t, todo' = << >>, f, f', B, B', n)
    BY Advance DEF LayoutInv
  <1>2. f' = f /\ B' = B
    BY <1>1 DEF HasPlace, EntryWrites, Plain
  <1>3. n' = n
    BY DEF Num, Gps
  <1>4. Full(written, entries, pCurBuff, f, B, n)
    BY DEF FullInv
  <1> HIDE DEF f, B, n
  <1>5. Full(written \cup V, entries \cup R, pCurBuff, f, B, n)
    BY <1>4, FullAside
  <1>6. Full(written', entries', pCurBuff', f', B', n')
    BY <1>2, <1>3, <1>5
  <1> QED
    BY <1>6 DEF FullInv, f, B, n

LEMMA FullBegin ==
  ASSUME LayoutInv, FullInv, BeginIFD
  PROVE  FullInv'
  <1> DEFINE t == Head(todo)
             d == t.ifd
             f == Filled(info, Written)
             B == Begun(info, Written)
             n == Num(info)
             a == Area("number", d, t.count, offset, NUMBER_SIZE)
  <1>0. /\ todo # << >> /\ todo' = Tail(todo) /\ info' = info /\ t.write = "IFD"
        /\ written' = written \cup {a} /\ entries' = entries
        /\ pCurBuff' = [pCurBuff EXCEPT ![d] = offset + NUMBER_SIZE]
    BY DEF BeginIFD, Next1
  <1>1. HasPlace(t, todo' = << >>, f, f', B, B', n) /\ t \in Tags
    BY <1>0, Advance DEF LayoutInv
  <1>2. t.count = n[d] /\ d \notin B /\ B' = B \cup {d} /\ f' = f /\ f[d] = 0 /\ d \in IFDs
    BY <1>0, <1>1 DEF HasPlace, EntryWrites, Plain, Tags
  <1>3. Numbers(pCurBuff, offset, f, n) /\ B \subseteq IFDs
    BY <1>0 DEF LayoutInv, Laid, Layout
  <1>4. n' = n
    BY <1>0 DEF Num, Gps
  <1>5. Full(written, entries, pCurBuff, f, B, n)
    BY DEF FullInv
  <1> HIDE DEF t, d, f, B, n
  <1>6. a = Area("number", d, n[d], offset, NUMBER_SIZE)
    BY <1>2
  <1> HIDE DEF a
  <1>7. Full(written \cup {a}, entries, [pCurBuff EXCEPT ![d] = offset + NUMBER_SIZE], f, B \cup {d}, n)
    BY <1>2, <1>3, <1>5, <1>6, FullNumber
  <1>8. Full(written', entries', pCurBuff', f', B', n')
    BY <1>0, <1>2, <1>4, <1>7
  <1> QED
    BY <1>8 DEF FullInv, f, B, n

LEMMA FullStep ==
  ASSUME LayoutInv, FullInv, [Next]_vars
  PROVE  FullInv'
  <1>1. ASSUME NEW type, NEW is, NEW value, todo # << >>, todo' = Tail(todo), type # "next",
               Head(todo).write \in EntryWrites, Inline(Head(todo), type, is, value)
        PROVE  FullInv'
    <2> DEFINE t == Head(todo)
               r == [ifd |-> t.ifd, id |-> t.id, type |-> type, count |-> t.count,
                     is |-> is, value |-> value]
    <2>1. /\ info' = info /\ written' = written \cup {EntryArea(t)} \cup {}
          /\ entries' = entries \cup {r}
          /\ pCurBuff' = [pCurBuff EXCEPT ![t.ifd] = @ + TAG_SIZE]
      BY <1>1 DEF Inline, Entry
    <2>2. Aside({})
      BY DEF Aside
    <2>3. r.ifd = t.ifd /\ r.id = t.id /\ r.type # "next"
      BY <1>1
    <2> HIDE DEF r
    <2> QED
      BY <1>1, <2>1, <2>2, <2>3, FullEntryStep
  <1>2. ASSUME NEW type, todo # << >>, todo' = Tail(todo), type # "next",
               Head(todo).write \in EntryWrites, OutOfLine(Head(todo), type)
        PROVE  FullInv'
    <2> DEFINE t == Head(todo)
               r == [ifd |-> t.ifd, id |-> t.id, type |-> type, count |-> t.count,
                     is |-> "offset", value |-> offset]
               v == Area("value", t.ifd, t.id, offset, Width(type) * t.count)
    <2>1. /\ info' = info /\ written' = written \cup {EntryArea(t)} \cup {v}
          /\ entries' = entries \cup {r}
          /\ pCurBuff' = [pCurBuff EXCEPT ![t.ifd] = @ + TAG_SIZE]
      BY <1>2 DEF OutOfLine, Entry
    <2>2. Aside({v})
      BY DEF Aside, Area
    <2>3. r.ifd = t.ifd /\ r.id = t.id /\ r.type # "next"
      BY <1>2
    <2> HIDE DEF r, v
    <2> QED
      BY <1>2, <2>1, <2>2, <2>3, FullEntryStep
  <1>3. CASE WriteSHORTTag \/ WriteLONGTag \/ WriteIFDTag \/ WriteJFIFTag
    BY <1>1, <1>3
       DEF WriteSHORTTag, WriteLONGTag, WriteIFDTag, WriteJFIFTag, Next1, EntryWrites, Plain
  <1>4. CASE WriteRATIONALTag \/ WriteSRATIONALTag \/ WriteGPSInfoTag
    BY <1>2, <1>4
       DEF WriteRATIONALTag, WriteSRATIONALTag, WriteGPSInfoTag, Next1, EntryWrites, Plain
  <1>5. CASE WriteBYTESTag \/ WriteASCIITag \/ WriteUNDEFINEDTag
    BY <1>1, <1>2, <1>5
       DEF WriteBYTESTag, WriteASCIITag, WriteUNDEFINEDTag, Counted, Next1, EntryWrites, Plain
  <1>6. CASE WriteNextIFD
    <2> DEFINE t == Head(todo)
               v == Area("next", t.ifd, 0, pCurBuff[t.ifd], OFFSET_SIZE)
               r == [ifd |-> t.ifd, id |-> 0, type |-> "next", count |-> 1,
                     is |-> IF t.id = 0 THEN "value" ELSE "offset",
                     value |-> IF t.id = 0 THEN 0 ELSE offset]
    <2>1. /\ todo # << >> /\ todo' = Tail(todo) /\ info' = info /\ t.write = "NextIFD"
          /\ written' = written \cup {v} /\ entries' = entries \cup {r} /\ pCurBuff' = pCurBuff
      BY <1>6 DEF WriteNextIFD, Next1
    <2>2. Aside({v}) /\ \A q \in {r} : q.type = "next"
      BY DEF Aside, Area
    <2>3. Head(todo).write \in {"NextIFD", "padd", "thumbnail"}
      BY <2>1
    <2> HIDE DEF v, r
    <2> DEFINE V == {v}
               R == {r}
    <2>4. Aside(V) /\ (\A q \in R : q.type = "next") /\ written' = written \cup V
          /\ entries' = entries \cup R
      BY <2>1, <2>2
    <2> HIDE DEF V, R
    <2> QED
      BY <2>1, <2>3, <2>4, FullAsideStep
  <1>7. CASE WritePadd \/ WriteThumbnail
    <2>1. /\ todo # << >> /\ todo' = Tail(todo) /\ info' = info
          /\ Head(todo).write \in {"padd", "thumbnail"}
          /\ entries' = entries /\ pCurBuff' = pCurBuff
      BY <1>7 DEF WritePadd, WriteThumbnail, Next1
    <2>2. PICK V : Aside(V) /\ written' = written \cup V
      <3>1. \/ written' = written \cup {Area("padd", "0th", 0, offset, 1)}
            \/ written' = written \cup {Area("thumbnail", "1st", 0, offset, Head(todo).count)}
            \/ written' = written \cup {}
        BY <1>7 DEF WritePadd, WriteThumbnail
      <3>2. /\ Aside({Area("padd", "0th", 0, offset, 1)}) /\ Aside({})
            /\ Aside({Area("thumbnail", "1st", 0, offset, Head(todo).count)})
        BY DEF Aside, Area
      <3> QED
        BY <3>1, <3>2
    <2> DEFINE R == {}
    <2>3. (\A q \in R : q.type = "next") /\ entries' = entries \cup R
      BY <2>1
    <2>4. Head(todo).write \in {"NextIFD", "padd", "thumbnail"}
      BY <2>1
    <2> HIDE DEF R
    <2> QED
      BY <2>1, <2>2, <2>3, <2>4, FullAsideStep
  <1>8. CASE ReturnLength \/ UNCHANGED vars
    BY <1>8 DEF ReturnLength, vars, FullInv, Written, Filled, Begun, Num, Pad, Gps
  <1> QED
    BY <1>3, <1>4, <1>5, <1>6, <1>7, <1>8, FullBegin DEF Next

(* After the last write every directory that was begun has all its entries.  *)
LEMMA AllFilled ==
  ASSUME NEW i \in InfoType, NEW d \in Begun(i, Length(i))
  PROVE  Filled(i, Length(i))[d] = Num(i)[d]
  <1> DEFINE p == Pad(i)
             g == Gps(i)
             h == i.hasThumbnail
             l == Length(i)
  <1>1. p \in {0, 1} /\ g \in {0, 12} /\ h \in BOOLEAN
    BY DEF Pad, Gps, InfoType
  <1>2. l = 38 + p + g + (IF h THEN 13 - p ELSE 0)
    BY DEF Length
  <1>3. d \in IFDs /\ BegunAt(p, g, d, l)
    BY DEF Begun
  <1> HIDE DEF p, g, h, l
  <1>4. FilledAt(p, g, d, l) = NumAt(g, d)
    BY <1>1, <1>2, <1>3 DEF FilledAt, NumAt, BegunAt, Clamp, IFDs
  <1> QED
    BY <1>3, <1>4 DEF Filled, Num, p, g, l

LEMMA FullEnd ==
  ASSUME LayoutInv, PointInv, FullInv
  PROVE  DirectoriesFull
  <1> SUFFICES ASSUME Done, NEW a \in written, a.what = "number"
               PROVE  /\ Cardinality(EntriesOf(a.ifd)) = a.id
                      /\ pCurBuff[a.ifd] = End(a) + a.id * TAG_SIZE
                      /\ a.ifd # "0th" => \A e, g \in EntriesOf(a.ifd) :
                                            e.id < g.id => Position(e) < Position(g)
    BY DEF DirectoriesFull
  <1> DEFINE f == Filled(info, Written)
             B == Begun(info, Written)
             d == a.ifd
  <1>1. info \in InfoType /\ Written = Length(info)
    <2>1. todo = << >> /\ info \in InfoType
      BY DEF PointInv, Done, LayoutInv, Follows
    <2>2. Len(todo) = 0
      BY <2>1
    <2> QED
      BY <2>1, <2>2, LengthIsNat DEF Written
  <1>2. /\ UpTo(written, pCurBuff, f, B, Num(info)) /\ Tallied(entries, f)
        /\ Shown(written, entries) /\ Latest(written, pCurBuff, f) /\ Sorted(written)
    BY DEF FullInv, Full
  <1>3. d \in B /\ a.id = Num(info)[d] /\ pCurBuff[d] = End(a) + TAG_SIZE * f[d]
    BY <1>2 DEF UpTo
  <1>4. d \in IFDs /\ f[d] = a.id /\ a.id \in Nat
    <2>1. f[d] = Num(info)[d]
      BY <1>1, <1>3, AllFilled
    <2>2. d \in IFDs
      BY <1>3 DEF Begun
    <2>3. Num(info)[d] \in Nat
      BY <2>2 DEF Num, NumAt
    <2> QED
      BY <1>3, <2>1, <2>2, <2>3
  <1>5. EntriesOf(d) = Of(entries, d)
    BY DEF EntriesOf, Of
  <1> HIDE DEF d, f, B
  <1>6. Cardinality(EntriesOf(d)) = a.id
    BY <1>2, <1>4, <1>5 DEF Tallied
  <1>7. pCurBuff[d] = End(a) + a.id * TAG_SIZE
    <2>1. TAG_SIZE * a.id = a.id * TAG_SIZE
      BY <1>4 DEF TAG_SIZE
    <2> QED
      BY <1>3, <1>4, <2>1
  <1>8. ASSUME d # "0th", NEW e \in EntriesOf(d), NEW g \in EntriesOf(d), e.id < g.id
        PROVE  Position(e) < Position(g)
    <2> DEFINE P(q, x) == x.what = "entry" /\ x.ifd = q.ifd /\ x.id = q.id
               u == CHOOSE x \in written : P(e, x)
               v == CHOOSE x \in written : P(g, x)
    <2>1. e.ifd = d /\ g.ifd = d
      BY DEF EntriesOf
    <2>2. (\E x \in written : P(e, x)) /\ (\E x \in written : P(g, x))
      BY <1>2, <1>4, <1>5, <2>1 DEF Shown, IsEntry
    <2>3. u \in written /\ P(e, u) /\ v \in written /\ P(g, v)
      BY <2>2
    <2>4. Position(e) = u.at /\ Position(g) = v.at
      BY DEF Position
    <2> HIDE DEF u, v
    <2>5. IsEntry(u, d) /\ IsEntry(v, d) /\ u.id < v.id
      BY <1>8, <2>1, <2>3 DEF IsEntry
    <2>6. u.at < v.at
      BY <1>2, <1>4, <1>8, <2>3, <2>5 DEF Sorted
    <2> QED
      BY <2>4, <2>6
  <1> QED
    BY <1>6, <1>7, <1>8 DEF d

(* For any lengths: in a complete file every directory has exactly the       *)
(* number of entries it was begun with, which end where its link begins, and *)
(* all but the 0th have them in ascending order of their numbers.            *)
THEOREM DirectoriesComplete == Spec => []DirectoriesFull
  <1> DEFINE Inv == LayoutInv /\ PointInv /\ FullInv
  <1>1. Init => Inv
    BY LayoutInit, PointInit, FullInit
  <1>2. Inv /\ [Next]_vars => Inv'
    BY LayoutStep, PointStep, FullStep
  <1>3. Inv => DirectoriesFull
    BY FullEnd
  <1> QED
    BY <1>1, <1>2, <1>3, PTL DEF Spec

=============================================================================
