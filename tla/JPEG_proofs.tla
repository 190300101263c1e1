---------------------------- MODULE JPEG_proofs ----------------------------
(***************************************************************************)
(* Theorems about the objects through which the programs read a JP4 file:  *)
(* the JPEG objects of libjpeg (JPEGObject) and the JP4 object of          *)
(* movie2dng (JP4Object) with the settings in its maker note (MakerNote),  *)
(* and their proofs: for every number of frames, every heap and every set  *)
(* of maker note lengths.                                                  *)
(***************************************************************************)
EXTENDS JPEGObject, JP4Object, MakerNote, SequenceTheorems, FiniteSetTheorems,
        WellFoundedInduction, TLAPS


(* The order of the calls. *)

LEMMA CallCount ==
  /\ Len(Calls("open")) = 7 /\ DOMAIN Calls("open") = 1..7
  /\ Len(Calls("writeJPEG")) = 6 /\ DOMAIN Calls("writeJPEG") = 1..6
  /\ Len(Calls("elphel_dng")) = 7 /\ DOMAIN Calls("elphel_dng") = 1..7
  BY DEF Calls, OpenCalls, WriteCalls, ElphelCalls

LEMMA CallOrder ==
  /\ \A s \in 1..7 : Calls("open")[s] =
       CASE s = 1 -> "create"    [] s = 2 -> "connect" [] s = 3 -> "read_header"
         [] s = 4 -> "save_app1" [] s = 5 -> "start"   [] s = 6 -> "scanlines"
         [] s = 7 -> "finish"
  /\ \A s \in 1..6 : Calls("writeJPEG")[s] =
       CASE s = 1 -> "create" [] s = 2 -> "connect" [] s = 3 -> "start"
         [] s = 4 -> "write_marker" [] s = 5 -> "scanlines" [] s = 6 -> "finish"
  /\ \A s \in 1..7 : Calls("elphel_dng")[s] =
       CASE s = 1 -> "create" [] s = 2 -> "connect" [] s = 3 -> "read_header"
         [] s = 4 -> "start"  [] s = 5 -> "scanlines" [] s = 6 -> "finish"
         [] s = 7 -> "destroy"
  BY DEF Calls, OpenCalls, WriteCalls, ElphelCalls

-----------------------------------------------------------------------------
(* The object at each call. *)

States == {"undefined", "START", "READY", "SCANNING", "destroyed"}
Objects == [state : States, mem : BOOLEAN, markers : BOOLEAN, scanline : Nat]

JpegTypes ==
  /\ func \in Functions \cup {"idle"} /\ step \in Nat /\ images \in Nat
  /\ file \in [content : Files, height : Nat]
  /\ cinfo \in Objects
  /\ app1 \in BOOLEAN
  /\ ended \in {"no", "refused", "file", "disk", "done"}
  /\ func = "open" => step \in 1..8
  /\ func = "writeJPEG" => step \in 1..7
  /\ func = "elphel_dng" => step \in 1..8

\* What the library asks of the object at each call, and how many lines are
\* done: in JP4::open, main of elphel_dng and JP4::writeJPEG.
OpenReady ==
  /\ step \in 2..3 => cinfo.state = "START"
  /\ step \in 4..5 => cinfo.state = "READY"
  /\ step \in 6..7 => cinfo.state = "SCANNING"
  /\ step = 6 => cinfo.scanline <= file.height
  /\ step = 7 => cinfo.scanline = file.height

ElphelReady ==
  /\ step \in 2..3 => cinfo.state = "START"
  /\ step = 4 => cinfo.state = "READY"
  /\ step \in 5..6 => cinfo.state = "SCANNING"
  /\ step = 5 => cinfo.scanline <= file.height
  /\ step = 6 => cinfo.scanline = file.height

WriteReady ==
  /\ step \in 2..3 => cinfo.state = "START"
  /\ step \in 4..6 => cinfo.state = "SCANNING"
  /\ step = 4 => cinfo.scanline = 0
  /\ step = 5 => cinfo.scanline <= file.height
  /\ step = 6 => cinfo.scanline = file.height

ObjectReady ==
  ended = "no" => /\ func = "open" => OpenReady
                  /\ func = "elphel_dng" => ElphelReady
                  /\ func = "writeJPEG" => WriteReady

CallsInv == JpegTypes /\ ended # "refused" /\ ObjectReady

\* Where each call stands.
LEMMA CallPlaces ==
  ASSUME JpegTypes
  PROVE  /\ Calling("create") => step = 1
         /\ Calling("connect") => step = 2
         /\ Calling("read_header") =>
              func \in {"open", "elphel_dng"} /\ step = 3
         /\ Calling("save_app1") => func = "open" /\ step = 4
         /\ Calling("start") => \/ func = "open" /\ step = 5
                                \/ func = "elphel_dng" /\ step = 4
                                \/ func = "writeJPEG" /\ step = 3
         /\ Calling("write_marker") => func = "writeJPEG" /\ step = 4
         /\ Calling("scanlines") => \/ func = "open" /\ step = 6
                                    \/ func = "elphel_dng" /\ step = 5
                                    \/ func = "writeJPEG" /\ step = 5
         /\ Calling("finish") => \/ func = "open" /\ step = 7
                                 \/ func = "elphel_dng" /\ step = 6
                                 \/ func = "writeJPEG" /\ step = 6
         /\ Calling("destroy") => func = "elphel_dng" /\ step = 7
  <1>1. CASE func = "open"
    <2>1. ASSUME NEW call, Calling(call)
          PROVE  step \in 1..7 /\ Calls("open")[step] = call
      BY <1>1, <2>1, CallCount DEF Calling
    <2> QED BY <1>1, <2>1, CallOrder
  <1>2. CASE func = "writeJPEG"
    <2>1. ASSUME NEW call, Calling(call)
          PROVE  step \in 1..6 /\ Calls("writeJPEG")[step] = call
      BY <1>2, <2>1, CallCount DEF Calling
    <2> QED BY <1>2, <2>1, CallOrder
  <1>3. CASE func = "elphel_dng"
    <2>1. ASSUME NEW call, Calling(call)
          PROVE  step \in 1..7 /\ Calls("elphel_dng")[step] = call
      BY <1>3, <2>1, CallCount DEF Calling
    <2> QED BY <1>3, <2>1, CallOrder
  <1> QED BY <1>1, <1>2, <1>3 DEF Calling, Functions

LEMMA CallsInitInv == JpegInit => CallsInv
  <1> SUFFICES ASSUME JpegInit PROVE CallsInv
    OBVIOUS
  <1>1. cinfo \in Objects
    BY DEF JpegInit, NoObject, Objects, States
  <1>2. file \in [content : Files, height : Nat]
    BY DEF JpegInit, Files
  <1> QED
    BY <1>1, <1>2 DEF JpegInit, CallsInv, JpegTypes, ObjectReady, Functions

\* What a call does to the object.
LEMMA ObjectEffect ==
  ASSUME cinfo \in Objects, NEW state \in States
  PROVE  /\ LET o == [cinfo EXCEPT !.state = state]
            IN  o \in Objects /\ o.state = state /\ o.scanline = cinfo.scanline
         /\ LET o == [cinfo EXCEPT !.state = state, !.markers = TRUE]
            IN  o \in Objects /\ o.state = state /\ o.markers = TRUE
         /\ LET o == [cinfo EXCEPT !.state = state, !.markers = FALSE]
            IN  o \in Objects /\ o.state = state
         /\ LET o == [cinfo EXCEPT !.mem = FALSE, !.state = state]
            IN  o \in Objects /\ o.state = state
         /\ LET o == [cinfo EXCEPT !.state = state, !.scanline = 0]
            IN  o \in Objects /\ o.state = state /\ o.scanline = 0
         /\ LET o == [cinfo EXCEPT !.scanline = @ + 1]
            IN  /\ o \in Objects /\ o.state = cinfo.state
                /\ o.scanline = cinfo.scanline + 1
  <1>1. LET o == [cinfo EXCEPT !.state = state]
        IN  o \in Objects /\ o.state = state /\ o.scanline = cinfo.scanline
    BY DEF Objects
  <1>2. LET o == [cinfo EXCEPT !.state = state, !.markers = TRUE]
        IN  o \in Objects /\ o.state = state /\ o.markers = TRUE
    BY DEF Objects
  <1>3. LET o == [cinfo EXCEPT !.state = state, !.markers = FALSE]
        IN  o \in Objects /\ o.state = state
    BY DEF Objects
  <1>4. LET o == [cinfo EXCEPT !.mem = FALSE, !.state = state]
        IN  o \in Objects /\ o.state = state
    BY DEF Objects
  <1>5. LET o == [cinfo EXCEPT !.state = state, !.scanline = 0]
        IN  o \in Objects /\ o.state = state /\ o.scanline = 0
    BY DEF Objects
  <1>6. LET o == [cinfo EXCEPT !.scanline = @ + 1]
        IN  /\ o \in Objects /\ o.state = cinfo.state
            /\ o.scanline = cinfo.scanline + 1
    BY DEF Objects
  <1> QED BY <1>1, <1>2, <1>3, <1>4, <1>5, <1>6

\* A call after which the process ends, and one after which it goes on.
LEMMA CallEnds ==
  ASSUME CallsInv, cinfo' \in Objects, ended' \in {"file", "disk"},
         UNCHANGED <<func, images, file, app1>>,
         step' = step \/ (step' = step + 1 /\ func \in Functions
                         /\ step \in DOMAIN Calls(func))
  PROVE  CallsInv'
  <1>1. /\ func = "open" => step' \in 1..8
        /\ func = "writeJPEG" => step' \in 1..7
        /\ func = "elphel_dng" => step' \in 1..8
        /\ step' \in Nat
    BY CallCount DEF CallsInv, JpegTypes
  <1> QED BY <1>1 DEF CallsInv, JpegTypes, ObjectReady

LEMMA CallGoesOn ==
  ASSUME CallsInv, cinfo' \in Objects, UNCHANGED <<ended, func, images, file>>,
         app1' \in BOOLEAN, step \in DOMAIN Calls(func), func \in Functions,
         step' = step + 1,
         /\ func = "open" => OpenReady'
         /\ func = "elphel_dng" => ElphelReady'
         /\ func = "writeJPEG" => WriteReady'
  PROVE  CallsInv'
  <1>1. /\ func = "open" => step' \in 1..8
        /\ func = "writeJPEG" => step' \in 1..7
        /\ func = "elphel_dng" => step' \in 1..8
        /\ step' \in Nat
    BY CallCount DEF CallsInv, JpegTypes
  <1> QED BY <1>1 DEF CallsInv, JpegTypes, ObjectReady

LEMMA CallsNextInv == CallsInv /\ [JpegNext]_jpegVars => CallsInv'
  <1> SUFFICES ASSUME CallsInv, [JpegNext]_jpegVars PROVE CallsInv'
    OBVIOUS
  <1>t. /\ JpegTypes /\ cinfo \in Objects /\ step \in Nat
        /\ cinfo.scanline \in Nat /\ file.height \in Nat /\ app1 \in BOOLEAN
        /\ cinfo.markers \in BOOLEAN
    BY DEF CallsInv, JpegTypes, Objects
  <1>c. ASSUME NEW call, Calling(call)
        PROVE  /\ ended = "no" /\ func \in Functions
               /\ step \in DOMAIN Calls(func)
               /\ ObjectReady
    BY <1>c DEF Calling, CallsInv
  <1>s. {"START", "READY", "SCANNING", "destroyed"} \subseteq States
    BY DEF States
  <1>e. ASSUME NEW call, Calling(call), NEW why \in {"file"}, ErrorExit(why)
        PROVE  CallsInv'
    <2>1. cinfo' \in Objects
      BY <1>e, <1>t, <1>s, ObjectEffect DEF ErrorExit
    <2> QED BY <1>e, <2>1, CallEnds DEF ErrorExit
  <1>w. ASSUME NEW call, Calling(call), NEW parts, NEW o \in Objects,
               EmitAs(parts, o)
        PROVE  /\ cinfo' \in Objects
               /\ \/ ended' = "disk"
                  \/ ended' = "no" /\ cinfo' = o
    <2>1. Destroyed(cinfo) \in Objects
      BY <1>t, <1>s, ObjectEffect DEF Destroyed
    <2> QED BY <1>w, <1>c, <2>1 DEF EmitAs, Emit
  <1> USE DEF States, Proceed, OpenReady, ElphelReady, WriteReady
  <1>1. CASE Create
    <2>1. Calling("create") /\ step = 1
      BY <1>1, <1>t, CallPlaces DEF Create
    <2>2. cinfo' \in Objects /\ cinfo'.state = "START"
      BY <1>1 DEF Create, NoObject, Objects, States
    <2> QED BY <1>1, <1>t, <1>c, <2>1, <2>2, CallGoesOn DEF Create
  <1>2. CASE Connect
    <2>1. Calling("connect") /\ step = 2
      BY <1>2, <1>t, CallPlaces DEF Connect
    <2> QED BY <1>2, <1>t, <1>c, <2>1, CallGoesOn DEF Connect, ObjectReady
  <1>3. CASE JpegReadHeader
    <2>1. /\ Calling("read_header")
          /\ func \in {"open", "elphel_dng"} /\ step = 3
      BY <1>3, <1>t, CallPlaces DEF JpegReadHeader
    <2>2. cinfo.state = "START"
      BY <1>c, <2>1 DEF ObjectReady
    <2>3. CASE ErrorExit("file")
      BY <1>e, <2>1, <2>3
    <2>4. CASE ~ErrorExit("file")
      <3>0. /\ cinfo' = [cinfo EXCEPT !.state = "READY", !.markers = TRUE]
            /\ step' = step + 1 /\ UNCHANGED <<func, images, file, app1, ended>>
        BY <1>3, <2>2, <2>4 DEF JpegReadHeader
      <3>1. cinfo' \in Objects /\ cinfo'.state = "READY"
        BY <1>t, <3>0, ObjectEffect
      <3> QED BY <1>t, <1>c, <2>1, <3>0, <3>1, CallGoesOn
    <2> QED BY <2>3, <2>4
  <1>4. CASE CopyApp1
    <2>1. Calling("save_app1") /\ func = "open" /\ step = 4
      BY <1>4, <1>t, CallPlaces DEF CopyApp1
    <2> QED BY <1>4, <1>t, <1>c, <2>1, CallGoesOn DEF CopyApp1, ObjectReady
  <1>5. CASE StartDecompress
    <2>1. /\ Calling("start") /\ Reading
          /\ \/ func = "open" /\ step = 5
             \/ func = "elphel_dng" /\ step = 4
      BY <1>5, <1>t, CallPlaces DEF StartDecompress, Reading
    <2>2. cinfo.state = "READY"
      BY <1>c, <2>1 DEF ObjectReady
    <2>3. CASE ErrorExit("file")
      BY <1>e, <2>1, <2>3
    <2>4. CASE ~ErrorExit("file")
      <3>0. /\ cinfo' = [cinfo EXCEPT !.state = "SCANNING", !.scanline = 0]
            /\ step' = step + 1 /\ UNCHANGED <<func, images, file, app1, ended>>
        BY <1>5, <2>2, <2>4 DEF StartDecompress
      <3>1. /\ cinfo' \in Objects /\ cinfo'.state = "SCANNING"
            /\ cinfo'.scanline = 0
        BY <1>t, <3>0, ObjectEffect
      <3> QED BY <1>t, <1>c, <2>1, <3>0, <3>1, CallGoesOn
    <2> QED BY <2>3, <2>4
  <1>6. CASE GiveUp
    <2>1. /\ step' = 7 /\ func = "elphel_dng"
          /\ UNCHANGED <<func, images, file, cinfo, app1, ended>>
      BY <1>6, CallCount DEF GiveUp
    <2> QED BY <2>1 DEF CallsInv, JpegTypes, ObjectReady
  <1>7. CASE ReadScanline
    <2>1. /\ Calling("scanlines")
          /\ \/ func = "open" /\ step = 6
             \/ func = "elphel_dng" /\ step = 5
      BY <1>7, <1>t, CallPlaces DEF ReadScanline, Reading
    <2>2. cinfo.state = "SCANNING" /\ cinfo.scanline <= file.height
      BY <1>c, <2>1 DEF ObjectReady
    <2>3. CASE cinfo.scanline < file.height
      <3>1. /\ cinfo' \in Objects /\ cinfo'.state = "SCANNING"
            /\ cinfo'.scanline = cinfo.scanline + 1
            /\ UNCHANGED <<func, step, images, file, app1, ended>>
        BY <1>7, <1>t, <2>2, <2>3, ObjectEffect DEF ReadScanline
      <3>2. cinfo'.scanline <= file.height
        BY <1>t, <2>3, <3>1
      <3> QED BY <2>1, <3>1, <3>2 DEF CallsInv, JpegTypes, ObjectReady
    <2>4. CASE cinfo.scanline >= file.height
      <3>1. /\ step' = step + 1 /\ cinfo.scanline = file.height
            /\ UNCHANGED <<func, images, file, cinfo, app1, ended>>
        BY <1>7, <1>t, <2>2, <2>4 DEF ReadScanline
      <3> QED BY <1>t, <1>c, <2>1, <2>2, <3>1, CallGoesOn
    <2> QED BY <1>t, <2>3, <2>4
  <1>8. CASE FinishDecompress
    <2>1. /\ Calling("finish")
          /\ \/ func = "open" /\ step = 7
             \/ func = "elphel_dng" /\ step = 6
      BY <1>8, <1>t, CallPlaces DEF FinishDecompress, Reading
    <2>2. cinfo.state = "SCANNING" /\ cinfo.scanline = file.height
      BY <1>c, <2>1 DEF ObjectReady
    <2>3. /\ cinfo' \in Objects /\ step' = step + 1
          /\ UNCHANGED <<func, images, file, app1, ended>>
      BY <1>8, <1>t, <2>2, ObjectEffect DEF FinishDecompress, Abort
    <2> QED BY <1>t, <1>c, <2>1, <2>3, CallGoesOn
  <1>9. CASE StartCompress
    <2>1. Calling("start") /\ func = "writeJPEG" /\ step = 3
      BY <1>9, <1>t, CallPlaces DEF StartCompress
    <2>2. cinfo.state = "START"
      BY <1>c, <2>1 DEF ObjectReady
    <2> DEFINE o == [cinfo EXCEPT !.state = "SCANNING", !.scanline = 0]
    <2>3. o \in Objects /\ o.state = "SCANNING" /\ o.scanline = 0
      BY <1>t, ObjectEffect
    <2>4. /\ EmitAs(<<"SOI", "APP0">>, o) /\ step' = step + 1
          /\ UNCHANGED <<func, images, file, app1>>
      BY <1>9, <2>2 DEF StartCompress
    <2>5. CASE ended' = "disk"
      BY <1>w, <1>c, <2>1, <2>3, <2>4, <2>5, CallEnds
    <2>6. CASE ended' = "no" /\ cinfo' = o
      BY <1>t, <1>c, <2>1, <2>3, <2>4, <2>6, CallGoesOn
    <2> QED BY <1>w, <2>1, <2>3, <2>4, <2>5, <2>6
  <1>10. CASE WriteMarker
    <2>1. Calling("write_marker") /\ func = "writeJPEG" /\ step = 4
      BY <1>10, <1>t, CallPlaces DEF WriteMarker
    <2>2. cinfo.state = "SCANNING" /\ cinfo.scanline = 0
      BY <1>c, <2>1 DEF ObjectReady
    <2>4. /\ \/ UNCHANGED <<cinfo, ended>> \/ EmitAs(<<"APP1">>, cinfo)
          /\ step' = step + 1 /\ UNCHANGED <<func, images, file, app1>>
      BY <1>10, <2>2 DEF WriteMarker
    <2>5. CASE ended' = "disk"
      BY <1>t, <1>w, <1>c, <2>1, <2>4, <2>5, CallEnds
    <2>6. CASE ended' = "no" /\ cinfo' = cinfo
      BY <1>t, <1>c, <2>1, <2>2, <2>4, <2>6, CallGoesOn
    <2> QED BY <1>t, <1>w, <1>c, <2>1, <2>4, <2>5, <2>6
  <1>11. CASE WriteScanline
    <2>1. Calling("scanlines") /\ func = "writeJPEG" /\ step = 5
      BY <1>11, <1>t, CallPlaces DEF WriteScanline
    <2>2. cinfo.state = "SCANNING" /\ cinfo.scanline <= file.height
      BY <1>c, <2>1 DEF ObjectReady
    <2>3. CASE cinfo.scanline < file.height
      <3> DEFINE o == [cinfo EXCEPT !.scanline = @ + 1]
      <3>1. /\ o \in Objects /\ o.state = "SCANNING"
            /\ o.scanline = cinfo.scanline + 1
        BY <1>t, <2>2, ObjectEffect
      <3>2. /\ EmitAs(PassStartup \o <<"line">>, o)
            /\ UNCHANGED <<func, step, images, file, app1>>
        BY <1>11, <2>2, <2>3 DEF WriteScanline
      <3>3. CASE ended' = "disk"
        BY <1>w, <1>c, <2>1, <3>1, <3>2, <3>3, CallEnds
      <3>4. CASE ended' = "no" /\ cinfo' = o
        <4>1. cinfo'.scanline <= file.height
          BY <1>t, <2>3, <3>1, <3>4
        <4> QED
          BY <2>1, <3>1, <3>2, <3>4, <4>1 DEF CallsInv, JpegTypes, ObjectReady
      <3> QED BY <1>w, <2>1, <3>1, <3>2, <3>3, <3>4
    <2>4. CASE cinfo.scanline >= file.height
      <3>1. /\ step' = step + 1 /\ cinfo.scanline = file.height
            /\ UNCHANGED <<func, images, file, cinfo, app1, ended>>
        BY <1>11, <1>t, <2>2, <2>4 DEF WriteScanline
      <3> QED BY <1>t, <1>c, <2>1, <2>2, <3>1, CallGoesOn
    <2> QED BY <1>t, <2>3, <2>4
  <1>12. CASE FinishCompress
    <2>1. Calling("finish") /\ func = "writeJPEG" /\ step = 6
      BY <1>12, <1>t, CallPlaces DEF FinishCompress
    <2>2. cinfo.state = "SCANNING" /\ cinfo.scanline = file.height
      BY <1>c, <2>1 DEF ObjectReady
    <2> DEFINE o == [cinfo EXCEPT !.state = "START"]
    <2>3. o \in Objects
      BY <1>t, ObjectEffect
    <2>4. /\ EmitAs(<<"EOI">>, o) /\ step' = step + 1
          /\ UNCHANGED <<func, images, file, app1>>
      BY <1>12, <1>t, <2>2 DEF FinishCompress
    <2>5. CASE ended' = "disk"
      BY <1>w, <1>c, <2>1, <2>3, <2>4, <2>5, CallEnds
    <2>6. CASE ended' = "no" /\ cinfo' = o
      BY <1>t, <1>c, <2>1, <2>3, <2>4, <2>6, CallGoesOn
    <2> QED BY <1>w, <2>1, <2>3, <2>4, <2>5, <2>6
  <1>13. CASE Destroy
    <2>1. Calling("destroy") /\ func = "elphel_dng" /\ step = 7
      BY <1>13, <1>t, CallPlaces DEF Destroy
    <2>2. cinfo' \in Objects
      BY <1>13, <1>t, ObjectEffect DEF Destroy, Destroyed
    <2> QED BY <1>13, <1>t, <1>c, <2>1, <2>2, CallGoesOn DEF Destroy
  <1>14. CASE Return
    BY <1>14 DEF Return, CallsInv, JpegTypes, ObjectReady, Functions
  <1>15. CASE NextImage
    <2>1. file' \in [content : Files, height : Nat]
      <3>1. Heights \subseteq Nat
        BY JPEGObjectAssumption
      <3> QED BY <1>15, <3>1 DEF NextImage
    <2>2. /\ func' \in {"open", "elphel_dng"} /\ step' = 1 /\ images' = images + 1
          /\ app1' = FALSE /\ UNCHANGED <<cinfo, ended>>
      BY <1>15 DEF NextImage, Call
    <2>3. ObjectReady'
      BY <2>2 DEF ObjectReady
    <2>4. JpegTypes'
      <3>1. images' \in Nat /\ step' \in Nat
        BY <2>2, <1>t DEF JpegTypes
      <3>3. app1' \in BOOLEAN
        BY <2>2
      <3>2. func' \in Functions \cup {"idle"} /\ func' # "writeJPEG"
        BY <2>2 DEF Functions
      <3> QED BY <2>1, <2>2, <3>1, <3>2, <3>3, <1>t DEF JpegTypes
    <2> QED BY <2>2, <2>3, <2>4 DEF CallsInv
  <1>16. CASE CallWriteJPEG
    BY <1>16 DEF CallWriteJPEG, Call, CallsInv, JpegTypes, ObjectReady, Functions
  <1>17. CASE UNCHANGED jpegVars
    BY <1>17 DEF jpegVars, CallsInv, JpegTypes, ObjectReady
  <1> QED
    BY <1>1, <1>2, <1>3, <1>4, <1>5, <1>6, <1>7, <1>8, <1>9, <1>10, <1>11,
       <1>12, <1>13, <1>14, <1>15, <1>16, <1>17
    DEF JpegNext

\* For any number of frames, whatever files they are in and wherever the disk
\* is full: libjpeg refuses none of the calls of the three functions.
THEOREM CallsAccepted == JpegSpec => []CallsAreAccepted
  <1>1. CallsInv => CallsAreAccepted
    BY DEF CallsInv, CallsAreAccepted
  <1> QED BY <1>1, CallsInitInv, CallsNextInv, PTL DEF JpegSpec

-----------------------------------------------------------------------------
(* The stream of writeJPEG. *)

Parts == {"SOI", "APP0", "APP1", "DQT", "SOF", "DHT", "SOS", "line", "EOI"}
Headers == <<"SOI", "APP0", "APP1", "DQT", "SOF", "DHT", "SOS">>
Lines(n) == [i \in 1..n |-> "line"]

LEMMA LinesSeq ==
  ASSUME NEW n \in Nat
  PROVE  /\ Lines(n) \in Seq(Parts) /\ Len(Lines(n)) = n
         /\ \A i \in 1..n : Lines(n)[i] = "line"
         /\ Headers \in Seq(Parts) /\ Len(Headers) = 7
         /\ <<"line">> \in Seq(Parts)
  BY DEF Lines, Headers, Parts

LEMMA ConcatIs ==
  ASSUME NEW s \in Seq(Parts), NEW t \in Seq(Parts), NEW u \in Seq(Parts),
         /\ Len(u) = Len(s) + Len(t)
         /\ \A i \in 1..Len(s) : u[i] = s[i]
         /\ \A i \in 1..Len(t) : u[Len(s) + i] = t[i]
  PROVE  s \o t = u
  <1>1. /\ s \o t \in Seq(Parts) /\ Len(s \o t) = Len(s) + Len(t)
        /\ \A i \in 1..Len(s) : (s \o t)[i] = s[i]
        /\ \A i \in Len(s) + 1..Len(s) + Len(t) : (s \o t)[i] = t[i - Len(s)]
    BY ConcatProperties
  <1>2. ASSUME NEW i \in 1..Len(u)
        PROVE  (s \o t)[i] = u[i]
    <2>1. Len(s) \in Nat /\ Len(t) \in Nat /\ i \in Nat
      OBVIOUS
    <2>2. CASE i <= Len(s)
      BY <1>1, <2>1, <2>2
    <2>3. CASE i > Len(s)
      <3> DEFINE j == i - Len(s)
      <3>1. j \in 1..Len(t) /\ Len(s) + j = i
        BY <2>1, <2>3
      <3>2. u[Len(s) + j] = t[j]
        BY <3>1
      <3>3. (s \o t)[i] = t[j]
        BY <1>1, <2>1, <2>3
      <3> QED BY <3>1, <3>2, <3>3
    <2> QED BY <2>1, <2>2, <2>3
  <1> QED BY <1>1, <1>2, SeqEqual

\* The first line brings the headers with it, the others follow.
LEMMA FirstLine ==
  (<<"SOI", "APP0">> \o <<"APP1">>) \o (<<"DQT", "SOF", "DHT", "SOS">> \o <<"line">>)
    = Headers \o Lines(1)
  <1> DEFINE a == <<"SOI", "APP0">>
             b == <<"APP1">>
             c == <<"DQT", "SOF", "DHT", "SOS">>
             d == <<"line">>
             ab == <<"SOI", "APP0", "APP1">>
             cd == <<"DQT", "SOF", "DHT", "SOS", "line">>
             u == <<"SOI", "APP0", "APP1", "DQT", "SOF", "DHT", "SOS", "line">>
  <1>t. /\ a \in Seq(Parts) /\ b \in Seq(Parts) /\ c \in Seq(Parts)
        /\ d \in Seq(Parts) /\ ab \in Seq(Parts) /\ cd \in Seq(Parts)
        /\ u \in Seq(Parts) /\ Headers \in Seq(Parts)
    BY DEF Parts, Headers
  <1>l. /\ Len(a) = 2 /\ Len(b) = 1 /\ Len(c) = 4 /\ Len(d) = 1 /\ Len(ab) = 3
        /\ Len(cd) = 5 /\ Len(u) = 8 /\ Len(Headers) = 7
    BY DEF Headers
  <1>1. a \o b = ab
    <2>1. /\ \A i \in 1..2 : ab[i] = a[i]
          /\ \A i \in 1..1 : ab[2 + i] = b[i]
      OBVIOUS
    <2> HIDE DEF a, b, c, d, ab, cd, u
    <2>2. /\ Len(ab) = Len(a) + Len(b)
          /\ \A i \in 1..Len(a) : ab[i] = a[i]
          /\ \A i \in 1..Len(b) : ab[Len(a) + i] = b[i]
      BY <1>l, <2>1
    <2>3. a \in Seq(Parts) /\ b \in Seq(Parts) /\ ab \in Seq(Parts)
      BY <1>t
    <2> QED BY <2>2, <2>3, ConcatIs
  <1>2. c \o d = cd
    <2>1. /\ \A i \in 1..4 : cd[i] = c[i]
          /\ \A i \in 1..1 : cd[4 + i] = d[i]
      OBVIOUS
    <2> HIDE DEF a, b, c, d, ab, cd, u
    <2>2. /\ Len(cd) = Len(c) + Len(d)
          /\ \A i \in 1..Len(c) : cd[i] = c[i]
          /\ \A i \in 1..Len(d) : cd[Len(c) + i] = d[i]
      BY <1>l, <2>1
    <2>3. c \in Seq(Parts) /\ d \in Seq(Parts) /\ cd \in Seq(Parts)
      BY <1>t
    <2> QED BY <2>2, <2>3, ConcatIs
  <1>3. ab \o cd = u
    <2>1. /\ \A i \in 1..3 : u[i] = ab[i]
          /\ \A i \in 1..5 : u[3 + i] = cd[i]
      OBVIOUS
    <2> HIDE DEF a, b, c, d, ab, cd, u
    <2>2. /\ Len(u) = Len(ab) + Len(cd)
          /\ \A i \in 1..Len(ab) : u[i] = ab[i]
          /\ \A i \in 1..Len(cd) : u[Len(ab) + i] = cd[i]
      BY <1>l, <2>1
    <2>3. ab \in Seq(Parts) /\ cd \in Seq(Parts) /\ u \in Seq(Parts)
      BY <1>t
    <2> QED BY <2>2, <2>3, ConcatIs
  <1>4. Lines(1) = d
    BY DEF Lines
  <1>5. Headers \o d = u
    <2>1. /\ \A i \in 1..7 : u[i] = Headers[i]
          /\ \A i \in 1..1 : u[7 + i] = d[i]
      BY DEF Headers
    <2> HIDE DEF a, b, c, d, ab, cd, u
    <2>2. /\ Len(u) = Len(Headers) + Len(d)
          /\ \A i \in 1..Len(Headers) : u[i] = Headers[i]
          /\ \A i \in 1..Len(d) : u[Len(Headers) + i] = d[i]
      BY <1>l, <2>1
    <2>3. Headers \in Seq(Parts) /\ d \in Seq(Parts) /\ u \in Seq(Parts)
      BY <1>t
    <2> QED BY <2>2, <2>3, ConcatIs
  <1> QED BY <1>1, <1>2, <1>3, <1>4, <1>5

LEMMA NextLine ==
  ASSUME NEW n \in Nat
  PROVE  (Headers \o Lines(n)) \o (<< >> \o <<"line">>) = Headers \o Lines(n + 1)
  <1> DEFINE d == <<"line">>
  <1>t. /\ Headers \in Seq(Parts) /\ Lines(n) \in Seq(Parts)
        /\ d \in Seq(Parts)
    BY LinesSeq
  <1>1. << >> \o d = d
    OBVIOUS
  <1>2. Lines(n) \o d = Lines(n + 1)
    <2>1. /\ Lines(n) \o <<"line">> \in Seq(Parts)
          /\ Len(Lines(n) \o <<"line">>) = n + 1
          /\ \A i \in 1..(n + 1) : (Lines(n) \o <<"line">>)[i] = "line"
      BY LinesSeq
    <2>2. /\ Lines(n + 1) \in Seq(Parts) /\ Len(Lines(n + 1)) = n + 1
          /\ \A i \in 1..(n + 1) : Lines(n + 1)[i] = "line"
      BY LinesSeq
    <2> QED BY <2>1, <2>2, SeqEqual
  <1>3. (Headers \o Lines(n)) \o d = Headers \o (Lines(n) \o d)
    <2> HIDE DEF d
    <2> QED BY <1>t, ConcatAssociative
  <1> QED BY <1>1, <1>2, <1>3

Whole == Headers \o Lines(file.height) \o <<"EOI">>

HeadersDone == stream = <<"SOI", "APP0">> \o <<"APP1">>

StreamStarted ==
  /\ step <= 3 => stream = << >>
  /\ step = 4 => stream = <<"SOI", "APP0">>
  /\ step = 5 /\ cinfo.scanline = 0 => HeadersDone
  /\ step = 5 /\ cinfo.scanline # 0 => stream = Headers \o Lines(cinfo.scanline)
  /\ step = 6 => stream = Headers \o Lines(file.height)
  /\ step > 6 => stream = Whole

\* What the file holds so far, and where the APP1 data are on their way from
\* one file to the other.
StreamReady ==
  /\ func \in Functions \/ images > 0 => file.height > 0
  /\ func \in {"open", "elphel_dng"} => stream = << >>
  /\ func = "idle" /\ stream # << >> => stream = Whole
  /\ ended = "no" =>
       /\ func = "open" /\ step = 4 => cinfo.markers = TRUE
       /\ func = "open" /\ step > 4 => app1 = TRUE
       /\ func = "writeJPEG" => app1 = TRUE /\ StreamStarted
       /\ func = "idle" /\ images > 0 => app1 = TRUE

StreamInv == CallsInv /\ StreamReady

LEMMA StreamInitInv == JpegInit => StreamInv
  <1> SUFFICES ASSUME JpegInit PROVE StreamInv
    OBVIOUS
  <1>1. CallsInv
    BY CallsInitInv
  <1> QED BY <1>1 DEF JpegInit, StreamInv, StreamReady, Functions

LEMMA StreamNextInv == StreamInv /\ [JpegNext]_jpegVars => StreamInv'
  <1> SUFFICES ASSUME StreamInv, [JpegNext]_jpegVars PROVE StreamInv'
    OBVIOUS
  <1>i. CallsInv /\ CallsInv' /\ JpegTypes /\ StreamReady
    BY CallsNextInv DEF StreamInv, CallsInv
  <1>t. /\ step \in Nat /\ cinfo \in Objects /\ cinfo.scanline \in Nat
        /\ file.height \in Nat /\ app1 \in BOOLEAN
    BY <1>i DEF JpegTypes, Objects
  <1>c. ASSUME NEW call, Calling(call)
        PROVE  ended = "no" /\ func \in Functions
    BY <1>c DEF Calling
  <1> SUFFICES StreamReady'
    BY <1>i DEF StreamInv
  <1>r. ASSUME UNCHANGED <<func, stream, file, images>>, ended' # "no"
        PROVE  StreamReady'
    BY <1>r, <1>i DEF StreamReady, Whole
  <1>1. CASE Create \/ Connect
    <2>1. step \in 1..2 /\ step' = step + 1
          /\ UNCHANGED <<func, stream, file, app1, ended, images>>
      BY <1>1, <1>i, CallPlaces DEF Create, Connect, Proceed
    <2> QED BY <2>1, <1>i, <1>1, <1>c
      DEF StreamReady, Whole, StreamStarted, Create, Connect, Functions
  <1>3. CASE JpegReadHeader
    <2>1. /\ Calling("read_header")
          /\ func \in {"open", "elphel_dng"} /\ step = 3
      BY <1>3, <1>i, CallPlaces DEF JpegReadHeader
    <2>2. UNCHANGED <<func, stream, file, images>>
      BY <1>3 DEF JpegReadHeader, ErrorExit, Proceed
    <2>3. CASE ended' # "no"
      BY <2>2, <2>3, <1>r
    <2>4. CASE ended' = "no"
      <3>1. /\ cinfo' = [cinfo EXCEPT !.state = "READY", !.markers = TRUE]
            /\ step' = 4
        BY <1>3, <2>1, <2>4 DEF JpegReadHeader, ErrorExit, Proceed
      <3>2. cinfo'.markers = TRUE
        BY <3>1, <1>t, ObjectEffect DEF States
      <3> QED BY <2>1, <2>2, <3>1, <3>2, <1>i DEF StreamReady, Functions
    <2> QED BY <2>3, <2>4
  <1>4. CASE CopyApp1
    <2>1. Calling("save_app1") /\ func = "open" /\ step = 4 /\ ended = "no"
      BY <1>4, <1>i, <1>c, CallPlaces DEF CopyApp1
    <2>2. UNCHANGED <<func, stream, file>> /\ app1' = TRUE /\ step' = 5
      BY <1>4, <2>1, <1>i DEF CopyApp1, Proceed, StreamReady
    <2> QED BY <2>1, <2>2, <1>i DEF StreamReady, Functions
  <1>5. CASE StartDecompress \/ ReadScanline \/ FinishDecompress
    <2>1. /\ UNCHANGED <<func, stream, file, app1>>
          /\ func \in {"open", "elphel_dng"} /\ step' \in {step, step + 1}
          /\ func = "open" => step \in 5..7
          /\ ended = "no"
      BY <1>5, <1>i, <1>c, CallPlaces
      DEF StartDecompress, ReadScanline, FinishDecompress, ErrorExit, Proceed,
          Reading
    <2> QED BY <2>1, <1>i, <1>t DEF StreamReady, Functions
  <1>6. CASE GiveUp \/ Destroy
    <2>1. func = "elphel_dng" /\ UNCHANGED <<func, stream, file>>
      BY <1>6, <1>i, CallPlaces DEF GiveUp, Destroy, Proceed
    <2> QED BY <2>1, <1>i DEF StreamReady, Functions
  <1>8. CASE StartCompress
    <2>1. Calling("start") /\ func = "writeJPEG" /\ step = 3 /\ ended = "no"
      BY <1>8, <1>i, <1>c, CallPlaces DEF StartCompress
    <2>2. UNCHANGED <<func, file, app1>>
      BY <1>8 DEF StartCompress, ErrorExit, Proceed
    <2>3. CASE ended' # "no"
      BY <2>1, <2>2, <2>3, <1>i DEF StreamReady, Functions
    <2>4. CASE ended' = "no"
      <3>1. stream' = stream \o <<"SOI", "APP0">> /\ step' = 4
        BY <1>8, <2>1, <2>4 DEF StartCompress, EmitAs, Emit, ErrorExit, Proceed
      <3>2. stream = << >>
        BY <2>1, <1>i DEF StreamReady, StreamStarted
      <3>3. << >> \o <<"SOI", "APP0">> = <<"SOI", "APP0">>
        OBVIOUS
      <3> QED BY <2>1, <2>2, <3>1, <3>2, <3>3, <1>i
        DEF StreamReady, StreamStarted, Functions
    <2> QED BY <2>3, <2>4
  <1>9. CASE WriteMarker
    <2>1. /\ Calling("write_marker") /\ func = "writeJPEG" /\ step = 4
          /\ ended = "no" /\ cinfo.scanline = 0 /\ cinfo.state = "SCANNING"
      BY <1>9, <1>i, <1>c, CallPlaces
      DEF WriteMarker, CallsInv, ObjectReady, WriteReady
    <2>2. UNCHANGED <<func, file, app1>>
      BY <1>9 DEF WriteMarker, ErrorExit, Proceed
    <2>3. CASE ended' # "no"
      BY <2>1, <2>2, <2>3, <1>i DEF StreamReady, Functions
    <2>4. CASE ended' = "no"
      <3>1. /\ stream' = stream \o <<"APP1">> /\ step' = 5 /\ cinfo' = cinfo
        BY <1>9, <2>1, <2>4, <1>i
        DEF WriteMarker, EmitAs, Emit, ErrorExit, Proceed, StreamReady
      <3>2. stream = <<"SOI", "APP0">>
        BY <2>1, <1>i DEF StreamReady, StreamStarted
      <3> QED BY <2>1, <2>2, <3>1, <3>2, <1>i
        DEF StreamReady, StreamStarted, HeadersDone, Functions
    <2> QED BY <2>3, <2>4
  <1>10. CASE WriteScanline
    <2>1. /\ Calling("scanlines") /\ func = "writeJPEG" /\ step = 5
          /\ ended = "no" /\ cinfo.scanline <= file.height
          /\ cinfo.state = "SCANNING" /\ file.height > 0
      BY <1>10, <1>i, <1>c, CallPlaces
      DEF WriteScanline, CallsInv, ObjectReady, WriteReady, StreamReady,
          Functions
    <2>2. UNCHANGED <<func, file, app1>>
      BY <1>10 DEF WriteScanline, ErrorExit, Proceed
    <2>s. /\ cinfo.scanline = 0 => HeadersDone
          /\ cinfo.scanline # 0 => stream = Headers \o Lines(cinfo.scanline)
      BY <2>1, <1>i DEF StreamReady, StreamStarted
    <2>3. CASE ended' # "no"
      BY <2>1, <2>2, <2>3, <1>i DEF StreamReady, Functions
    <2>4. CASE ended' = "no" /\ cinfo.scanline < file.height
      <3>1. /\ stream' = stream \o (PassStartup \o <<"line">>)
            /\ step' = 5 /\ cinfo' = [cinfo EXCEPT !.scanline = @ + 1]
        BY <1>10, <2>1, <2>4 DEF WriteScanline, EmitAs, Emit
      <3>2. cinfo'.scanline = cinfo.scanline + 1
        BY <3>1, <1>t DEF Objects
      <3>3. stream' = Headers \o Lines(cinfo.scanline + 1)
        <4>1. CASE cinfo.scanline = 0
          <5>1. PassStartup = <<"DQT", "SOF", "DHT", "SOS">>
            BY <4>1 DEF PassStartup
          <5>2. stream' = Headers \o Lines(1)
            BY <3>1, <2>s, <4>1, <5>1, FirstLine DEF HeadersDone
          <5>3. cinfo.scanline + 1 = 1
            BY <4>1
          <5> QED BY <5>2, <5>3
        <4>2. CASE cinfo.scanline # 0
          <5>1. PassStartup = << >>
            BY <4>2 DEF PassStartup
          <5> QED BY <3>1, <2>s, <4>2, <5>1, <1>t, NextLine
        <4> QED BY <4>1, <4>2
      <3>4. cinfo'.scanline # 0
        BY <3>2, <1>t
      <3>5. StreamStarted'
        <4>1. step' = 5
          BY <3>1
        <4>2. stream' = Headers \o Lines(cinfo'.scanline)
          BY <3>2, <3>3
        <4> QED BY <4>1, <4>2, <3>4 DEF StreamStarted
      <3>6. images' = images
        BY <1>10, <2>1, <2>4 DEF WriteScanline
      <3> QED BY <2>1, <2>2, <2>4, <3>5, <3>6, <1>i DEF StreamReady, Functions
    <2>5. CASE ended' = "no" /\ cinfo.scanline = file.height
      <3>1. step' = 6 /\ UNCHANGED stream
        BY <1>10, <2>1, <2>5, <1>t DEF WriteScanline, Proceed
      <3>2. stream = Headers \o Lines(file.height)
        BY <2>s, <2>1, <2>5
      <3> QED BY <2>1, <2>2, <2>5, <3>1, <3>2, <1>i
        DEF StreamReady, StreamStarted, Functions
    <2> QED BY <2>1, <2>3, <2>4, <2>5, <1>t
  <1>11. CASE FinishCompress
    <2>1. /\ Calling("finish") /\ func = "writeJPEG" /\ step = 6
          /\ ended = "no" /\ cinfo.scanline = file.height
          /\ cinfo.state = "SCANNING"
      BY <1>11, <1>i, <1>c, CallPlaces
      DEF FinishCompress, CallsInv, ObjectReady, WriteReady
    <2>2. UNCHANGED <<func, file, app1>>
      BY <1>11 DEF FinishCompress, ErrorExit, Proceed
    <2>3. CASE ended' # "no"
      BY <2>1, <2>2, <2>3, <1>i DEF StreamReady, Functions
    <2>4. CASE ended' = "no"
      <3>1. stream' = stream \o <<"EOI">> /\ step' = 7
        BY <1>11, <2>1, <2>4, <1>t
        DEF FinishCompress, EmitAs, Emit, ErrorExit, Proceed
      <3>2. stream = Headers \o Lines(file.height)
        BY <2>1, <1>i DEF StreamReady, StreamStarted
      <3> QED BY <2>1, <2>2, <2>4, <3>1, <3>2, <1>i
        DEF StreamReady, StreamStarted, Functions, Whole
    <2> QED BY <2>3, <2>4
  <1>12. CASE Return
    <2>1. /\ ended = "no" /\ func \in Functions /\ step > Len(Calls(func))
          /\ func' = "idle" /\ UNCHANGED <<step, images, file, app1, stream>>
          /\ func = "elphel_dng" => ended' # "no"
      BY <1>12 DEF Return
    <2>2. /\ func = "open" => step > 4
          /\ func = "writeJPEG" => step > 6
      <3>1. CASE func = "open"
        <4>1. step > Len(Calls("open")) /\ Len(Calls("open")) = 7
          BY <2>1, <3>1, CallCount
        <4>2. step > 7
          BY <4>1
        <4> QED BY <3>1, <4>2, <1>t
      <3>2. CASE func = "writeJPEG"
        <4>1. step > Len(Calls("writeJPEG")) /\ Len(Calls("writeJPEG")) = 6
          BY <2>1, <3>2, CallCount
        <4>2. step > 6
          BY <4>1
        <4> QED BY <3>2, <4>2, <1>t
      <3> QED BY <3>1, <3>2
    <2>3. stream' # << >> => stream = Whole
      BY <2>1, <2>2, <1>i DEF StreamReady, StreamStarted, Functions
    <2>4. ended' = "no" => app1 = TRUE
      BY <2>1, <2>2, <1>i DEF StreamReady, Functions
    <2>5. func' \notin Functions /\ (images > 0 => file.height > 0)
      BY <2>1, <1>i DEF StreamReady, Functions
    <2>6. stream' # << >> => stream' = Whole'
      BY <2>1, <2>3 DEF Whole
    <2> QED BY <2>1, <2>4, <2>5, <2>6 DEF StreamReady
  <1>13. CASE NextImage
    <2>1. file'.height > 0
      <3>1. /\ \A h \in Heights : h \in Nat /\ h > 0
            /\ file' \in [content : Files, height : Heights]
        BY <1>13, JPEGObjectAssumption DEF NextImage
      <3>2. file'.height \in Heights
        BY <3>1
      <3> QED BY <3>1, <3>2
    <2>2. /\ func' \in {"open", "elphel_dng"} /\ step' = 1 /\ stream' = << >>
      BY <1>13 DEF NextImage, Call
    <2> QED BY <2>1, <2>2 DEF StreamReady, Functions
  <1>14. CASE CallWriteJPEG
    <2>1. /\ func = "idle" /\ func' = "writeJPEG" /\ step' = 1 /\ images > 0
          /\ stream = << >> /\ ended = "no"
          /\ UNCHANGED <<file, app1, stream, images>>
      BY <1>14 DEF CallWriteJPEG, Call
    <2>2. file.height > 0
      BY <2>1, <1>i DEF StreamReady
    <2> QED BY <2>1, <2>2, <1>i DEF StreamReady, StreamStarted, Functions
  <1>15. CASE UNCHANGED jpegVars
    BY <1>15, <1>i DEF jpegVars, StreamReady, StreamStarted, HeadersDone, Whole
  <1> QED
    BY <1>1, <1>3, <1>4, <1>5, <1>6, <1>8, <1>9, <1>10, <1>11, <1>12, <1>13,
       <1>14, <1>15
    DEF JpegNext

\* Whatever was converted before, a JPEG file that writeJPEG has closed is
\* whole: the file header, the APP1 data of the image, the frame header, all
\* lines and the end marker, for images of any height.
THEOREM StreamsWhole == JpegSpec => []StreamIsWhole
  <1>1. StreamInv => StreamIsWhole
    BY DEF StreamInv, StreamReady, StreamIsWhole, Whole, Headers, Lines
  <1> QED BY <1>1, StreamInitInv, StreamNextInv, PTL DEF JpegSpec

-----------------------------------------------------------------------------
(* The JP4 object of movie2dng. *)


Labels == {"construct", "app1", "data", "exif", "note", "dng", "jpeg",
           "~data", "~raw_app1", "exit", "crashed"}
Block == [live : BOOLEAN, for : Pointers, frame : Nat,
          words : WordCounts \cup {NoEntry}]

ObjectTypes ==
  /\ objectPc \in Labels
  /\ frame \in Nat
  /\ kind \in Kinds \cup {[app1 |-> FALSE, words |-> NoEntry]}
  /\ obj \in [Pointers -> Blocks \cup {Null, Wild}]
  /\ note \in [Groups -> Nat]
  /\ heap \in [Blocks -> Block]
  /\ faulted \in BOOLEAN
  /\ regular \in BOOLEAN

\* The labels at which the object has its APP1 copy, its pixels, its EXIF
\* object, and its maker note decoded.
WithApp1 == {"data", "exif", "note", "dng", "jpeg", "~data", "~raw_app1"}
WithData == {"exif", "note", "dng", "jpeg", "~data"}
WithExif == {"note", "dng", "jpeg"}

\* p is the object's own block, and what it holds comes from this frame's file.
OfThisFrame(p) == /\ Own(p)
                  /\ heap[obj[p]].frame = frame
                  /\ heap[obj[p]].words = kind.words

\* What each member that a regular frame has set up points to.
RegularFrame ==
  /\ ~faulted
  /\ objectPc # "construct" => kind.app1 /\ kind.words \notin 0..7
  /\ objectPc \in WithApp1 => OfThisFrame("raw_app1")
  /\ objectPc \in WithData => Own("data")
  /\ objectPc \in WithExif => OfThisFrame("ed")
  /\ objectPc \in Writing => \A g \in Decoded(kind.words) : note[g] = frame

ObjectInv == ObjectTypes /\ (regular => RegularFrame)

-----------------------------------------------------------------------------
(* Lemmas about the heap. *)

\* What new returns is a block of the object's own, and it was no live block.
LEMMA NewEffect ==
  ASSUME ObjectTypes, NEW p \in Pointers, NEW from \in Nat,
         NEW words \in WordCounts \cup {NoEntry}, New(p, from, words)
  PROVE  /\ obj' \in [Pointers -> Blocks \cup {Null, Wild}]
         /\ heap' \in [Blocks -> Block]
         /\ Own(p)' /\ heap'[obj'[p]].frame = from
         /\ heap'[obj'[p]].words = words
         /\ \A q \in Pointers \ {p} :
              Own(q) => /\ Own(q)' /\ obj'[q] = obj[q]
                        /\ heap'[obj'[q]] = heap[obj[q]]
  <1>1. PICK b \in Blocks \ Live :
          /\ obj' = [obj EXCEPT ![p] = b]
          /\ heap' = [heap EXCEPT ![b] = [live |-> TRUE, for |-> p,
                                          frame |-> from, words |-> words]]
    BY DEF New
  <1>2. /\ obj' \in [Pointers -> Blocks \cup {Null, Wild}]
        /\ heap' \in [Blocks -> Block]
        /\ obj'[p] = b
        /\ heap'[b] = [live |-> TRUE, for |-> p, frame |-> from,
                       words |-> words]
    BY <1>1 DEF ObjectTypes, Block
  <1>3. Own(p)'
    BY <1>2 DEF Own, Live
  <1>4. ASSUME NEW q \in Pointers \ {p}, Own(q)
        PROVE  Own(q)' /\ obj'[q] = obj[q] /\ heap'[obj'[q]] = heap[obj[q]]
    <2>1. obj[q] \in Live /\ obj[q] # b /\ obj[q] \in Blocks
      BY <1>4 DEF Own, Live
    <2>2. obj'[q] = obj[q] /\ heap'[obj[q]] = heap[obj[q]]
      BY <1>1, <2>1 DEF ObjectTypes
    <2> QED BY <1>4, <2>1, <2>2 DEF Own, Live
  <1> QED BY <1>2, <1>3, <1>4

\* Deleting a block of the object's own leaves those of the other members.
LEMMA DeleteEffect ==
  ASSUME ObjectTypes, NEW p \in Pointers, NEW at, NEW next \in Labels,
         Delete(p, at, next)
  PROVE  /\ heap' \in [Blocks -> Block]
         /\ objectPc' \in {next, "crashed"}
         /\ Own(p) => objectPc' = next /\ faulted' = faulted
         /\ faulted' \in BOOLEAN
         /\ \A q \in Pointers \ {p} :
              Own(p) /\ Own(q) => Own(q)' /\ heap'[obj'[q]] = heap[obj[q]]
  <1>1. CASE obj[p] = Null
    <2>1. ~Own(p)
      BY <1>1, JP4ObjectAssumption DEF Own, Live
    <2> QED
      BY <1>1, <2>1 DEF Delete, Goto, ObjectTypes, Own, Live
  <1>2. CASE obj[p] # Null /\ obj[p] \notin Live
    BY <1>2 DEF Delete, Goto, ObjectTypes, Own, Live
  <1>3. CASE obj[p] # Null /\ obj[p] \in Live
    <2>1. /\ heap' = [heap EXCEPT ![obj[p]].live = FALSE]
          /\ objectPc' = next /\ obj' = obj
          /\ faulted' = (faulted \/ ~Own(p))
      BY <1>3 DEF Delete, Goto
    <2>2. obj[p] \in Blocks /\ heap[obj[p]] \in Block
      BY <1>3 DEF Live, ObjectTypes
    <2>3. heap' \in [Blocks -> Block]
      BY <2>1, <2>2 DEF ObjectTypes, Block
    <2>4. ASSUME NEW q \in Pointers \ {p}, Own(q), Own(p)
          PROVE  Own(q)' /\ heap'[obj'[q]] = heap[obj[q]]
      <3>1. obj[q] # obj[p] /\ obj[q] \in Blocks
        BY <2>4 DEF Own, Live
      <3> QED BY <2>1, <2>4, <3>1 DEF Own, Live, ObjectTypes
    <2> QED BY <2>1, <2>3, <2>4, <1>3 DEF ObjectTypes, Own
  <1> QED BY <1>1, <1>2, <1>3

-----------------------------------------------------------------------------
(* The invariant. *)

LEMMA ObjectInitInv == ObjectInit => ObjectInv
  <1> SUFFICES ASSUME ObjectInit PROVE ObjectInv
    OBVIOUS
  <1>1. obj \in [Pointers -> Blocks \cup {Null, Wild}]
    BY DEF ObjectInit
  <1>2. heap \in [Blocks -> Block]
    BY DEF ObjectInit, ObjectFresh, Unused, Block, Pointers
  <1> QED
    BY <1>1, <1>2
    DEF ObjectInit, ObjectFresh, ObjectInv, ObjectTypes, RegularFrame, Labels,
        WithApp1, WithData, WithExif, Writing

LEMMA ObjectNextInv == ObjectInv /\ [ObjectNext]_objectVars => ObjectInv'
  <1> SUFFICES ASSUME ObjectInv, [ObjectNext]_objectVars PROVE ObjectInv'
    OBVIOUS
  <1>t. ObjectTypes
    BY DEF ObjectInv
  <1>1. CASE Construct
    BY <1>1
    DEF Construct, ObjectInv, ObjectTypes, RegularFrame, Goto, Labels, WithApp1,
        WithData, WithExif, Writing
  <1>2. CASE ReadHeader
    <2>1. CASE SaveApp1 /\ Goto("data")
      <3>1. CASE kind.app1
        <4>1. frame \in Nat /\ kind.words \in WordCounts \cup {NoEntry}
          BY <1>t DEF ObjectTypes, Kinds
        <4>2. New("raw_app1", frame, kind.words)
          BY <2>1, <3>1 DEF SaveApp1
        <4>3. /\ obj' \in [Pointers -> Blocks \cup {Null, Wild}]
              /\ heap' \in [Blocks -> Block]
              /\ Own("raw_app1")' /\ heap'[obj'["raw_app1"]].frame = frame
              /\ heap'[obj'["raw_app1"]].words = kind.words
          BY <1>t, <4>1, <4>2, NewEffect DEF Pointers
        <4> QED
          BY <1>2, <2>1, <4>3
          DEF ReadHeader, ObjectInv, ObjectTypes, RegularFrame, OfThisFrame,
              Goto, Labels, WithApp1, WithData, WithExif, Writing
      <3>2. CASE ~kind.app1
        BY <1>2, <2>1, <3>2
        DEF ReadHeader, SaveApp1, ObjectInv, ObjectTypes, RegularFrame, Goto,
            Labels
      <3> QED BY <3>1, <3>2
    <2>2. CASE UNCHANGED <<obj, heap>> /\ Goto("exit")
      BY <1>2, <2>2
      DEF ReadHeader, ObjectInv, ObjectTypes, RegularFrame, Goto, Labels,
          WithApp1, WithData, WithExif, Writing
    <2> QED BY <1>2, <2>1, <2>2 DEF ReadHeader
  <1>3. CASE AllocateData
    <2>1. New("data", frame, NoEntry) /\ frame \in Nat
      BY <1>3, <1>t DEF AllocateData, ObjectTypes
    <2>2. /\ obj' \in [Pointers -> Blocks \cup {Null, Wild}]
          /\ heap' \in [Blocks -> Block]
          /\ Own("data")'
          /\ Own("raw_app1") =>
               Own("raw_app1")' /\ heap'[obj'["raw_app1"]] = heap[obj["raw_app1"]]
      BY <1>t, <2>1, NewEffect DEF Pointers
    <2> QED
      BY <1>3, <2>2
      DEF AllocateData, ObjectInv, ObjectTypes, RegularFrame, OfThisFrame, Goto,
          Labels, WithApp1, WithData, WithExif, Writing
  <1>4. CASE LoadExif
    <2>1. CASE obj["raw_app1"] = Null
      <3>1. ~regular
        BY <1>4, <2>1, JP4ObjectAssumption
        DEF LoadExif, ObjectInv, RegularFrame, OfThisFrame, WithApp1, Own, Live
      <3> QED
        BY <1>4, <2>1, <3>1 DEF LoadExif, ObjectInv, ObjectTypes, Goto, Labels
    <2>2. CASE obj["raw_app1"] # Null /\ obj["raw_app1"] \notin Blocks
      <3>1. ~regular
        BY <1>4, <2>2
        DEF LoadExif, ObjectInv, RegularFrame, OfThisFrame, WithApp1, Own, Live
      <3> QED
        BY <1>4, <2>2, <3>1
        DEF LoadExif, ObjectInv, ObjectTypes, Use, Goto, Labels
    <2>3. CASE obj["raw_app1"] # Null /\ obj["raw_app1"] \in Blocks
      <3> DEFINE source == heap[obj["raw_app1"]]
      <3>1. source.frame \in Nat /\ source.words \in WordCounts \cup {NoEntry}
        BY <1>t, <2>3 DEF ObjectTypes, Block
      <3>2. /\ New("ed", source.frame, source.words) /\ objectPc' = "note"
            /\ faulted' = (faulted \/ ~Own("raw_app1"))
            /\ objectPc = "exif"
            /\ UNCHANGED <<frame, kind, note, regular>>
        BY <1>4, <2>3 DEF LoadExif, Use, Goto
      <3>3. /\ obj' \in [Pointers -> Blocks \cup {Null, Wild}]
            /\ heap' \in [Blocks -> Block]
            /\ Own("ed")' /\ heap'[obj'["ed"]].frame = source.frame
            /\ heap'[obj'["ed"]].words = source.words
            /\ Own("data") => Own("data")'
            /\ Own("raw_app1") =>
                 /\ Own("raw_app1")'
                 /\ heap'[obj'["raw_app1"]] = heap[obj["raw_app1"]]
        <4> HIDE DEF source
        <4> QED BY <1>t, <3>1, <3>2, NewEffect DEF Pointers, source
      <3> QED
        BY <3>2, <3>3
        DEF ObjectInv, ObjectTypes, RegularFrame, OfThisFrame, Labels, WithApp1,
            WithData, WithExif, Writing
    <2> QED BY <2>1, <2>2, <2>3
  <1>5. CASE ReadMakerNote
    <2>1. CASE obj["ed"] \notin Blocks
      <3>1. ~regular
        BY <1>5, <2>1
        DEF ReadMakerNote, ObjectInv, RegularFrame, OfThisFrame, WithExif, Own,
            Live
      <3> QED
        BY <1>5, <2>1, <3>1
        DEF ReadMakerNote, ObjectInv, ObjectTypes, Goto, Labels
    <2>2. CASE obj["ed"] \in Blocks
      <3> DEFINE exif == heap[obj["ed"]]
      <3>1. /\ objectPc = "note" /\ objectPc' = "dng"
            /\ faulted' = (faulted \/ ~Own("ed") \/ exif.words \in 0..7)
            /\ note' = [g \in Groups |-> IF g \in Decoded(exif.words)
                                         THEN exif.frame ELSE note[g]]
            /\ UNCHANGED <<frame, kind, obj, heap, regular>>
        BY <1>5, <2>2, JP4ObjectAssumption DEF ReadMakerNote, Goto
      <3>2. exif.frame \in Nat
        BY <1>t, <2>2 DEF ObjectTypes, Block
      <3>3. ObjectTypes'
        BY <1>t, <3>1, <3>2 DEF ObjectTypes, Labels
      <3>4. ASSUME regular PROVE RegularFrame'
        <4>1. /\ ~faulted /\ kind.app1 /\ kind.words \notin 0..7
              /\ OfThisFrame("raw_app1") /\ Own("data") /\ OfThisFrame("ed")
          BY <3>1, <3>4
          DEF ObjectInv, RegularFrame, WithApp1, WithData, WithExif
        <4>2. ~faulted' /\ \A g \in Decoded(kind.words) : note'[g] = frame
          <5>1. exif.words = kind.words /\ exif.frame = frame /\ Own("ed")
            BY <4>1 DEF OfThisFrame
          <5>2. Decoded(kind.words) \subseteq Groups
            BY DEF Decoded, Groups
          <5> QED BY <3>1, <4>1, <5>1, <5>2
        <4> QED
          BY <3>1, <4>1, <4>2
          DEF RegularFrame, OfThisFrame, Own, Live, WithApp1, WithData, WithExif
      <3> QED BY <3>1, <3>3, <3>4 DEF ObjectInv
    <2> QED BY <2>1, <2>2
  <1>6. CASE WriteDNG
    <2>1. /\ UNCHANGED <<frame, kind, obj, note, heap, regular>>
          /\ objectPc = "dng" /\ objectPc' \in {"jpeg", "crashed"}
          /\ faulted' \in {faulted, faulted \/ ~Own("ed")}
          /\ Own("ed") => objectPc' = "jpeg"
      BY <1>6 DEF WriteDNG, Use, Goto, Own, Live
    <2> QED
      BY <2>1
      DEF ObjectInv, ObjectTypes, RegularFrame, OfThisFrame, Own, Live, Labels,
          WithApp1, WithData, WithExif, Writing
  <1>7. CASE WriteJPEG
    <2>1. /\ UNCHANGED <<frame, kind, obj, note, heap, regular>>
          /\ objectPc = "jpeg" /\ objectPc' \in {"~data", "crashed"}
          /\ faulted' \in {faulted, faulted \/ ~Own("raw_app1")}
          /\ Own("raw_app1") => objectPc' = "~data"
      BY <1>7, JP4ObjectAssumption DEF WriteJPEG, Use, Goto, Own, Live
    <2> QED
      BY <2>1
      DEF ObjectInv, ObjectTypes, RegularFrame, OfThisFrame, Own, Live, Labels,
          WithApp1, WithData, WithExif, Writing
  <1>8. CASE DeleteData
    <2>1. /\ heap' \in [Blocks -> Block]
          /\ objectPc' \in {"~raw_app1", "crashed"} /\ faulted' \in BOOLEAN
          /\ Own("data") => objectPc' = "~raw_app1" /\ faulted' = faulted
          /\ Own("data") /\ Own("raw_app1") =>
               Own("raw_app1")' /\ heap'[obj'["raw_app1"]] = heap[obj["raw_app1"]]
      BY <1>8, <1>t, DeleteEffect DEF DeleteData, Pointers, Labels
    <2> QED
      BY <1>8, <2>1
      DEF DeleteData, Delete, ObjectInv, ObjectTypes, RegularFrame, OfThisFrame,
          Labels, WithApp1, WithData, WithExif, Writing
  <1>9. CASE DeleteApp1
    <2>1. /\ heap' \in [Blocks -> Block]
          /\ objectPc' \in {"construct", "crashed"} /\ faulted' \in BOOLEAN
          /\ Own("raw_app1") => objectPc' = "construct" /\ faulted' = faulted
      BY <1>9, <1>t, DeleteEffect DEF DeleteApp1, Pointers, Labels
    <2> QED
      BY <1>9, <2>1
      DEF DeleteApp1, Delete, ObjectInv, ObjectTypes, RegularFrame, OfThisFrame,
          Labels, WithApp1, WithData, WithExif, Writing
  <1>10. CASE UNCHANGED objectVars
    BY <1>10
    DEF objectVars, ObjectInv, ObjectTypes, RegularFrame, OfThisFrame, Own, Live
  <1> QED
    BY <1>1, <1>2, <1>3, <1>4, <1>5, <1>6, <1>7, <1>8, <1>9, <1>10
    DEF ObjectNext

LEMMA ObjectInvariant == ObjectSpec => []ObjectInv
  BY ObjectInitInv, ObjectNextInv, PTL DEF ObjectSpec

\* Whatever pointers the objects find in their stack slot, and whichever freed
\* blocks new hands out again, a clip of files that all have APP1 data and no
\* note of under eight words is converted without a use, a read past or a
\* delete of memory that is not the object's own (jp4.cpp has no member
\* initialisers and its destructor clears nothing).
THEOREM OwnMemory == ObjectSpec => []OwnMemoryOnly
  <1>1. ObjectInv => OwnMemoryOnly
    BY DEF ObjectInv, RegularFrame, OwnMemoryOnly
  <1> QED BY <1>1, ObjectInvariant, PTL

\* In such a clip the maker note fields the writers use were decoded from the
\* frame they write, as far as its note is long enough to hold them: the
\* members that JP4::readMakerNote leaves from an earlier frame are only those.
THEOREM NoteIsOfThisFrame == ObjectSpec => []NoteOfThisFrame
  <1>1. ObjectInv => NoteOfThisFrame
    <2> SUFFICES ASSUME ObjectInv, regular, objectPc \in Writing,
                        NEW g \in Groups, kind.words >= WordsFor[g]
                 PROVE  note[g] = frame
      BY DEF NoteOfThisFrame
    <2>1. g \in Decoded(kind.words)
      BY DEF Groups, WordsFor, Decoded
    <2> QED BY <2>1 DEF ObjectInv, RegularFrame
  <1> QED BY <1>1, ObjectInvariant, PTL

-----------------------------------------------------------------------------
(* The fields of the maker note. *)

\* A set of naturals that is not empty has a least element.
LEMMA Least ==
  ASSUME NEW T, T \subseteq Nat, T # {}
  PROVE  \E n \in T : \A m \in T : n <= m
<1>1. \E n \in T : \A m \in T : ~(<<m, n>> \in OpToRel(<, Nat))
  BY NatLessThanWellFounded, WFMin
<1>2. PICK n \in T : \A m \in T : ~(<<m, n>> \in OpToRel(<, Nat))
  BY <1>1
<1>3. ASSUME NEW m \in T
      PROVE  n <= m
  <2>1. m \in Nat /\ n \in Nat
    OBVIOUS
  <2>2. CASE m < n
    <3>1. <<m, n>> \in OpToRel(<, Nat)
      BY <2>1, <2>2 DEF OpToRel
    <3> QED
      BY <3>1, <1>2
  <2> QED
    BY <2>1, <2>2
<1> QED
  BY <1>3

\* Induction over Nat, for the numbers that have a property: a set with 0 and
\* with n + 1 whenever it has n has every number. (The induction theorems of
\* the library take the property as an operator, which the provers cannot
\* instantiate; a set they can.)
LEMMA SetInduction ==
  ASSUME NEW S, 0 \in S, \A n \in Nat : n \in S => n + 1 \in S
  PROVE  \A n \in Nat : n \in S
<1>1. SUFFICES ASSUME NEW k \in Nat, k \notin S
               PROVE  FALSE
  OBVIOUS
<1> DEFINE T == Nat \ S
<1>2. PICK n \in T : \A m \in T : n <= m
  <2>1. T \subseteq Nat /\ T # {}
    BY <1>1
  <2> HIDE DEF T
  <2> QED
    BY <2>1, Least
<1>3. n \in Nat /\ n # 0
  OBVIOUS
<1>4. n - 1 \in Nat /\ (n - 1) + 1 = n /\ ~(n <= n - 1)
  BY <1>3
<1>5. n - 1 \in S
  BY <1>2, <1>4
<1> QED
  BY <1>4, <1>5

\* What SumSet takes out of a set first.
Pick(s) == CHOOSE x \in s : TRUE

\* f sums up every subset of S.
Sums(f, S) ==
  f = [s \in SUBSET S |-> IF s = {} THEN 0 ELSE Pick(s) + f[s \ {Pick(s)}]]

\* What is picked from a finite set leaves one with an element less.
LEMMA PickTakes ==
  ASSUME NEW s, IsFiniteSet(s), s # {}
  PROVE  /\ Pick(s) \in s /\ Cardinality(s) \in Nat
         /\ IsFiniteSet(s \ {Pick(s)})
         /\ Cardinality(s \ {Pick(s)}) = Cardinality(s) - 1
<1>1. Pick(s) \in s
  BY DEF Pick
<1> QED
  BY <1>1, FS_RemoveElement, FS_CardinalityType

\* There is such a function for every finite set, so that the CHOOSE in the
\* community modules' SumSet is one.
LEMMA SumsExist ==
  ASSUME NEW S, IsFiniteSet(S)
  PROVE  \E f : Sums(f, S)
<1> DEFINE Small(n) == {s \in SUBSET S : Cardinality(s) <= n}
           V(f, s) == IF s = {} THEN 0 ELSE Pick(s) + f[s \ {Pick(s)}]
           Upto(f, n) == \A s \in Small(n) : f[s] = V(f, s)
           T == {n \in Nat : \E f : Upto(f, n)}
<1>1. ASSUME NEW s \in SUBSET S
      PROVE  IsFiniteSet(s) /\ Cardinality(s) \in Nat
  BY FS_Subset, FS_CardinalityType
<1>2. 0 \in T
  <2> DEFINE f == [s \in SUBSET S |-> 0]
  <2>1. ASSUME NEW s \in Small(0)
        PROVE  s = {}
    <3>1. s \in SUBSET S /\ Cardinality(s) <= 0
      OBVIOUS
    <3>2. IsFiniteSet(s) /\ Cardinality(s) = 0
      BY <1>1, <3>1
    <3> QED
      BY <3>2, FS_EmptySet
  <2>2. ASSUME NEW s \in Small(0)
        PROVE  f[s] = V(f, s)
    <3>1. s = {} /\ s \in SUBSET S
      BY <2>1
    <3>2. f[s] = 0
      BY <3>1
    <3> HIDE DEF f
    <3> QED
      BY <3>1, <3>2
  <2>3. \E g : Upto(g, 0)
    BY <2>2
  <2> HIDE DEF Upto
  <2> QED
    BY <2>3
<1>3. ASSUME NEW n \in Nat, n \in T
      PROVE  n + 1 \in T
  <2>1. PICK f : Upto(f, n)
    <3> HIDE DEF Upto
    <3> QED
      BY <1>3
  <2> DEFINE g == [s \in SUBSET S |-> IF Cardinality(s) <= n THEN f[s] ELSE V(f, s)]
             m == n + 1
  <2>2. m \in Nat
    OBVIOUS
  <2>3. ASSUME NEW s \in Small(m)
        PROVE  g[s] = V(g, s)
    <3>1. s \in SUBSET S /\ Cardinality(s) <= n + 1
      OBVIOUS
    <3>2. g[s] = V(f, s)
      <4>1. CASE Cardinality(s) <= n
        <5>1. g[s] = f[s]
          BY <3>1, <4>1
        <5>2. s \in Small(n)
          BY <3>1, <4>1
        <5> HIDE DEF g, V, Small
        <5> QED
          BY <2>1, <5>1, <5>2
      <4>2. CASE ~(Cardinality(s) <= n)
        BY <3>1, <4>2
      <4> QED
        BY <4>1, <4>2
    <3> DEFINE x == Pick(s)
               t == s \ {x}
    <3>3. CASE s # {}
      <4>1. IsFiniteSet(s) /\ Cardinality(s) \in Nat
        BY <1>1, <3>1
      <4>2. Cardinality(t) = Cardinality(s) - 1
        BY <3>3, <4>1, PickTakes
      <4>3. t \in SUBSET S
        BY <3>1
      <4> HIDE DEF t
      <4>4. Cardinality(t) <= n
        BY <3>1, <4>1, <4>2
      <4>5. g[t] = f[t]
        BY <4>3, <4>4
      <4> HIDE DEF g
      <4>6. V(f, s) = x + f[t] /\ V(g, s) = x + g[t]
        BY <3>3 DEF t
      <4> HIDE DEF V, x
      <4> QED
        BY <3>2, <4>5, <4>6
    <3>4. CASE s = {}
      <4>1. V(f, s) = 0 /\ V(g, s) = 0
        BY <3>4
      <4> HIDE DEF g, V
      <4> QED
        BY <3>2, <4>1
    <3> QED
      BY <3>3, <3>4
  <2> HIDE DEF g
  <2>4. Upto(g, m)
    BY <2>3
  <2> HIDE DEF Upto, m
  <2>5. m \in T
    BY <2>2, <2>4
  <2> QED
    BY <2>5 DEF m
<1> DEFINE c == Cardinality(S)
<1>4. c \in Nat
  BY FS_CardinalityType
<1>5. c \in T
  <2> HIDE DEF T, c
  <2> QED
    BY <1>2, <1>3, <1>4, SetInduction
<1>6. PICK f : Upto(f, c)
  <2> HIDE DEF Upto, c
  <2> QED
    BY <1>5
<1>7. \A s \in SUBSET S : s \in Small(c)
  <2>1. ASSUME NEW s \in SUBSET S
        PROVE  Cardinality(s) <= c
    BY FS_Subset
  <2> HIDE DEF c
  <2> QED
    BY <2>1
<1> DEFINE g == [s \in SUBSET S |-> f[s]]
<1>8. \A s \in SUBSET S : g[s] = f[s]
  OBVIOUS
<1>9. g = [s \in SUBSET S |-> g[s]]
  OBVIOUS
<1> HIDE DEF g, Small
<1>10. ASSUME NEW s \in SUBSET S
       PROVE  g[s] = V(g, s)
  <2>1. f[s] = V(f, s)
    <3> HIDE DEF V
    <3> QED
      BY <1>6, <1>7
  <2> DEFINE t == s \ {Pick(s)}
  <2>2. t \in SUBSET S
    OBVIOUS
  <2>3. g[t] = f[t] /\ g[s] = f[s]
    BY <1>8, <2>2
  <2> HIDE DEF t
  <2> QED
    BY <2>1, <2>3 DEF t
<1>11. [s \in SUBSET S |-> g[s]] = [s \in SUBSET S |-> V(g, s)]
  <2> HIDE DEF V
  <2> QED
    BY <1>10
<1>12. Sums(g, S)
  BY <1>9, <1>11 DEF Sums
<1> QED
  BY <1>12

\* What it says of one of the subsets.
LEMMA SumsAt ==
  ASSUME NEW S, NEW f, Sums(f, S), NEW s \in SUBSET S
  PROVE  f[s] = IF s = {} THEN 0 ELSE Pick(s) + f[s \ {Pick(s)}]
BY DEF Sums

\* The sum of a set does not depend on the set of which it is taken as a subset.
LEMMA SumsAgree ==
  ASSUME NEW S, NEW R, IsFiniteSet(S), IsFiniteSet(R), NEW f, NEW g,
         Sums(f, S), Sums(g, R), S \subseteq R
  PROVE  f[S] = g[S]
<1> DEFINE T == {n \in Nat : \A s \in SUBSET S : Cardinality(s) = n => f[s] = g[s]}
<1>1. ASSUME NEW s \in SUBSET S
      PROVE  IsFiniteSet(s) /\ Cardinality(s) \in Nat /\ s \in SUBSET R
  BY FS_Subset, FS_CardinalityType
<1>2. 0 \in T
  <2>1. ASSUME NEW s \in SUBSET S, Cardinality(s) = 0
        PROVE  f[s] = g[s]
    <3>1. s = {} /\ s \in SUBSET R
      BY <1>1, <2>1, FS_EmptySet
    <3> QED
      BY <3>1, SumsAt
  <2> QED
    BY <2>1
<1>3. ASSUME NEW n \in Nat, n \in T
      PROVE  n + 1 \in T
  <2>1. ASSUME NEW s \in SUBSET S, Cardinality(s) = n + 1
        PROVE  f[s] = g[s]
    <3>1. IsFiniteSet(s) /\ s \in SUBSET R
      BY <1>1
    <3>2. s # {}
      BY <2>1, FS_EmptySet
    <3> DEFINE x == Pick(s)
               t == s \ {x}
    <3>3. Cardinality(t) = n
      <4>1. Cardinality(t) = Cardinality(s) - 1
        BY <3>1, <3>2, PickTakes
      <4> HIDE DEF t
      <4> QED
        BY <2>1, <4>1
    <3>4. t \in SUBSET S
      OBVIOUS
    <3>5. f[s] = x + f[t] /\ g[s] = x + g[t]
      BY <3>1, <3>2, SumsAt
    <3>6. f[t] = g[t]
      <4> HIDE DEF t
      <4> QED
        BY <1>3, <3>3, <3>4
    <3> HIDE DEF t, x
    <3> QED
      BY <3>5, <3>6
  <2> QED
    BY <2>1
<1>4. Cardinality(S) \in T
  <2>1. Cardinality(S) \in Nat
    BY FS_CardinalityType
  <2> HIDE DEF T
  <2> QED
    BY <1>2, <1>3, <2>1, SetInduction
<1> QED
  BY <1>4

\* f takes the sum of s, an integer, for that of s without any of its elements
\* and this element: in whatever order the elements are picked.
AddsUp(f, s) ==
  f[s] \in Int /\ \A x \in s : f[s \ {x}] \in Int /\ f[s] = f[s \ {x}] + x

LEMMA SumsAddUp ==
  ASSUME NEW S, IsFiniteSet(S), S \subseteq Int, NEW f, Sums(f, S)
  PROVE  \A s \in SUBSET S : AddsUp(f, s)
<1>0. ASSUME NEW s \in SUBSET S
      PROVE  f[s] = IF s = {} THEN 0 ELSE Pick(s) + f[s \ {Pick(s)}]
  BY DEF Sums
<1> DEFINE T == {n \in Nat : \A s \in SUBSET S : Cardinality(s) = n => AddsUp(f, s)}
<1>1. ASSUME NEW s \in SUBSET S
      PROVE  IsFiniteSet(s) /\ Cardinality(s) \in Nat
  BY FS_Subset, FS_CardinalityType
<1>2. 0 \in T
  <2>1. ASSUME NEW s \in SUBSET S, Cardinality(s) = 0
        PROVE  AddsUp(f, s)
    <3>1. s = {}
      BY <1>1, <2>1, FS_EmptySet
    <3>2. f[s] = 0
      BY <3>1, SumsAt
    <3> QED
      BY <3>1, <3>2 DEF AddsUp
  <2> QED
    BY <2>1
<1>3. ASSUME NEW n \in Nat, n \in T
      PROVE  n + 1 \in T
  <2>1. ASSUME NEW s \in SUBSET S, Cardinality(s) = n + 1
        PROVE  AddsUp(f, s)
    <3>1. IsFiniteSet(s)
      BY <1>1
    <3>2. s # {}
      BY <2>1, FS_EmptySet
    <3>3. ASSUME NEW x \in s
          PROVE  /\ s \ {x} \in SUBSET S /\ Cardinality(s \ {x}) = n
                 /\ AddsUp(f, s \ {x})
      <4> DEFINE t == s \ {x}
      <4>1. Cardinality(t) = n
        <5>1. Cardinality(t) = Cardinality(s) - 1
          BY <3>1, FS_RemoveElement
        <5> HIDE DEF t
        <5> QED
          BY <2>1, <5>1
      <4>2. t \in SUBSET S
        OBVIOUS
      <4> HIDE DEF t
      <4>3. AddsUp(f, t)
        BY <1>3, <4>1, <4>2
      <4> QED
        BY <4>1, <4>2, <4>3 DEF t
    <3> DEFINE c == Pick(s)
               t == s \ {c}
    <3>4. c \in s
      BY <3>1, <3>2, PickTakes
    <3>5. f[s] = c + f[t]
      <4> HIDE DEF T, c, t
      <4> QED
        BY <1>0, <3>2 DEF c, t
    <3>6. f[t] \in Int /\ AddsUp(f, t)
      BY <3>3, <3>4 DEF AddsUp
    <3> HIDE DEF c
    <3>7. ASSUME NEW x \in s, x # c
          PROVE  f[s \ {x}] \in Int /\ f[s] = f[s \ {x}] + x
      <4> DEFINE u == s \ {x}
                 v == t \ {x}
                 w == u \ {c}
      <4>1. x \in t /\ c \in u /\ v = w
        BY <3>4, <3>7
      <4>2. AddsUp(f, u)
        BY <3>3
      <4> HIDE DEF u, v, w, t
      <4>3. f[t] = f[v] + x /\ f[v] \in Int
        BY <3>6, <4>1 DEF AddsUp, v
      <4>4. f[u] = f[w] + c /\ f[u] \in Int
        BY <4>1, <4>2 DEF AddsUp, w
      <4>5. x \in Int /\ c \in Int
        BY <3>4
      <4>6. f[s] = f[u] + x
        BY <3>5, <4>1, <4>3, <4>4, <4>5
      <4> QED
        BY <4>4, <4>6 DEF u
    <3>8. f[s] \in Int /\ f[s] = f[t] + c
      <4>1. c \in Int
        BY <3>4
      <4> HIDE DEF t
      <4> QED
        BY <3>5, <3>6, <4>1
    <3>9. ASSUME NEW x \in s
          PROVE  f[s \ {x}] \in Int /\ f[s] = f[s \ {x}] + x
      <4>1. CASE x = c
        BY <3>6, <3>8, <4>1
      <4>2. CASE x # c
        BY <3>7, <4>2
      <4> QED
        BY <4>1, <4>2
    <3> QED
      BY <3>8, <3>9 DEF AddsUp
  <2> QED
    BY <2>1
<1> HIDE DEF T
<1>4. \A n \in Nat : n \in T
  BY <1>2, <1>3, SetInduction
<1> QED
  BY <1>1, <1>4 DEF T

\* SumSet is the value of such a function.
LEMMA SumSetIs ==
  ASSUME NEW S, IsFiniteSet(S)
  PROVE  \E f : Sums(f, S) /\ SumSet(S) = f[S]
<1> DEFINE f == CHOOSE f : f = [s \in SUBSET S |->
                     IF s = {} THEN 0
                     ELSE (CHOOSE x \in s : TRUE) + f[s \ {CHOOSE x \in s : TRUE}]]
<1>1. SumSet(S) = f[S]
  BY DEF SumSet, FoldSet, MapThenFoldSet
<1>2. Sums(f, S)
  BY SumsExist DEF Sums, Pick
<1> HIDE DEF f
<1> QED
  BY <1>1, <1>2

\* The sum of finitely many integers is one.
LEMMA SumSetIsInt ==
  ASSUME NEW S, IsFiniteSet(S), S \subseteq Int
  PROVE  SumSet(S) \in Int
<1>1. PICK f : Sums(f, S) /\ SumSet(S) = f[S]
  BY SumSetIs
<1>2. AddsUp(f, S)
  BY <1>1, SumsAddUp
<1> QED
  BY <1>1, <1>2 DEF AddsUp

\* A new element adds itself to the sum.
LEMMA SumSetAdds ==
  ASSUME NEW S, IsFiniteSet(S), S \subseteq Int, NEW x \in Int, x \notin S
  PROVE  /\ SumSet(S) \in Int /\ SumSet(S \cup {x}) \in Int
         /\ SumSet(S \cup {x}) = SumSet(S) + x
<1> DEFINE R == S \cup {x}
<1>1. IsFiniteSet(R) /\ R \subseteq Int
  BY FS_AddElement
<1>2. x \in R /\ R \ {x} = S /\ S \subseteq R /\ R \in SUBSET R
  OBVIOUS
<1> HIDE DEF R
<1>3. PICK f : Sums(f, S) /\ SumSet(S) = f[S]
  BY SumSetIs
<1>4. PICK g : Sums(g, R) /\ SumSet(R) = g[R]
  BY <1>1, SumSetIs
<1>5. f[S] = g[S]
  BY <1>1, <1>2, <1>3, <1>4, SumsAgree
<1>6. AddsUp(g, R)
  BY <1>1, <1>2, <1>4, SumsAddUp
<1>7. g[R] \in Int /\ g[S] \in Int /\ g[R] = g[S] + x
  BY <1>2, <1>6 DEF AddsUp
<1> QED
  BY <1>3, <1>4, <1>5, <1>7 DEF R

-----------------------------------------------------------------------------
(* The words of the maker note. *)

\* What the bit n of a field counts.
Power(n) == 2^n

\* The powers of two that a word of 32 bits is made of, as numbers.
LEMMA PowersOfTwo ==
  /\ Power(0) = 1 /\ Power(1) = 2
  /\ Power(2) = 4 /\ Power(3) = 8
  /\ Power(4) = 16 /\ Power(5) = 32
  /\ Power(6) = 64 /\ Power(7) = 128
  /\ Power(8) = 256 /\ Power(9) = 512
  /\ Power(10) = 1024 /\ Power(11) = 2048
  /\ Power(12) = 4096 /\ Power(13) = 8192
  /\ Power(14) = 16384 /\ Power(15) = 32768
  /\ Power(16) = 65536 /\ Power(17) = 131072
  /\ Power(18) = 262144 /\ Power(19) = 524288
  /\ Power(20) = 1048576 /\ Power(21) = 2097152
  /\ Power(22) = 4194304 /\ Power(23) = 8388608
  /\ Power(24) = 16777216 /\ Power(25) = 33554432
  /\ Power(26) = 67108864 /\ Power(27) = 134217728
  /\ Power(28) = 268435456 /\ Power(29) = 536870912
  /\ Power(30) = 1073741824 /\ Power(31) = 2147483648
BY SMT DEF Power

\* Each of these powers is less than the next.
LEMMA PowersGrow ==
  ASSUME NEW n \in 0..30
  PROVE  Power(n) \in Nat /\ 0 < Power(n) /\ Power(n) < Power(n + 1)
<1>1. CASE n \in 0..4
  <2>1. n = 0 \/ n = 1 \/ n = 2 \/ n = 3 \/ n = 4
    BY <1>1
  <2> QED
    BY <2>1, PowersOfTwo, SMT
<1>2. CASE n \in 5..9
  <2>1. n = 5 \/ n = 6 \/ n = 7 \/ n = 8 \/ n = 9
    BY <1>2
  <2> QED
    BY <2>1, PowersOfTwo, SMT
<1>3. CASE n \in 10..14
  <2>1. n = 10 \/ n = 11 \/ n = 12 \/ n = 13 \/ n = 14
    BY <1>3
  <2> QED
    BY <2>1, PowersOfTwo, SMT
<1>4. CASE n \in 15..19
  <2>1. n = 15 \/ n = 16 \/ n = 17 \/ n = 18 \/ n = 19
    BY <1>4
  <2> QED
    BY <2>1, PowersOfTwo, SMT
<1>5. CASE n \in 20..24
  <2>1. n = 20 \/ n = 21 \/ n = 22 \/ n = 23 \/ n = 24
    BY <1>5
  <2> QED
    BY <2>1, PowersOfTwo, SMT
<1>6. CASE n \in 25..30
  <2>1. n = 25 \/ n = 26 \/ n = 27 \/ n = 28 \/ n = 29 \/ n = 30
    BY <1>6
  <2> QED
    BY <2>1, PowersOfTwo, SMT
<1> QED
  BY <1>1, <1>2, <1>3, <1>4, <1>5, <1>6

\* They are positive, and no two of them are equal.
LEMMA PowersDiffer ==
  /\ \A n \in 0..31 : Power(n) \in Nat /\ 0 < Power(n)
  /\ \A m, n \in 0..31 : Power(m) = Power(n) => m = n
<1> DEFINE T == {k \in Nat : \A n \in 0..30 : n + k + 1 <= 31 =>
                                Power(n) < Power(n + k + 1)}
<1>1. ASSUME NEW n \in 0..31
      PROVE  Power(n) \in Nat /\ 0 < Power(n)
  <2>1. CASE n = 31
    BY <2>1, PowersOfTwo, SMT
  <2>2. CASE n # 31
    <3>1. n \in 0..30
      BY <2>2
    <3> QED
      BY <3>1, PowersGrow
  <2> QED
    BY <2>1, <2>2
<1>2. 0 \in T
  <2>1. ASSUME NEW n \in 0..30
        PROVE  Power(n) < Power(n + 0 + 1)
    <3>1. n + 0 + 1 = n + 1
      OBVIOUS
    <3> QED
      BY <3>1, PowersGrow
  <2> QED
    BY <2>1
<1>3. ASSUME NEW k \in Nat, k \in T
      PROVE  k + 1 \in T
  <2>1. ASSUME NEW n \in 0..30, n + (k + 1) + 1 <= 31
        PROVE  Power(n) < Power(n + (k + 1) + 1)
    <3> DEFINE m == n + k + 1
    <3>1. m \in 0..30 /\ n + (k + 1) + 1 = m + 1 /\ m <= 31
      BY <2>1
    <3>2. Power(n) < Power(m)
      BY <1>3, <3>1
    <3> HIDE DEF m, T
    <3>3. Power(m) < Power(m + 1) /\ Power(m) \in Nat
      BY <3>1, PowersGrow
    <3>4. m + 1 \in 0..31 /\ n \in 0..31
      BY <3>1
    <3>5. Power(m + 1) \in Nat /\ Power(n) \in Nat
      BY <1>1, <3>4
    <3>6. Power(n) < Power(m + 1)
      BY <3>2, <3>3, <3>5
    <3> QED
      BY <3>1, <3>6
  <2> QED
    BY <2>1
<1>4. \A k \in Nat : k \in T
  <2> HIDE DEF T
  <2> QED
    BY <1>2, <1>3, SetInduction
<1>5. ASSUME NEW m \in 0..31, NEW n \in 0..31, m < n
      PROVE  Power(m) < Power(n)
  <2> DEFINE k == n - m - 1
  <2>1. k \in Nat /\ m + k + 1 = n /\ m \in 0..30 /\ n <= 31
    BY <1>5
  <2> HIDE DEF k
  <2>2. k \in T
    <3> HIDE DEF T
    <3> QED
      BY <1>4, <2>1
  <2> QED
    BY <2>1, <2>2
<1>6. ASSUME NEW m \in 0..31, NEW n \in 0..31, Power(m) = Power(n)
      PROVE  m = n
  <2>1. CASE m < n
    BY <1>1, <1>5, <1>6, <2>1
  <2>2. CASE n < m
    BY <1>1, <1>5, <1>6, <2>2
  <2> QED
    BY <2>1, <2>2
<1> QED
  BY <1>1, <1>6

\* The words of a note whose bits D are 1.
SetIn(D, i, b) == <<4 * i + 3 - (b \div 8), b % 8>> \in D
Ones(D, i, lo, hi) == {b \in lo..hi : SetIn(D, i, b)}
Weights(D, i, lo, hi) == {Power(b - lo) : b \in Ones(D, i, lo, hi)}
FieldIn(D, i, lo, hi) == SumSet(Weights(D, i, lo, hi))

\* The user changes d, one bit.
Flips(D, E, d) ==
  /\ d \in Nat \X (0..7)
  /\ E = IF d \in D THEN D \ {d} ELSE D \cup {d}

\* The word of a bit of the note, and its place in it.
WordOf(d) == d[1] \div 4
BitOf(d) == d[2] + 8 * (3 - (d[1] % 4))

\* The bit d is one of those from lo to hi of the word i.
Hits(d, i, lo, hi) == i = WordOf(d) /\ BitOf(d) \in lo..hi

\* Every bit of the bytes is one bit of one word, and no other.
LEMMA PlaceOf ==
  ASSUME NEW d \in Nat \X (0..7)
  PROVE  /\ WordOf(d) \in Nat /\ BitOf(d) \in 0..31
         /\ \A i \in Nat, b \in 0..31 :
              d = <<4 * i + 3 - (b \div 8), b % 8>>
                <=> i = WordOf(d) /\ b = BitOf(d)
<1> DEFINE k == d[1]
           m == d[2]
           w == k \div 4
           r == k % 4
<1>1. k \in Nat /\ m \in 0..7 /\ d = <<k, m>>
  OBVIOUS
<1> HIDE DEF k, m
<1>2. w \in Nat /\ r \in 0..3 /\ k = 4 * w + r
  BY <1>1
<1> HIDE DEF w, r
<1>3. m + 8 * (3 - r) \in 0..31
  BY <1>1, <1>2
<1>4. ASSUME NEW i \in Nat, NEW b \in 0..31
      PROVE  d = <<4 * i + 3 - (b \div 8), b % 8>>
               <=> i = w /\ b = m + 8 * (3 - r)
  <2> DEFINE q == b \div 8
             s == b % 8
  <2>1. q \in 0..3 /\ s \in 0..7 /\ b = 8 * q + s
    BY <1>4
  <2> HIDE DEF q, s
  <2>2. d = <<4 * i + 3 - q, s>> <=> k = 4 * i + 3 - q /\ m = s
    BY <1>1
  <2>3. k = 4 * i + 3 - q <=> i = w /\ q = 3 - r
    BY <1>2, <1>4, <2>1
  <2>4. i = w /\ q = 3 - r /\ m = s <=> i = w /\ b = m + 8 * (3 - r)
    BY <1>1, <1>2, <2>1
  <2> QED
    BY <2>2, <2>3, <2>4 DEF q, s
<1>5. WordOf(d) = w /\ BitOf(d) = m + 8 * (3 - r)
  BY DEF WordOf, BitOf, k, m, w, r
<1> QED
  BY <1>2, <1>3, <1>4, <1>5

\* Where the user changes a bit, this bit of its word differs and no other bit.
LEMMA SetFlips ==
  ASSUME NEW D, NEW E, NEW d, Flips(D, E, d), NEW i \in Nat, NEW b \in 0..31
  PROVE  IF i = WordOf(d) /\ b = BitOf(d) THEN SetIn(E, i, b) <=> ~SetIn(D, i, b)
                                          ELSE SetIn(E, i, b) <=> SetIn(D, i, b)
<1> DEFINE e == <<4 * i + 3 - (b \div 8), b % 8>>
<1>1. d = e <=> i = WordOf(d) /\ b = BitOf(d)
  BY PlaceOf DEF Flips
<1> HIDE DEF e
<1>2. IF d = e THEN e \in E <=> e \notin D ELSE e \in E <=> e \in D
  BY DEF Flips
<1> QED
  BY <1>1, <1>2 DEF SetIn, e

\* A field is the sum of finitely many integers.
LEMMA FieldSums ==
  ASSUME NEW D, NEW i \in Nat, NEW lo \in 0..31, NEW hi \in 0..31
  PROVE  IsFiniteSet(Weights(D, i, lo, hi)) /\ Weights(D, i, lo, hi) \subseteq Int
<1> DEFINE O == Ones(D, i, lo, hi)
           S == Weights(D, i, lo, hi)
<1>1. O \subseteq lo..hi /\ IsFiniteSet(O)
  <2>1. O \subseteq lo..hi
    BY DEF Ones
  <2>2. IsFiniteSet(lo..hi)
    BY FS_Interval
  <2> HIDE DEF O
  <2> QED
    BY <2>1, <2>2, FS_Subset
<1>2. S = {Power(b - lo) : b \in O}
  BY DEF Weights
<1> HIDE DEF O, S
<1>3. IsFiniteSet(S)
  <2> DEFINE f == [b \in O |-> Power(b - lo)]
  <2>1. f \in Surjection(O, S)
    BY <1>2 DEF Surjection
  <2> HIDE DEF f
  <2> QED
    BY <1>1, <2>1, FS_Surjection
<1>4. ASSUME NEW b \in O
      PROVE  Power(b - lo) \in Int
  <2>1. b \in lo..hi /\ b - lo \in 0..31
    BY <1>1
  <2> QED
    BY <2>1, PowersDiffer
<1> QED
  BY <1>2, <1>3, <1>4 DEF S

\* So it is an integer.
LEMMA FieldIsInt ==
  ASSUME NEW D, NEW i \in Nat, NEW lo \in 0..31, NEW hi \in 0..31
  PROVE  FieldIn(D, i, lo, hi) \in Int
<1> DEFINE S == Weights(D, i, lo, hi)
<1>1. IsFiniteSet(S) /\ S \subseteq Int
  BY FieldSums
<1> HIDE DEF S
<1>2. SumSet(S) \in Int
  BY <1>1, SumSetIsInt
<1> QED
  BY <1>2 DEF FieldIn, S

\* One more bit in a field makes another number.
LEMMA FieldGrows ==
  ASSUME NEW D, NEW E, NEW i \in Nat, NEW lo \in 0..31, NEW hi \in 0..31,
         NEW b \in lo..hi, b \notin Ones(D, i, lo, hi),
         Ones(E, i, lo, hi) = Ones(D, i, lo, hi) \cup {b}
  PROVE  /\ FieldIn(D, i, lo, hi) \in Int /\ FieldIn(E, i, lo, hi) \in Int
         /\ FieldIn(D, i, lo, hi) # FieldIn(E, i, lo, hi)
<1> DEFINE O == Ones(D, i, lo, hi)
           S == Weights(D, i, lo, hi)
           x == Power(b - lo)
<1>1. O \subseteq lo..hi
  BY DEF Ones
<1>2. ASSUME NEW c \in lo..hi
      PROVE  c - lo \in 0..31
  OBVIOUS
<1>3. IsFiniteSet(S) /\ S \subseteq Int
  BY FieldSums
<1>4. x \in Int /\ x > 0
  <2>1. b - lo \in 0..31
    BY <1>2
  <2> QED
    BY <2>1, PowersDiffer
<1> HIDE DEF O
<1>5. x \notin S
  <2>1. ASSUME NEW c \in O, x = Power(c - lo)
        PROVE  FALSE
    <3>1. c \in lo..hi /\ c # b
      BY <1>1 DEF O
    <3>2. c - lo \in 0..31 /\ b - lo \in 0..31
      BY <1>2, <3>1
    <3>3. c - lo = b - lo
      BY <2>1, <3>2, PowersDiffer
    <3> QED
      BY <3>1, <3>3
  <2> QED
    BY <2>1 DEF Weights, O
<1>6. Weights(E, i, lo, hi) = S \cup {x}
  <2>1. Ones(E, i, lo, hi) = O \cup {b}
    BY DEF O
  <2> QED
    BY <2>1 DEF Weights, O
<1> HIDE DEF S, x
<1>7. /\ SumSet(S) \in Int /\ SumSet(S \cup {x}) \in Int
      /\ SumSet(S \cup {x}) = SumSet(S) + x
  BY <1>3, <1>4, <1>5, SumSetAdds
<1>8. FieldIn(D, i, lo, hi) = SumSet(S) /\ FieldIn(E, i, lo, hi) = SumSet(S \cup {x})
  BY <1>6 DEF FieldIn, S, O
<1>9. SumSet(S) # SumSet(S \cup {x})
  BY <1>4, <1>7
<1> QED
  BY <1>7, <1>8, <1>9

\* A field changes exactly when the bit that changes is one of its own.
LEMMA FieldFlips ==
  ASSUME NEW D, NEW E, NEW d, Flips(D, E, d), NEW i \in Nat,
         NEW lo \in 0..31, NEW hi \in 0..31
  PROVE  FieldIn(D, i, lo, hi) # FieldIn(E, i, lo, hi)
           <=> Hits(d, i, lo, hi)
<1> DEFINE b == BitOf(d)
           O == Ones(D, i, lo, hi)
           P == Ones(E, i, lo, hi)
<1>1. b \in 0..31
  BY PlaceOf DEF Flips
<1>2. ASSUME NEW c \in lo..hi
      PROVE  IF i = WordOf(d) /\ c = b THEN c \in P <=> c \notin O
                                       ELSE c \in P <=> c \in O
  <2>1. c \in 0..31
    OBVIOUS
  <2>2. (c \in P <=> SetIn(E, i, c)) /\ (c \in O <=> SetIn(D, i, c))
    BY DEF Ones
  <2> QED
    BY <2>1, <2>2, SetFlips
<1>3. O \subseteq lo..hi /\ P \subseteq lo..hi
  BY DEF Ones
<1>4. CASE i = WordOf(d) /\ b \in lo..hi
  <2> HIDE DEF b, O, P
  <2>1. CASE b \in O
    <3>1. b \notin P /\ O = P \cup {b}
      BY <1>2, <1>3, <1>4, <2>1
    <3> QED
      BY <1>4, <3>1, FieldGrows DEF O, P, b, Hits
  <2>2. CASE b \notin O
    <3>1. P = O \cup {b}
      BY <1>2, <1>3, <1>4, <2>2
    <3> QED
      BY <1>4, <2>2, <3>1, FieldGrows DEF O, P, b, Hits
  <2> QED
    BY <2>1, <2>2
<1>5. CASE ~(i = WordOf(d) /\ b \in lo..hi)
  <2> HIDE DEF b, O, P
  <2>1. O = P
    BY <1>2, <1>3, <1>5
  <2>2. FieldIn(D, i, lo, hi) = FieldIn(E, i, lo, hi)
    BY <2>1 DEF FieldIn, Weights, O, P
  <2> QED
    BY <1>5, <2>2 DEF b, Hits
<1> QED
  BY <1>4, <1>5

\* What Value takes out of the note before and after a step.
LEMMA ValueIs ==
  ASSUME NEW i \in Nat, NEW lo \in 0..31, NEW hi \in lo..31
  PROVE  /\ Value(i, lo..hi) = FieldIn(data, i, lo, hi)
         /\ Value(i, lo..hi)' = FieldIn(data', i, lo, hi)
<1> DEFINE bits == lo..hi
<1>1. Min(bits) = lo
  BY DEF Min
<1>2. \A b : IsSet(i, b) <=> SetIn(data, i, b)
  BY DEF IsSet, SetIn
<1>3. \A b : IsSet(i, b)' <=> SetIn(data', i, b)
  BY DEF IsSet, SetIn
<1>4. {b \in bits : IsSet(i, b)} = Ones(data, i, lo, hi)
  BY <1>2 DEF Ones
<1>5. {b \in bits : IsSet(i, b)}' = Ones(data', i, lo, hi)
  BY <1>3 DEF Ones
<1>6. Value(i, bits) = FieldIn(data, i, lo, hi)
  <2> HIDE DEF bits
  <2> QED
    BY <1>1, <1>4 DEF Value, FieldIn, Weights, Power
<1>7. Value(i, bits)' = FieldIn(data', i, lo, hi)
  <2>1. Min(bits)' = lo
    BY <1>1
  <2> HIDE DEF bits
  <2> QED
    BY <1>1, <2>1, <1>5 DEF Value, FieldIn, Weights, Power
<1> QED
  BY <1>6, <1>7

\* So Value changes exactly when the bit is one of those that it takes.
LEMMA ValueChanges ==
  ASSUME NEW d, Flips(data, data', d), NEW i \in Nat,
         NEW lo \in 0..31, NEW hi \in 0..31, lo <= hi
  PROVE  Value(i, lo..hi) # Value(i, lo..hi)'
           <=> Hits(d, i, lo, hi)
<1>1. hi \in lo..31
  OBVIOUS
<1>2. /\ Value(i, lo..hi) = FieldIn(data, i, lo, hi)
      /\ Value(i, lo..hi)' = FieldIn(data', i, lo, hi)
  BY <1>1, ValueIs
<1>3. FieldIn(data, i, lo, hi) # FieldIn(data', i, lo, hi)
        <=> Hits(d, i, lo, hi)
  BY FieldFlips
<1> QED
  BY <1>2, <1>3

\* The same for a field, a shift with a mask: makerNote[i] >> from.
LEMMA FieldChanges ==
  ASSUME NEW d, Flips(data, data', d), NEW i \in Nat, NEW from \in 0..31,
         NEW hi \in from..31, NEW n, n = hi + 1 - from
  PROVE  Field(i, from, n) # Field(i, from, n)'
           <=> Hits(d, i, from, hi)
<1>1. from + n - 1 = hi /\ hi \in 0..31 /\ from <= hi
  OBVIOUS
<1>2. Value(i, from..hi) # Value(i, from..hi)'
        <=> Hits(d, i, from, hi)
  BY <1>1, ValueChanges
<1>3. Field(i, from, n) = Value(i, from..hi)
  BY <1>1 DEF Field
<1>4. Field(i, from, n)' = Value(i, from..hi)'
  BY <1>1 DEF Field
<1> QED
  BY <1>2, <1>3, <1>4

\* The same for a shift without one, whose highest bit is a sign.
LEMMA ShiftedChanges ==
  ASSUME NEW d, Flips(data, data', d), NEW i \in Nat, NEW from \in 0..30
  PROVE  Shifted(i, from) # Shifted(i, from)'
           <=> Hits(d, i, from, 31)
<1> DEFINE u == FieldIn(data, i, from, 30)
           v == FieldIn(data', i, from, 30)
           x == Power(31 - from)
           b == BitOf(d)
<1>1. /\ Value(i, from..30) = u /\ Value(i, from..30)' = v
  <2>1. 30 \in from..31 /\ from \in 0..31
    OBVIOUS
  <2> QED
    BY <2>1, ValueIs
<1>2. u # v <=> Hits(d, i, from, 30)
  <2>1. 30 \in 0..31 /\ from \in 0..31
    OBVIOUS
  <2> QED
    BY <2>1, FieldFlips
<1>3. b \in 0..31
  BY PlaceOf DEF Flips
<1>4. x \in Nat /\ 0 < x
  <2>1. 31 - from \in 0..31
    OBVIOUS
  <2> QED
    BY <2>1, PowersDiffer
<1>5. u \in Int /\ v \in Int
  BY FieldIsInt
<1>6. IF i = WordOf(d) /\ b = 31
      THEN SetIn(data', i, 31) <=> ~SetIn(data, i, 31)
      ELSE SetIn(data', i, 31) <=> SetIn(data, i, 31)
  <2>1. 31 \in 0..31
    OBVIOUS
  <2> QED
    BY <2>1, SetFlips
<1>7. /\ Shifted(i, from) = u - (IF SetIn(data, i, 31) THEN x ELSE 0)
      /\ Shifted(i, from)' = v - (IF SetIn(data', i, 31) THEN x ELSE 0)
  <2>1. IsSet(i, 31) <=> SetIn(data, i, 31)
    BY DEF IsSet, SetIn
  <2>2. IsSet(i, 31)' <=> SetIn(data', i, 31)
    BY DEF IsSet, SetIn
  <2> HIDE DEF u, v
  <2>3. Shifted(i, from) = u - (IF SetIn(data, i, 31) THEN x ELSE 0)
    BY <1>1, <2>1 DEF Shifted, Power
  <2>4. Shifted(i, from)' = v - (IF SetIn(data', i, 31) THEN x ELSE 0)
    BY <1>1, <2>2 DEF Shifted, Power
  <2> QED
    BY <2>3, <2>4
<1>8. u # v <=> i = WordOf(d) /\ b \in from..30
  BY <1>2 DEF Hits
<1> HIDE DEF u, v, x, b
<1>9. u - (IF SetIn(data, i, 31) THEN x ELSE 0)
        # v - (IF SetIn(data', i, 31) THEN x ELSE 0)
          <=> i = WordOf(d) /\ b \in from..31
  <2>1. CASE i = WordOf(d) /\ b = 31
    <3>1. u = v
      BY <1>8, <2>1
    <3>2. b \in from..31
      BY <2>1
    <3> QED
      BY <1>4, <1>5, <1>6, <2>1, <3>1, <3>2
  <2>2. CASE ~(i = WordOf(d) /\ b = 31)
    <3>1. b \in from..31 /\ i = WordOf(d) <=> b \in from..30 /\ i = WordOf(d)
      BY <1>3, <2>2
    <3>2. SetIn(data', i, 31) <=> SetIn(data, i, 31)
      BY <1>6, <2>2
    <3> QED
      BY <1>8, <1>4, <1>5, <3>1, <3>2
  <2> QED
    BY <2>1, <2>2
<1> QED
  BY <1>7, <1>9 DEF b, Hits

\* The bits of the settings of the channels, and the field each belongs to.
ChannelBit(d) == WordOf(d) \in 0..7
ChannelKey(d) ==
  IF WordOf(d) <= 3 THEN <<"gain", WordOf(d)>>
  ELSE IF BitOf(d) <= 15 THEN <<"gamma_scale", WordOf(d) - 4>>
  ELSE IF BitOf(d) <= 23 THEN <<"gamma", WordOf(d) - 4>>
  ELSE <<"black", WordOf(d) - 4>>

\* The fields of the channels, one by one.
ChannelsHold ==
  /\ \A i \in Channels :
       /\ ChannelFields[<<"gain", i>>] = <<Shifted(i, 16), Field(i, 0, 16)>>
       /\ ChannelFields[<<"gamma_scale", i>>] = <<Field(i + 4, 0, 16)>>
       /\ ChannelFields[<<"gamma", i>>] = <<Field(i + 4, 16, 8)>>
       /\ ChannelFields[<<"black", i>>] = <<Shifted(i + 4, 24)>>
  /\ DOMAIN ChannelFields = {"gain", "gamma_scale", "gamma", "black"} \X Channels

\* They are what readMakerNote takes from words i and i + 4 of the note.
LEMMA ChannelsAre == ChannelsHold
<1> DEFINE Names == {"gain", "gamma_scale", "gamma", "black"}
<1>1. ASSUME NEW f \in Names \X Channels
      PROVE  LET i == f[2] IN
             /\ f[1] = "gain" =>
                  ChannelFields[f] = <<Shifted(i, 16), Field(i, 0, 16)>>
             /\ f[1] = "gamma_scale" =>
                  ChannelFields[f] = <<Field(i + 4, 0, 16)>>
             /\ f[1] = "gamma" => ChannelFields[f] = <<Field(i + 4, 16, 8)>>
             /\ f[1] = "black" => ChannelFields[f] = <<Shifted(i + 4, 24)>>
  BY DEF ChannelFields
<1>2. ASSUME NEW i \in Channels
      PROVE  /\ ChannelFields[<<"gain", i>>] = <<Shifted(i, 16), Field(i, 0, 16)>>
             /\ ChannelFields[<<"gamma_scale", i>>] = <<Field(i + 4, 0, 16)>>
             /\ ChannelFields[<<"gamma", i>>] = <<Field(i + 4, 16, 8)>>
             /\ ChannelFields[<<"black", i>>] = <<Shifted(i + 4, 24)>>
  <2>1. ChannelFields[<<"gain", i>>] = <<Shifted(i, 16), Field(i, 0, 16)>>
    <3> DEFINE f == <<"gain", i>>
    <3>1. f \in Names \X Channels /\ f[1] = "gain" /\ f[2] = i
      OBVIOUS
    <3> HIDE DEF f, Names
    <3>2. ChannelFields[f] = <<Shifted(i, 16), Field(i, 0, 16)>>
      BY <1>1, <3>1
    <3> QED
      BY <3>2 DEF f
  <2>2. ChannelFields[<<"gamma_scale", i>>] = <<Field(i + 4, 0, 16)>>
    <3> DEFINE f == <<"gamma_scale", i>>
    <3>1. f \in Names \X Channels /\ f[1] = "gamma_scale" /\ f[2] = i
      OBVIOUS
    <3> HIDE DEF f, Names
    <3>2. ChannelFields[f] = <<Field(i + 4, 0, 16)>>
      BY <1>1, <3>1
    <3> QED
      BY <3>2 DEF f
  <2>3. ChannelFields[<<"gamma", i>>] = <<Field(i + 4, 16, 8)>>
    <3> DEFINE f == <<"gamma", i>>
    <3>1. f \in Names \X Channels /\ f[1] = "gamma" /\ f[2] = i
      OBVIOUS
    <3> HIDE DEF f, Names
    <3>2. ChannelFields[f] = <<Field(i + 4, 16, 8)>>
      BY <1>1, <3>1
    <3> QED
      BY <3>2 DEF f
  <2>4. ChannelFields[<<"black", i>>] = <<Shifted(i + 4, 24)>>
    <3> DEFINE f == <<"black", i>>
    <3>1. f \in Names \X Channels /\ f[1] = "black" /\ f[2] = i
      OBVIOUS
    <3> HIDE DEF f, Names
    <3>2. ChannelFields[f] = <<Shifted(i + 4, 24)>>
      BY <1>1, <3>1
    <3> QED
      BY <3>2 DEF f
  <2> QED
    BY <2>1, <2>2, <2>3, <2>4
<1>3. DOMAIN ChannelFields = Names \X Channels
  BY DEF ChannelFields
<1> QED
  BY <1>2, <1>3 DEF ChannelsHold

\* Of the fields of the channels, a bit changes the one it belongs to.
LEMMA ChannelsChange ==
  ASSUME NEW d, Flips(data, data', d), NEW k \in DOMAIN ChannelFields
  PROVE  ChannelFields[k] # ChannelFields'[k]
           <=> ChannelBit(d) /\ k = ChannelKey(d)
<1> DEFINE w == WordOf(d)
           b == BitOf(d)
<1>1. w \in Nat /\ b \in 0..31
  BY PlaceOf DEF Flips
<1>2. PICK name \in {"gain", "gamma_scale", "gamma", "black"}, i \in Channels :
        k = <<name, i>>
  BY ChannelsAre DEF ChannelsHold
<1>3. ChannelsHold /\ ChannelsHold'
  BY ChannelsAre, PTL
<1>4. i \in Nat /\ i + 4 \in Nat /\ i \in 0..3
  BY DEF Channels
<1>5. /\ Shifted(i, 16) # Shifted(i, 16)' <=> Hits(d, i, 16, 31)
      /\ Field(i, 0, 16) # Field(i, 0, 16)' <=> Hits(d, i, 0, 15)
      /\ Field(i + 4, 0, 16) # Field(i + 4, 0, 16)' <=> Hits(d, i + 4, 0, 15)
      /\ Field(i + 4, 16, 8) # Field(i + 4, 16, 8)' <=> Hits(d, i + 4, 16, 23)
      /\ Shifted(i + 4, 24) # Shifted(i + 4, 24)' <=> Hits(d, i + 4, 24, 31)
  <2>1. Shifted(i, 16) # Shifted(i, 16)' <=> Hits(d, i, 16, 31)
    BY <1>4, ShiftedChanges
  <2>2. Field(i, 0, 16) # Field(i, 0, 16)' <=> Hits(d, i, 0, 15)
    BY <1>4, FieldChanges
  <2>3. Field(i + 4, 0, 16) # Field(i + 4, 0, 16)' <=> Hits(d, i + 4, 0, 15)
    BY <1>4, FieldChanges
  <2>4. Field(i + 4, 16, 8) # Field(i + 4, 16, 8)' <=> Hits(d, i + 4, 16, 23)
    BY <1>4, FieldChanges
  <2>5. Shifted(i + 4, 24) # Shifted(i + 4, 24)' <=> Hits(d, i + 4, 24, 31)
    BY <1>4, ShiftedChanges
  <2> QED
    BY <2>1, <2>2, <2>3, <2>4, <2>5
<1>6. /\ Hits(d, i, 16, 31) \/ Hits(d, i, 0, 15) <=> w = i
      /\ Hits(d, i + 4, 0, 15) <=> w = i + 4 /\ b <= 15
      /\ Hits(d, i + 4, 16, 23) <=> w = i + 4 /\ b > 15 /\ b <= 23
      /\ Hits(d, i + 4, 24, 31) <=> w = i + 4 /\ b > 23
  BY <1>1, <1>4 DEF Hits
<1>7. CASE name = "gain"
  <2>1. ChannelFields[k] = <<Shifted(i, 16), Field(i, 0, 16)>>
    BY <1>2, <1>3, <1>7 DEF ChannelsHold
  <2>2. ChannelFields'[k] = <<Shifted(i, 16)', Field(i, 0, 16)'>>
    BY <1>2, <1>3, <1>7 DEF ChannelsHold
  <2>3. ChannelFields[k] # ChannelFields'[k] <=> w = i
    BY <1>5, <1>6, <2>1, <2>2
  <2>4. ChannelBit(d) /\ k = ChannelKey(d) <=> w = i
    BY <1>1, <1>2, <1>4, <1>7 DEF ChannelBit, ChannelKey
  <2> QED
    BY <2>3, <2>4
<1>8. CASE name = "gamma_scale"
  <2>1. ChannelFields[k] = <<Field(i + 4, 0, 16)>>
    BY <1>2, <1>3, <1>8 DEF ChannelsHold
  <2>2. ChannelFields'[k] = <<Field(i + 4, 0, 16)'>>
    BY <1>2, <1>3, <1>8 DEF ChannelsHold
  <2>3. ChannelFields[k] # ChannelFields'[k] <=> w = i + 4 /\ b <= 15
    BY <1>5, <1>6, <2>1, <2>2
  <2>4. ChannelBit(d) /\ k = ChannelKey(d) <=> w = i + 4 /\ b <= 15
    BY <1>1, <1>2, <1>4, <1>8 DEF ChannelBit, ChannelKey
  <2> QED
    BY <2>3, <2>4
<1>9. CASE name = "gamma"
  <2>1. ChannelFields[k] = <<Field(i + 4, 16, 8)>>
    BY <1>2, <1>3, <1>9 DEF ChannelsHold
  <2>2. ChannelFields'[k] = <<Field(i + 4, 16, 8)'>>
    BY <1>2, <1>3, <1>9 DEF ChannelsHold
  <2>3. ChannelFields[k] # ChannelFields'[k] <=> w = i + 4 /\ b > 15 /\ b <= 23
    BY <1>5, <1>6, <2>1, <2>2
  <2>4. ChannelBit(d) /\ k = ChannelKey(d) <=> w = i + 4 /\ b > 15 /\ b <= 23
    BY <1>1, <1>2, <1>4, <1>9 DEF ChannelBit, ChannelKey
  <2> QED
    BY <2>3, <2>4
<1>10. CASE name = "black"
  <2>1. ChannelFields[k] = <<Shifted(i + 4, 24)>>
    BY <1>2, <1>3, <1>10 DEF ChannelsHold
  <2>2. ChannelFields'[k] = <<Shifted(i + 4, 24)'>>
    BY <1>2, <1>3, <1>10 DEF ChannelsHold
  <2>3. ChannelFields[k] # ChannelFields'[k] <=> w = i + 4 /\ b > 23
    BY <1>5, <1>6, <2>1, <2>2
  <2>4. ChannelBit(d) /\ k = ChannelKey(d) <=> w = i + 4 /\ b > 23
    BY <1>1, <1>2, <1>4, <1>10 DEF ChannelBit, ChannelKey
  <2> QED
    BY <2>3, <2>4
<1> QED
  BY <1>7, <1>8, <1>9, <1>10

\* The bits of the settings of the frame, and the field each belongs to.
FrameBit(d) == WordOf(d) \in 8..9 \/ (WordOf(d) = 10 /\ BitOf(d) <= 23)
FrameKey(d) ==
  IF WordOf(d) = 8 /\ BitOf(d) <= 15 THEN "woi_left"
  ELSE IF WordOf(d) = 8 THEN "woi_width"
  ELSE IF WordOf(d) = 9 /\ BitOf(d) <= 15 THEN "woi_top"
  ELSE IF WordOf(d) = 9 THEN "woi_height"
  ELSE IF BitOf(d) <= 0 THEN "flip_hor"
  ELSE IF BitOf(d) <= 1 THEN "flip_ver"
  ELSE IF BitOf(d) <= 3 THEN "bayer_mode"
  ELSE IF BitOf(d) <= 7 THEN "color_mode"
  ELSE IF BitOf(d) <= 11 THEN "decim_hor"
  ELSE IF BitOf(d) <= 15 THEN "decim_ver"
  ELSE IF BitOf(d) <= 19 THEN "bin_hor"
  ELSE "bin_ver"

\* Of the fields of the frame, a bit changes the one it belongs to.
LEMMA FramesChange ==
  ASSUME NEW d, Flips(data, data', d), NEW k \in DOMAIN FrameFields
  PROVE  FrameFields[k] # FrameFields'[k] <=> FrameBit(d) /\ k = FrameKey(d)
<1> DEFINE w == WordOf(d)
           b == BitOf(d)
<1>1. w \in Nat /\ b \in 0..31
  BY PlaceOf DEF Flips
<1>2. CASE k = "woi_left"
  <2>1. FrameFields[k] = Field(8, 0, 16) /\ FrameFields'[k] = Field(8, 0, 16)'
    BY <1>2 DEF FrameFields
  <2>2. Field(8, 0, 16) # Field(8, 0, 16)' <=> Hits(d, 8, 0, 15)
    BY FieldChanges
  <2>3. Hits(d, 8, 0, 15) <=> FrameBit(d) /\ FrameKey(d) = "woi_left"
    BY <1>1 DEF Hits, FrameBit, FrameKey
  <2> QED
    BY <1>2, <2>1, <2>2, <2>3
<1>3. CASE k = "woi_width"
  <2>1. FrameFields[k] = Field(8, 16, 16) /\ FrameFields'[k] = Field(8, 16, 16)'
    BY <1>3 DEF FrameFields
  <2>2. Field(8, 16, 16) # Field(8, 16, 16)' <=> Hits(d, 8, 16, 31)
    BY FieldChanges
  <2>3. Hits(d, 8, 16, 31) <=> FrameBit(d) /\ FrameKey(d) = "woi_width"
    BY <1>1 DEF Hits, FrameBit, FrameKey
  <2> QED
    BY <1>3, <2>1, <2>2, <2>3
<1>4. CASE k = "woi_top"
  <2>1. FrameFields[k] = Field(9, 0, 16) /\ FrameFields'[k] = Field(9, 0, 16)'
    BY <1>4 DEF FrameFields
  <2>2. Field(9, 0, 16) # Field(9, 0, 16)' <=> Hits(d, 9, 0, 15)
    BY FieldChanges
  <2>3. Hits(d, 9, 0, 15) <=> FrameBit(d) /\ FrameKey(d) = "woi_top"
    BY <1>1 DEF Hits, FrameBit, FrameKey
  <2> QED
    BY <1>4, <2>1, <2>2, <2>3
<1>5. CASE k = "woi_height"
  <2>1. FrameFields[k] = Shifted(9, 16) /\ FrameFields'[k] = Shifted(9, 16)'
    BY <1>5 DEF FrameFields
  <2>2. Shifted(9, 16) # Shifted(9, 16)' <=> Hits(d, 9, 16, 31)
    BY ShiftedChanges
  <2>3. Hits(d, 9, 16, 31) <=> FrameBit(d) /\ FrameKey(d) = "woi_height"
    BY <1>1 DEF Hits, FrameBit, FrameKey
  <2> QED
    BY <1>5, <2>1, <2>2, <2>3
<1>6. CASE k = "flip_hor"
  <2>1. FrameFields[k] = Field(10, 0, 1) /\ FrameFields'[k] = Field(10, 0, 1)'
    BY <1>6 DEF FrameFields
  <2>2. Field(10, 0, 1) # Field(10, 0, 1)' <=> Hits(d, 10, 0, 0)
    BY FieldChanges
  <2>3. Hits(d, 10, 0, 0) <=> FrameBit(d) /\ FrameKey(d) = "flip_hor"
    BY <1>1 DEF Hits, FrameBit, FrameKey
  <2> QED
    BY <1>6, <2>1, <2>2, <2>3
<1>7. CASE k = "flip_ver"
  <2>1. FrameFields[k] = Field(10, 1, 1) /\ FrameFields'[k] = Field(10, 1, 1)'
    BY <1>7 DEF FrameFields
  <2>2. Field(10, 1, 1) # Field(10, 1, 1)' <=> Hits(d, 10, 1, 1)
    BY FieldChanges
  <2>3. Hits(d, 10, 1, 1) <=> FrameBit(d) /\ FrameKey(d) = "flip_ver"
    BY <1>1 DEF Hits, FrameBit, FrameKey
  <2> QED
    BY <1>7, <2>1, <2>2, <2>3
<1>8. CASE k = "bayer_mode"
  <2>1. FrameFields[k] = Field(10, 2, 2) /\ FrameFields'[k] = Field(10, 2, 2)'
    BY <1>8 DEF FrameFields
  <2>2. Field(10, 2, 2) # Field(10, 2, 2)' <=> Hits(d, 10, 2, 3)
    BY FieldChanges
  <2>3. Hits(d, 10, 2, 3) <=> FrameBit(d) /\ FrameKey(d) = "bayer_mode"
    BY <1>1 DEF Hits, FrameBit, FrameKey
  <2> QED
    BY <1>8, <2>1, <2>2, <2>3
<1>9. CASE k = "color_mode"
  <2>1. FrameFields[k] = Field(10, 4, 4) /\ FrameFields'[k] = Field(10, 4, 4)'
    BY <1>9 DEF FrameFields, ColorMode
  <2>2. Field(10, 4, 4) # Field(10, 4, 4)' <=> Hits(d, 10, 4, 7)
    BY FieldChanges
  <2>3. Hits(d, 10, 4, 7) <=> FrameBit(d) /\ FrameKey(d) = "color_mode"
    BY <1>1 DEF Hits, FrameBit, FrameKey
  <2> QED
    BY <1>9, <2>1, <2>2, <2>3
<1>10. CASE k = "decim_hor"
  <2>1. FrameFields[k] = Field(10, 8, 4) /\ FrameFields'[k] = Field(10, 8, 4)'
    BY <1>10 DEF FrameFields
  <2>2. Field(10, 8, 4) # Field(10, 8, 4)' <=> Hits(d, 10, 8, 11)
    BY FieldChanges
  <2>3. Hits(d, 10, 8, 11) <=> FrameBit(d) /\ FrameKey(d) = "decim_hor"
    BY <1>1 DEF Hits, FrameBit, FrameKey
  <2> QED
    BY <1>10, <2>1, <2>2, <2>3
<1>11. CASE k = "decim_ver"
  <2>1. FrameFields[k] = Field(10, 12, 4) /\ FrameFields'[k] = Field(10, 12, 4)'
    BY <1>11 DEF FrameFields
  <2>2. Field(10, 12, 4) # Field(10, 12, 4)' <=> Hits(d, 10, 12, 15)
    BY FieldChanges
  <2>3. Hits(d, 10, 12, 15) <=> FrameBit(d) /\ FrameKey(d) = "decim_ver"
    BY <1>1 DEF Hits, FrameBit, FrameKey
  <2> QED
    BY <1>11, <2>1, <2>2, <2>3
<1>12. CASE k = "bin_hor"
  <2>1. FrameFields[k] = Field(10, 16, 4) /\ FrameFields'[k] = Field(10, 16, 4)'
    BY <1>12 DEF FrameFields
  <2>2. Field(10, 16, 4) # Field(10, 16, 4)' <=> Hits(d, 10, 16, 19)
    BY FieldChanges
  <2>3. Hits(d, 10, 16, 19) <=> FrameBit(d) /\ FrameKey(d) = "bin_hor"
    BY <1>1 DEF Hits, FrameBit, FrameKey
  <2> QED
    BY <1>12, <2>1, <2>2, <2>3
<1>13. CASE k = "bin_ver"
  <2>1. FrameFields[k] = Field(10, 20, 4) /\ FrameFields'[k] = Field(10, 20, 4)'
    BY <1>13 DEF FrameFields, BinVer
  <2>2. Field(10, 20, 4) # Field(10, 20, 4)' <=> Hits(d, 10, 20, 23)
    BY FieldChanges
  <2>3. Hits(d, 10, 20, 23) <=> FrameBit(d) /\ FrameKey(d) = "bin_ver"
    BY <1>1 DEF Hits, FrameBit, FrameKey
  <2> QED
    BY <1>13, <2>1, <2>2, <2>3
<1>14. k = "woi_left" \/ k = "woi_width" \/ k = "woi_top"
      \/ k = "woi_height" \/ k = "flip_hor" \/ k = "flip_ver"
      \/ k = "bayer_mode" \/ k = "color_mode" \/ k = "decim_hor"
      \/ k = "decim_ver" \/ k = "bin_hor" \/ k = "bin_ver"
  BY DEF FrameFields
<1> QED
  BY <1>2, <1>3, <1>4, <1>5, <1>6, <1>7, <1>8, <1>9, <1>10, <1>11, <1>12, <1>13, <1>14

\* The bits that describe a composite frame, and the field each belongs to.
CompositeBit(d) == WordOf(d) \in 11..12 \/ (WordOf(d) = 10 /\ BitOf(d) \in 24..29)
CompositeKey(d) ==
  IF WordOf(d) = 11 /\ BitOf(d) <= 15 THEN "height1"
  ELSE IF WordOf(d) = 11 THEN "blank1"
  ELSE IF WordOf(d) = 12 /\ BitOf(d) <= 15 THEN "height2"
  ELSE IF WordOf(d) = 12 THEN "blank2"
  ELSE IF BitOf(d) <= 24 THEN "flip_h1"
  ELSE IF BitOf(d) <= 25 THEN "flip_v1"
  ELSE IF BitOf(d) <= 26 THEN "flip_h2"
  ELSE IF BitOf(d) <= 27 THEN "flip_v2"
  ELSE IF BitOf(d) <= 28 THEN "flip_h3"
  ELSE "flip_v3"

\* Of the fields of a composite frame, a bit changes the one it belongs to; the
\* third height is what the others leave.
LEMMA CompositesChange ==
  ASSUME NEW d, Flips(data, data', d),
         NEW k \in DOMAIN CompositeFields \ {"height3"}
  PROVE  CompositeFields[k] # CompositeFields'[k]
           <=> CompositeBit(d) /\ k = CompositeKey(d)
<1> DEFINE w == WordOf(d)
           b == BitOf(d)
<1>1. w \in Nat /\ b \in 0..31
  BY PlaceOf DEF Flips
<1>2. CASE k = "height1"
  <2>1. /\ CompositeFields[k] = Field(11, 0, 16)
        /\ CompositeFields'[k] = Field(11, 0, 16)'
    BY <1>2 DEF CompositeFields
  <2>2. Field(11, 0, 16) # Field(11, 0, 16)' <=> Hits(d, 11, 0, 15)
    BY FieldChanges
  <2>3. Hits(d, 11, 0, 15) <=> CompositeBit(d) /\ CompositeKey(d) = "height1"
    BY <1>1 DEF Hits, CompositeBit, CompositeKey
  <2> QED
    BY <1>2, <2>1, <2>2, <2>3
<1>3. CASE k = "blank1"
  <2>1. /\ CompositeFields[k] = Field(11, 16, 16)
        /\ CompositeFields'[k] = Field(11, 16, 16)'
    BY <1>3 DEF CompositeFields
  <2>2. Field(11, 16, 16) # Field(11, 16, 16)' <=> Hits(d, 11, 16, 31)
    BY FieldChanges
  <2>3. Hits(d, 11, 16, 31) <=> CompositeBit(d) /\ CompositeKey(d) = "blank1"
    BY <1>1 DEF Hits, CompositeBit, CompositeKey
  <2> QED
    BY <1>3, <2>1, <2>2, <2>3
<1>4. CASE k = "height2"
  <2>1. /\ CompositeFields[k] = Field(12, 0, 16)
        /\ CompositeFields'[k] = Field(12, 0, 16)'
    BY <1>4 DEF CompositeFields
  <2>2. Field(12, 0, 16) # Field(12, 0, 16)' <=> Hits(d, 12, 0, 15)
    BY FieldChanges
  <2>3. Hits(d, 12, 0, 15) <=> CompositeBit(d) /\ CompositeKey(d) = "height2"
    BY <1>1 DEF Hits, CompositeBit, CompositeKey
  <2> QED
    BY <1>4, <2>1, <2>2, <2>3
<1>5. CASE k = "blank2"
  <2>1. /\ CompositeFields[k] = Field(12, 16, 16)
        /\ CompositeFields'[k] = Field(12, 16, 16)'
    BY <1>5 DEF CompositeFields
  <2>2. Field(12, 16, 16) # Field(12, 16, 16)' <=> Hits(d, 12, 16, 31)
    BY FieldChanges
  <2>3. Hits(d, 12, 16, 31) <=> CompositeBit(d) /\ CompositeKey(d) = "blank2"
    BY <1>1 DEF Hits, CompositeBit, CompositeKey
  <2> QED
    BY <1>5, <2>1, <2>2, <2>3
<1>6. CASE k = "flip_h1"
  <2>1. /\ CompositeFields[k] = Field(10, 24, 1)
        /\ CompositeFields'[k] = Field(10, 24, 1)'
    BY <1>6 DEF CompositeFields
  <2>2. Field(10, 24, 1) # Field(10, 24, 1)' <=> Hits(d, 10, 24, 24)
    BY FieldChanges
  <2>3. Hits(d, 10, 24, 24) <=> CompositeBit(d) /\ CompositeKey(d) = "flip_h1"
    BY <1>1 DEF Hits, CompositeBit, CompositeKey
  <2> QED
    BY <1>6, <2>1, <2>2, <2>3
<1>7. CASE k = "flip_v1"
  <2>1. /\ CompositeFields[k] = Field(10, 25, 1)
        /\ CompositeFields'[k] = Field(10, 25, 1)'
    BY <1>7 DEF CompositeFields
  <2>2. Field(10, 25, 1) # Field(10, 25, 1)' <=> Hits(d, 10, 25, 25)
    BY FieldChanges
  <2>3. Hits(d, 10, 25, 25) <=> CompositeBit(d) /\ CompositeKey(d) = "flip_v1"
    BY <1>1 DEF Hits, CompositeBit, CompositeKey
  <2> QED
    BY <1>7, <2>1, <2>2, <2>3
<1>8. CASE k = "flip_h2"
  <2>1. /\ CompositeFields[k] = Field(10, 26, 1)
        /\ CompositeFields'[k] = Field(10, 26, 1)'
    BY <1>8 DEF CompositeFields
  <2>2. Field(10, 26, 1) # Field(10, 26, 1)' <=> Hits(d, 10, 26, 26)
    BY FieldChanges
  <2>3. Hits(d, 10, 26, 26) <=> CompositeBit(d) /\ CompositeKey(d) = "flip_h2"
    BY <1>1 DEF Hits, CompositeBit, CompositeKey
  <2> QED
    BY <1>8, <2>1, <2>2, <2>3
<1>9. CASE k = "flip_v2"
  <2>1. /\ CompositeFields[k] = Field(10, 27, 1)
        /\ CompositeFields'[k] = Field(10, 27, 1)'
    BY <1>9 DEF CompositeFields
  <2>2. Field(10, 27, 1) # Field(10, 27, 1)' <=> Hits(d, 10, 27, 27)
    BY FieldChanges
  <2>3. Hits(d, 10, 27, 27) <=> CompositeBit(d) /\ CompositeKey(d) = "flip_v2"
    BY <1>1 DEF Hits, CompositeBit, CompositeKey
  <2> QED
    BY <1>9, <2>1, <2>2, <2>3
<1>10. CASE k = "flip_h3"
  <2>1. /\ CompositeFields[k] = Field(10, 28, 1)
        /\ CompositeFields'[k] = Field(10, 28, 1)'
    BY <1>10 DEF CompositeFields
  <2>2. Field(10, 28, 1) # Field(10, 28, 1)' <=> Hits(d, 10, 28, 28)
    BY FieldChanges
  <2>3. Hits(d, 10, 28, 28) <=> CompositeBit(d) /\ CompositeKey(d) = "flip_h3"
    BY <1>1 DEF Hits, CompositeBit, CompositeKey
  <2> QED
    BY <1>10, <2>1, <2>2, <2>3
<1>11. CASE k = "flip_v3"
  <2>1. /\ CompositeFields[k] = Field(10, 29, 1)
        /\ CompositeFields'[k] = Field(10, 29, 1)'
    BY <1>11 DEF CompositeFields
  <2>2. Field(10, 29, 1) # Field(10, 29, 1)' <=> Hits(d, 10, 29, 29)
    BY FieldChanges
  <2>3. Hits(d, 10, 29, 29) <=> CompositeBit(d) /\ CompositeKey(d) = "flip_v3"
    BY <1>1 DEF Hits, CompositeBit, CompositeKey
  <2> QED
    BY <1>11, <2>1, <2>2, <2>3
<1>12. k = "height1" \/ k = "blank1" \/ k = "height2"
      \/ k = "blank2" \/ k = "flip_h1" \/ k = "flip_v1"
      \/ k = "flip_h2" \/ k = "flip_v2" \/ k = "flip_h3"
      \/ k = "flip_v3"
  BY DEF CompositeFields
<1> QED
  BY <1>2, <1>3, <1>4, <1>5, <1>6, <1>7, <1>8, <1>9, <1>10, <1>11, <1>12

\* The field that a bit belongs to is one that readMakerNote fills.
LEMMA KeysAre ==
  ASSUME NEW d, d \in Nat \X (0..7)
  PROVE  /\ ChannelBit(d) => ChannelKey(d) \in DOMAIN ChannelFields
         /\ FrameKey(d) \in DOMAIN FrameFields
         /\ CompositeKey(d) \in DOMAIN CompositeFields \ {"height3"}
<1>1. WordOf(d) \in Nat
  BY PlaceOf
<1>2. ASSUME ChannelBit(d)
      PROVE  ChannelKey(d) \in DOMAIN ChannelFields
  <2>1. CASE WordOf(d) <= 3
    <3>1. WordOf(d) \in Channels
      BY <1>1, <2>1 DEF Channels
    <3> QED
      BY <2>1, <3>1, ChannelsAre DEF ChannelsHold, ChannelKey
  <2>2. CASE ~(WordOf(d) <= 3)
    <3>1. WordOf(d) - 4 \in Channels
      BY <1>1, <1>2, <2>2 DEF Channels, ChannelBit
    <3> QED
      BY <2>2, <3>1, ChannelsAre DEF ChannelsHold, ChannelKey
  <2> QED
    BY <2>1, <2>2
<1>3. FrameKey(d) \in DOMAIN FrameFields
  <2>1. DOMAIN FrameFields =
          {"woi_left", "woi_width", "woi_top", "woi_height", "flip_hor",
           "flip_ver", "bayer_mode", "color_mode", "decim_hor", "decim_ver",
           "bin_hor", "bin_ver"}
    BY DEF FrameFields
  <2> QED
    BY <2>1 DEF FrameKey
<1>4. CompositeKey(d) \in DOMAIN CompositeFields \ {"height3"}
  <2>1. DOMAIN CompositeFields =
          {"height1", "blank1", "height2", "blank2", "height3", "flip_h1",
           "flip_v1", "flip_h2", "flip_v2", "flip_h3", "flip_v3"}
    BY DEF CompositeFields
  <2> QED
    BY <2>1 DEF CompositeKey
<1> QED
  BY <1>2, <1>3, <1>4

\* So the fields that differ after a step are known from the bit.
LEMMA DifferingIs ==
  ASSUME NEW d, Flips(data, data', d)
  PROVE  /\ Differing(ChannelFields, ChannelFields')
              = IF ChannelBit(d) THEN {ChannelKey(d)} ELSE {}
         /\ Differing(FrameFields, FrameFields')
              = IF FrameBit(d) THEN {FrameKey(d)} ELSE {}
         /\ Differing(CompositeFields, CompositeFields') \ {"height3"}
              = IF CompositeBit(d) THEN {CompositeKey(d)} ELSE {}
<1>1. d \in Nat \X (0..7)
  BY DEF Flips
<1>2. /\ ChannelBit(d) => ChannelKey(d) \in DOMAIN ChannelFields
      /\ FrameKey(d) \in DOMAIN FrameFields
      /\ CompositeKey(d) \in DOMAIN CompositeFields \ {"height3"}
  BY <1>1, KeysAre
<1>3. \A k \in DOMAIN ChannelFields :
        ChannelFields[k] # ChannelFields'[k]
          <=> ChannelBit(d) /\ k = ChannelKey(d)
  BY ChannelsChange
<1>4. \A k \in DOMAIN FrameFields :
        FrameFields[k] # FrameFields'[k] <=> FrameBit(d) /\ k = FrameKey(d)
  BY FramesChange
<1>5. \A k \in DOMAIN CompositeFields \ {"height3"} :
        CompositeFields[k] # CompositeFields'[k]
          <=> CompositeBit(d) /\ k = CompositeKey(d)
  BY CompositesChange
<1>6. Differing(ChannelFields, ChannelFields')
        = IF ChannelBit(d) THEN {ChannelKey(d)} ELSE {}
  BY <1>2, <1>3, Zenon DEF Differing
<1>7. Differing(FrameFields, FrameFields')
        = IF FrameBit(d) THEN {FrameKey(d)} ELSE {}
  BY <1>2, <1>4, Zenon DEF Differing
<1>8. Differing(CompositeFields, CompositeFields') \ {"height3"}
        = IF CompositeBit(d) THEN {CompositeKey(d)} ELSE {}
  <2> DEFINE D == DOMAIN CompositeFields \ {"height3"}
  <2>1. Differing(CompositeFields, CompositeFields') \ {"height3"}
          = {k \in D : CompositeFields[k] # CompositeFields'[k]}
    BY DEF Differing
  <2> HIDE DEF D
  <2>2. {k \in D : CompositeFields[k] # CompositeFields'[k]}
          = IF CompositeBit(d) THEN {CompositeKey(d)} ELSE {}
    BY <1>2, <1>5, Zenon DEF D
  <2> QED
    BY <2>1, <2>2
<1> QED
  BY <1>6, <1>7, <1>8

\* Only the two highest bits of word 10 make a frame composite.
LEMMA CompositeChanges ==
  ASSUME NEW d, Flips(data, data', d), ~(WordOf(d) = 10 /\ BitOf(d) >= 30)
  PROVE  Composite' <=> Composite
<1>1. /\ BitOf(d) \in 0..31
      /\ 10 \in Nat /\ 30 \in 0..31 /\ 31 \in 0..31
  BY PlaceOf DEF Flips
<1>2. SetIn(data', 10, 30) <=> SetIn(data, 10, 30)
  BY <1>1, SetFlips
<1>3. SetIn(data', 10, 31) <=> SetIn(data, 10, 31)
  BY <1>1, SetFlips
<1>4. Composite <=> SetIn(data, 10, 30) \/ SetIn(data, 10, 31)
  BY DEF Composite, IsSet, SetIn
<1>5. Composite' <=> SetIn(data', 10, 30) \/ SetIn(data', 10, 31)
  BY DEF Composite, IsSet, SetIn
<1> QED
  BY <1>2, <1>3, <1>4, <1>5

\* No bit belongs to settings of two kinds.
LEMMA BitsApart ==
  ASSUME NEW d
  PROVE  ~(ChannelBit(d) /\ FrameBit(d)) /\ ~(ChannelBit(d) /\ CompositeBit(d))
           /\ ~(FrameBit(d) /\ CompositeBit(d))
BY DEF ChannelBit, FrameBit, CompositeBit

\* All that a step changes, for the notes that hold these fields.
LEMMA ChangedIs ==
  ASSUME NEW d, Flips(data, data', d)
  PROVE  Changed =
           IF ChannelBit(d) THEN {ChannelKey(d)}
           ELSE IF FrameBit(d) /\ HasFrameFields THEN {FrameKey(d)}
           ELSE IF CompositeBit(d) /\ HasComposite /\ Composite /\ Composite'
                THEN {CompositeKey(d)}
           ELSE {}
<1> DEFINE C == Differing(ChannelFields, ChannelFields')
           F == Differing(FrameFields, FrameFields')
           P == Differing(CompositeFields, CompositeFields') \ {"height3"}
           c == ChannelKey(d)
           f == FrameKey(d)
           p == CompositeKey(d)
<1>1. /\ C = IF ChannelBit(d) THEN {c} ELSE {}
      /\ F = IF FrameBit(d) THEN {f} ELSE {}
      /\ P = IF CompositeBit(d) THEN {p} ELSE {}
  BY DifferingIs
<1>2. ~(ChannelBit(d) /\ FrameBit(d)) /\ ~(ChannelBit(d) /\ CompositeBit(d))
        /\ ~(FrameBit(d) /\ CompositeBit(d))
  BY BitsApart
<1>3. Changed = C \cup (IF HasFrameFields THEN F ELSE {})
                  \cup (IF HasComposite /\ Composite /\ Composite' THEN P ELSE {})
  BY DEF Changed
<1> HIDE DEF C, F, P, c, f, p
<1>4. Changed = IF ChannelBit(d) THEN {c}
                ELSE IF FrameBit(d) /\ HasFrameFields THEN {f}
                ELSE IF CompositeBit(d) /\ HasComposite /\ Composite /\ Composite'
                     THEN {p}
                ELSE {}
  <2>1. CASE ChannelBit(d)
    BY <1>1, <1>2, <1>3, <2>1
  <2>2. CASE FrameBit(d)
    BY <1>1, <1>2, <1>3, <2>2
  <2>3. CASE CompositeBit(d)
    BY <1>1, <1>2, <1>3, <2>3
  <2>4. CASE ~ChannelBit(d) /\ ~FrameBit(d) /\ ~CompositeBit(d)
    BY <1>1, <1>3, <2>4
  <2> QED
    BY <2>1, <2>2, <2>3, <2>4
<1> QED
  BY <1>4 DEF c, f, p

\* The notes that readMakerNote does not read beyond.
NoteFits == makerNoteLength \in Nat /\ makerNoteLength >= 8

\* A bit that some field takes changes a field.
LEMMA CountedShows ==
  ASSUME NEW d, Flips(data, data', d), NoteFits, Counts(d)
  PROVE  Changed # {}
<1> DEFINE w == WordOf(d)
           b == BitOf(d)
<1>1. w \in Nat /\ b \in 0..31
  BY PlaceOf DEF Flips
<1>2. w <= LastWord /\ (w = 10 => b < (IF LastWord = 12 THEN 30 ELSE 24))
  BY DEF Counts, WordOf, BitOf
<1> HIDE DEF w, b
<1>3. CASE HasComposite /\ Composite
  <2>1. LastWord = 12 /\ HasFrameFields
    BY <1>3 DEF LastWord, HasComposite, HasFrameFields, NoteFits
  <2>2. w <= 12 /\ (w = 10 => b < 30)
    BY <1>2, <2>1
  <2>3. Composite'
    BY <1>1, <1>3, <2>2, CompositeChanges DEF w, b
  <2>4. ChannelBit(d) \/ FrameBit(d) \/ CompositeBit(d)
    BY <1>1, <2>2 DEF ChannelBit, FrameBit, CompositeBit, w, b
  <2> QED
    BY <1>3, <2>1, <2>3, <2>4, ChangedIs, Zenon
<1>4. CASE ~(HasComposite /\ Composite) /\ HasFrameFields
  <2>1. LastWord = 10
    BY <1>4 DEF LastWord
  <2>2. w <= 10 /\ (w = 10 => b < 24)
    BY <1>2, <2>1
  <2>3. ChannelBit(d) \/ FrameBit(d)
    BY <1>1, <2>2 DEF ChannelBit, FrameBit, w, b
  <2> QED
    BY <1>4, <2>3, ChangedIs, Zenon
<1>5. CASE ~(HasComposite /\ Composite) /\ ~HasFrameFields
  <2>1. LastWord = 7
    BY <1>5 DEF LastWord
  <2>2. w <= 7
    BY <1>2, <2>1
  <2>3. ChannelBit(d)
    BY <1>1, <2>2 DEF ChannelBit, w
  <2> QED
    BY <2>3, ChangedIs, Zenon
<1> QED
  BY <1>3, <1>4, <1>5

\* What OneFieldPerBit says of a step.
FieldShows ==
  /\ Cardinality(Changed) <= 1
  /\ Composite # Composite' => Changed = {}
  /\ \A d \in (data \ data') \cup (data' \ data) : Counts(d) => Changed # {}

\* It holds of a step that changes one bit.
LEMMA FlipShows ==
  ASSUME NEW d, Flips(data, data', d), NoteFits
  PROVE  FieldShows
<1>1. Cardinality(Changed) <= 1
  <2>1. Changed = {} \/ \E x : Changed = {x}
    BY ChangedIs, Zenon
  <2>2. CASE Changed = {}
    BY <2>2, FS_EmptySet
  <2>3. ASSUME NEW x, Changed = {x}
        PROVE  Cardinality(Changed) <= 1
    BY <2>3, FS_Singleton
  <2> QED
    BY <2>1, <2>2, <2>3
<1>2. ASSUME Composite # Composite'
      PROVE  Changed = {}
  <2>1. WordOf(d) = 10 /\ BitOf(d) >= 30
    <3>1. Composite \in BOOLEAN /\ Composite' \in BOOLEAN
      BY DEF Composite
    <3>2. CASE ~(WordOf(d) = 10 /\ BitOf(d) >= 30)
      <4>1. Composite' <=> Composite
        BY <3>2, CompositeChanges
      <4> QED
        BY <1>2, <3>1, <4>1
    <3> QED
      BY <3>2
  <2>2. BitOf(d) \in 0..31
    BY PlaceOf DEF Flips
  <2>3. ~ChannelBit(d) /\ ~FrameBit(d) /\ ~CompositeBit(d)
    BY <2>1, <2>2 DEF ChannelBit, FrameBit, CompositeBit
  <2> QED
    BY <2>3, ChangedIs, Zenon
<1>3. ASSUME NEW e \in (data \ data') \cup (data' \ data), Counts(e)
      PROVE  Changed # {}
  <2>1. e = d
    BY <1>3 DEF Flips
  <2> QED
    BY <1>3, <2>1, CountedShows
<1> QED
  BY <1>1, <1>2, <1>3 DEF FieldShows

\* The note keeps its length, at least eight words: enough for the fields of
\* the channels, which readMakerNote reads from every note.
THEOREM NoteFitsHolds == NoteSpec => []NoteFits
<1>1. NoteInit => NoteFits
  BY MakerNoteAssumption DEF NoteInit, NoteFits
<1>2. NoteFits /\ [NoteNext]_noteVars => NoteFits'
  BY DEF NoteFits, NoteNext, Change, noteVars
<1> QED
  BY <1>1, <1>2, PTL DEF NoteSpec

\* For notes of eight words or more, with any settings, and however often the
\* user of the camera changes one: a bit of a setting shows in one field of those
\* that JP4::readMakerNote fills and in no other, and whether the frame is
\* composite shows in none of them.
THEOREM FieldsApart == NoteSpec => OneFieldPerBit
<1>1. NoteFits /\ [NoteNext]_noteVars => [FieldShows]_noteVars
  <2> SUFFICES ASSUME NoteFits, NoteNext
               PROVE  FieldShows
    OBVIOUS
  <2>1. PICK d \in Bits : data' = IF d \in data THEN data \ {d} ELSE data \cup {d}
    BY DEF NoteNext, Change
  <2>2. d \in Nat \X (0..7)
    BY <2>1 DEF Bits, NoteFits
  <2>3. Flips(data, data', d)
    BY <2>1, <2>2 DEF Flips
  <2> QED
    BY <2>3, FlipShows
<1>2. NoteSpec => [][FieldShows]_noteVars
  BY <1>1, NoteFitsHolds, PTL DEF NoteSpec
<1> QED
  BY <1>2 DEF OneFieldPerBit, FieldShows
=============================================================================
