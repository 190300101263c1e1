----------------------------- MODULE JPEGObject ------------------------------
(***************************************************************************)
(* The JPEG objects of the patched libjpeg, and the three functions that   *)
(* use them: JP4::open and JP4::writeJPEG of src/Movie2DNG/src/jp4.cpp     *)
(* (movie2dng calls one after the other for every frame) and main of       *)
(* src/JP4toDNGconverter/source/elphel_dng.c.  An object has a state that  *)
(* says which calls are allowed, and two pools of memory: the image pool   *)
(* is freed at the end of an image, the permanent one with the object.  A  *)
(* call that is not allowed ends the process, and so do a file that is no  *)
(* image and a disk that is full.                                          *)
(***************************************************************************)
EXTENDS Integers, SequencesExt

CONSTANTS
  MaxImages,  \* bound on the frames movie2dng converts
  Heights     \* lines of the images

ASSUME JPEGObjectAssumption == MaxImages \in Nat /\ Heights \subseteq Nat \ {0}

Functions == {"open", "writeJPEG", "elphel_dng"}
Files == {"empty", "tables_only", "image"}

VARIABLES
  func,    \* the function that runs, "idle" between two of them
  step,    \* number of the call in it
  images,  \* frames begun
  file,    \* [content, height] of the JPEG file read
  cinfo,   \* the object: [state, mem, markers, scanline]
  app1,    \* has JP4::open a copy of the APP1 data?
  stream,  \* what writeJPEG has given to its file
  ended    \* why the process has ended, "no" before

jpegVars == <<func, step, images, file, cinfo, app1, stream, ended>>

NoObject == [state |-> "undefined", mem |-> FALSE, markers |-> FALSE,
             scanline |-> 0]

JpegInit ==
  /\ func = "idle" /\ step = 0 /\ images = 0
  /\ file = [content |-> "image", height |-> 0]
  /\ cinfo = NoObject
  /\ app1 = FALSE
  /\ stream = << >>
  /\ ended = "no"

\* Mutant: the APP1 data are fetched when the image is finished.
OpenCallsApp1Last ==
  <<"create", "connect", "read_header", "start", "scanlines", "finish",
    "save_app1">>

OpenCalls ==
  <<"create", "connect", "read_header", "save_app1", "start", "scanlines",
    "finish">>

\* Mutant: the marker is written when the lines are.
WriteCallsMarkerLast ==
  <<"create", "connect", "start", "scanlines", "write_marker", "finish">>

WriteCalls ==
  <<"create", "connect", "start", "write_marker", "scanlines", "finish">>

ElphelCalls ==
  <<"create", "connect", "read_header", "start", "scanlines", "finish",
    "destroy">>

\* The calls of the library in each function, in order.
Calls(f) ==
  CASE f = "open"       -> OpenCalls
    [] f = "writeJPEG"  -> WriteCalls
    [] f = "elphel_dng" -> ElphelCalls

Calling(call) ==
  /\ ended = "no" /\ func \in Functions
  /\ step \in DOMAIN Calls(func) /\ Calls(func)[step] = call

Reading == func \in {"open", "elphel_dng"}
Proceed == step' = step + 1 /\ UNCHANGED <<func, images, file>>

\* ERREXIT: error_exit destroys the object and ends the process.
ErrorExit(why) ==
  /\ ended' = why
  /\ cinfo' = [cinfo EXCEPT !.mem = FALSE, !.state = "destroyed"]
  /\ UNCHANGED <<func, step, images, file, app1, stream>>

-----------------------------------------------------------------------------
(* The calls. *)

Create ==
  /\ Calling("create")
  /\ cinfo' = [NoObject EXCEPT !.state = "START", !.mem = TRUE]
  /\ Proceed /\ UNCHANGED <<app1, stream, ended>>

\* jpeg_stdio_src, jpeg_stdio_dest and the parameters.
Connect ==
  /\ Calling("connect")
  /\ Proceed /\ UNCHANGED <<cinfo, app1, stream, ended>>

JpegReadHeader ==
  /\ Calling("read_header")
  /\ IF cinfo.state # "START" THEN ErrorExit("refused")
     ELSE IF file.content # "image" THEN ErrorExit("file")
     ELSE /\ cinfo' = [cinfo EXCEPT !.state = "READY", !.markers = TRUE]
          /\ Proceed /\ UNCHANGED <<app1, stream, ended>>

\* JP4::open copies the first saved marker, if there is a list of them.
CopyApp1 ==
  /\ Calling("save_app1")
  /\ app1' = cinfo.markers
  /\ Proceed /\ UNCHANGED <<cinfo, stream, ended>>

StartDecompress ==
  /\ Calling("start") /\ Reading
  /\ IF cinfo.state # "READY" THEN ErrorExit("refused")
     ELSE \/ cinfo' = [cinfo EXCEPT !.state = "SCANNING", !.scanline = 0]
             /\ Proceed /\ UNCHANGED <<app1, stream, ended>>
          \/ ErrorExit("file")  \* an image the library cannot decode

\* elphel_dng refuses the size, or cannot open the TIFF file: goto fail.
GiveUp ==
  /\ func = "elphel_dng" /\ cinfo.scanline = 0
  /\ Calling("start") \/ Calling("scanlines")
  /\ step' = Len(Calls(func))
  /\ UNCHANGED <<func, images, file, cinfo, app1, stream, ended>>

\* One line, of a file that is cut short a gray one; the loop of the caller
\* ends with the height it was given by read_header.
ReadScanline ==
  /\ Calling("scanlines") /\ Reading
  /\ IF cinfo.scanline < file.height
     THEN IF cinfo.state # "SCANNING" THEN ErrorExit("refused")
          ELSE /\ cinfo' = [cinfo EXCEPT !.scanline = @ + 1]
               /\ UNCHANGED <<func, step, images, file, app1, stream,
                              ended>>
     ELSE Proceed /\ UNCHANGED <<cinfo, app1, stream, ended>>

\* jpeg_abort: the image pool is freed with the markers, the state START again.
Abort == cinfo' = [cinfo EXCEPT !.state = "START", !.markers = FALSE]

FinishDecompress ==
  /\ Calling("finish") /\ Reading
  /\ IF cinfo.state # "SCANNING" \/ cinfo.scanline < file.height
     THEN ErrorExit("refused")
     ELSE Abort /\ Proceed /\ UNCHANGED <<app1, stream, ended>>

Emit(parts) ==
  \/ stream' = stream \o parts /\ UNCHANGED ended
  \/ stream' = stream /\ ended' = "disk"  \* ERREXIT of the destination

Destroyed(o) == [o EXCEPT !.mem = FALSE, !.state = "destroyed"]

EmitAs(parts, next) ==
  /\ Emit(parts)
  /\ cinfo' = IF ended' = "no" THEN next ELSE Destroyed(cinfo)

\* The file header is written at once, the frame and scan headers with the
\* first line, so that other markers can be put between them.
StartCompress ==
  /\ Calling("start") /\ func = "writeJPEG"
  /\ IF cinfo.state # "START" THEN ErrorExit("refused")
     ELSE /\ EmitAs(<<"SOI", "APP0">>,
                    [cinfo EXCEPT !.state = "SCANNING", !.scanline = 0])
          /\ Proceed /\ UNCHANGED app1

WriteMarker ==
  /\ Calling("write_marker")
  /\ IF ~app1 THEN UNCHANGED <<cinfo, stream, ended>> /\ Proceed
     ELSE IF cinfo.state # "SCANNING" \/ cinfo.scanline # 0
          THEN ErrorExit("refused")
          ELSE EmitAs(<<"APP1">>, cinfo) /\ Proceed
  /\ UNCHANGED app1

PassStartup ==
  IF cinfo.scanline = 0 THEN <<"DQT", "SOF", "DHT", "SOS">> ELSE << >>

WriteScanline ==
  /\ Calling("scanlines") /\ func = "writeJPEG"
  /\ IF cinfo.scanline < file.height
     THEN IF cinfo.state # "SCANNING" THEN ErrorExit("refused")
          ELSE /\ EmitAs(PassStartup \o <<"line">>,
                         [cinfo EXCEPT !.scanline = @ + 1])
               /\ UNCHANGED <<func, step, images, file, app1>>
     ELSE Proceed /\ UNCHANGED <<cinfo, app1, stream, ended>>

FinishCompress ==
  /\ Calling("finish") /\ func = "writeJPEG"
  /\ IF cinfo.state # "SCANNING" \/ cinfo.scanline < file.height
     THEN ErrorExit("refused")
     ELSE /\ EmitAs(<<"EOI">>, [cinfo EXCEPT !.state = "START"])
          /\ Proceed /\ UNCHANGED app1

Destroy ==
  /\ Calling("destroy")
  /\ cinfo' = Destroyed(cinfo)
  /\ Proceed /\ UNCHANGED <<app1, stream, ended>>

-----------------------------------------------------------------------------
(* The programs. *)

\* The object goes out of scope.
Return ==
  /\ ended = "no" /\ func \in Functions /\ step > Len(Calls(func))
  /\ func' = "idle"
  /\ ended' = IF func = "elphel_dng" THEN "done" ELSE "no"
  /\ UNCHANGED <<step, images, file, cinfo, app1, stream>>

Call(f) ==
  /\ func' = f /\ step' = 1
  /\ UNCHANGED <<cinfo, ended>>

\* movie2dng's next frame, or elphel_dng's only one: a file without APP1 data
\* leaves the copy undefined, which JP4Object models.
NextImage ==
  /\ ended = "no" /\ func = "idle" /\ images < MaxImages
  /\ \/ Call("open")
     \/ images = 0 /\ Call("elphel_dng")
  /\ images' = images + 1
  /\ file' \in [content : Files, height : Heights]
  /\ app1' = FALSE
  /\ stream' = << >>

\* With --jpeg, once for every frame that was opened.
CallWriteJPEG ==
  /\ ended = "no" /\ func = "idle" /\ images > 0 /\ stream = << >>
  /\ Call("writeJPEG")
  /\ UNCHANGED <<images, file, app1, stream>>

JpegNext ==
  \/ Create \/ Connect \/ JpegReadHeader \/ CopyApp1
  \/ StartDecompress \/ GiveUp \/ ReadScanline \/ FinishDecompress
  \/ StartCompress \/ WriteMarker \/ WriteScanline \/ FinishCompress
  \/ Destroy \/ Return \/ NextImage \/ CallWriteJPEG

JpegSpec == JpegInit /\ [][JpegNext]_jpegVars

-----------------------------------------------------------------------------
(* Properties. *)

\* The library refuses no call for the state of the object or for lines that
\* are missing: a process that ends early does so because of the file it reads
\* or the disk it writes to.
CallsAreAccepted == ended # "refused"

\* A JPEG file that writeJPEG has closed is whole: the APP1 data of the image
\* it came from before the frame header, all lines, and the end marker.
StreamIsWhole ==
  (func = "idle" /\ stream # << >>) =>
    stream = <<"SOI", "APP0", "APP1", "DQT", "SOF", "DHT", "SOS">>
               \o [i \in 1..file.height |-> "line"] \o <<"EOI">>
=============================================================================
