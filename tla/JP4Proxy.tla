------------------------------ MODULE JP4Proxy ------------------------------
(***************************************************************************)
(* src/Movie2DNG/php/jp4-proxy.php: it fetches an image from a camera,     *)
(* writes all of it to a movie2dng process that converts it from standard  *)
(* input to standard output, and only then reads the result.  The two      *)
(* processes are joined by two pipes of limited size.                      *)
(***************************************************************************)
EXTENDS Integers

CONSTANTS
  Image,     \* length of a whole image, in units of data
  Header,    \* length of the part libjpeg needs to start decoding
  Trailing,  \* lengths of what may follow the image in the stream
  OutSizes,  \* lengths of a converted image
  Capacity   \* of a pipe

ASSUME JP4ProxyAssumption ==
  /\ Image \in Nat /\ Header \in 1..Image /\ Capacity \in Nat \ {0}
  /\ Trailing \subseteq Nat /\ OutSizes \subseteq Nat \ {0}

VARIABLES
  arriving, outSize,  \* what the camera will send, and the result's length
  proxyPc, copied, output, \* the script, what it has copied, what it has read
  stdin, stdinOpen,   \* the pipe to movie2dng, and whether it may get more
  stdout,             \* the pipe from movie2dng
  child, taken, written  \* movie2dng, what it has read and has written

params == <<arriving, outSize>>
proxyVars == <<proxyPc, copied, output>>
childVars == <<child, taken, written>>
proxyAllVars == <<params, proxyVars, stdin, stdinOpen, stdout, childVars>>

ProxyFresh ==
  /\ proxyPc = "fetch" /\ copied = 0 /\ output = 0
  /\ stdin = 0 /\ stdinOpen = TRUE /\ stdout = 0
  /\ child = "none" /\ taken = 0 /\ written = 0

\* The connection may also end within the image.
ProxyInit ==
  /\ arriving \in 0..(Image - 1) \cup {Image + t : t \in Trailing}
  /\ outSize \in OutSizes
  /\ ProxyFresh

ProxyGoto(label) == proxyPc' = label

-----------------------------------------------------------------------------
(* The script. *)

\* fopen of the URL; trigger_error ends the script.
Fetch ==
  /\ proxyPc = "fetch"
  /\ ProxyGoto("spawn") \/ ProxyGoto("failed")
  /\ UNCHANGED <<params, copied, output, stdin, stdinOpen, stdout, childVars>>

Spawn ==
  /\ proxyPc = "spawn"
  /\ \/ ProxyGoto("copy") /\ child' = "reading"
     \/ ProxyGoto("failed") /\ UNCHANGED child
  /\ UNCHANGED <<params, copied, output, stdin, stdinOpen, stdout, taken,
                 written>>

\* stream_copy_to_stream blocks while the pipe is full.
Copy ==
  /\ proxyPc = "copy"
  /\ copied < arriving /\ stdin < Capacity /\ child # "exited"
  /\ copied' = copied + 1 /\ stdin' = stdin + 1
  /\ UNCHANGED <<params, proxyPc, output, stdinOpen, stdout, childVars>>

\* Mutant: the pipe to movie2dng is left open while its output is read.
CopyEndsOpen ==
  /\ proxyPc = "copy"
  /\ copied = arriving \/ child = "exited"
  /\ ProxyGoto("read")
  /\ UNCHANGED <<params, copied, output, stdin, stdinOpen, stdout, childVars>>

\* At the end of the stream, or when movie2dng is gone.
CopyEnds ==
  /\ proxyPc = "copy"
  /\ copied = arriving \/ child = "exited"
  /\ stdinOpen' = FALSE
  /\ ProxyGoto("read")
  /\ UNCHANGED <<params, copied, output, stdin, stdout, childVars>>

Read ==
  /\ proxyPc = "read"
  /\ stdout > 0
  /\ stdout' = stdout - 1 /\ output' = output + 1
  /\ UNCHANGED <<params, proxyPc, copied, stdin, stdinOpen, childVars>>

\* Mutant: an empty pipe is taken for the end of the output.
NothingToRead == stdout = 0

EndOfOutput == stdout = 0 /\ child = "exited"

\* proc_close, and the answer with what was read, whatever it is.
Answer ==
  /\ proxyPc = "read"
  /\ EndOfOutput
  /\ ProxyGoto("answered")
  /\ UNCHANGED <<params, copied, output, stdin, stdinOpen, stdout, childVars>>

Script == Fetch \/ Spawn \/ Copy \/ CopyEnds \/ Read \/ Answer

-----------------------------------------------------------------------------
(* movie2dng --jpeg --stdout -, as CommandLine and JP4::open have it. *)

Take ==
  /\ child = "reading"
  /\ stdin > 0 /\ taken < Image
  /\ stdin' = stdin - 1 /\ taken' = taken + 1
  /\ UNCHANGED <<params, proxyVars, stdinOpen, stdout, child, written>>

\* libjpeg reads to the end of the image, not of the stream.  It makes up for
\* the end of an image that is cut short if it has the header, and ends the
\* process otherwise, as it or the EXIF code may do with any image.
Decode ==
  /\ child = "reading"
  /\ taken = Image \/ (stdin = 0 /\ ~stdinOpen)
  /\ \/ taken >= Header /\ child' = "writing"
     \/ child' = "exited"
  /\ UNCHANGED <<params, proxyVars, stdin, stdinOpen, stdout, taken, written>>

Put ==
  /\ child = "writing"
  /\ written < outSize /\ stdout < Capacity
  /\ written' = written + 1 /\ stdout' = stdout + 1
  /\ UNCHANGED <<params, proxyVars, stdin, stdinOpen, child, taken>>

ChildExits ==
  /\ child = "writing"
  /\ written = outSize
  /\ child' = "exited"
  /\ UNCHANGED <<params, proxyVars, stdin, stdinOpen, stdout, taken, written>>

Child == Take \/ Decode \/ Put \/ ChildExits

ProxyNext == Script \/ Child

\* Neither process stops by itself, and the camera sends or hangs up.
ProxySpec ==
  /\ ProxyInit /\ [][ProxyNext]_proxyAllVars
  /\ WF_proxyAllVars(Script) /\ WF_proxyAllVars(Child)

-----------------------------------------------------------------------------
(* Properties. *)

Ended == proxyPc \in {"answered", "failed"}

\* "will fetch the given frame from imgsrv, pass it through movie2dng and
\* return a image/jpeg stream" (debian/changelog:25): every request ends,
\* although both processes can block on both pipes, unless more follows the
\* image than a pipe holds.
RequestEnds == (arriving <= Image + Capacity) => <>Ended

\* The answer is all that movie2dng wrote: the script does not take a pause of
\* movie2dng for its end.
AnswerIsComplete ==
  proxyPc = "answered" => output = written /\ child = "exited"
=============================================================================
