# A verification project for jp4tools

jp4tools converts JP4 images and clips from Elphel cameras to DNG, PGM and
JPEG. This directory holds TLA+ modules that model its programs, TLC
configurations that check them on small instances, and theorems checked with
TLAPS. The source is the reference: every definition that models code is listed
with its file and lines in `PROJECT.json` under `map`.

Contents: [inventory](#1-inventory) · [modules](#2-the-modules-and-the-code) ·
[runs](#3-what-the-runs-check) · [fairness](#4-fairness-and-deadlock) ·
[proofs](#5-what-is-proved) · [findings](#6-where-the-code-disagrees-with-its-text) ·
[not modelled](#7-what-is-not-modelled) · [plan](#8-plan)

## 1. Inventory

| Component | State | Operations | Interacts with |
|---|---|---|---|
| **movie2dng, movie conversion** (`Movie2DNG/src/movie2dng.cpp`, `main`) | options, output directory, `count_frame`, current frame, the files DEST-NNNNNN | make directory, open clip, compute range, loop: next frame, dump to .jp4, decode, write formats, unlink dump, report | owns a `Movie` and a `MovieIterator`, creates a `JP4` per frame, calls `DNGWriter`, prints to the GUI, may be killed by it |
| **movie2dng, command line and single image** (same file) | option variables, name formats | `getopt_long` loop, source and destination names, standard input to a temporary file, single image conversion | started by the GUI, by `jp4-proxy.php` and `process.php` |
| **Movie / MovieIterator** (`movie.cpp`) | demuxer position, `_start`, `_end`, `_currentFrame`, `_packet` | open, construct and seek, `hasNext`, `next` | libavformat |
| **JP4** (`jp4.cpp`) | pixel data, raw APP1, EXIF, maker note | open (decode, EXIF, deblocking), `writePGM`, `writeJPEG`, tag access | libjpeg-jp4, libexif, `Gamma` |
| **Gamma** (`gamma.cpp`) | none | `reverseTable` | JP4, DNGWriter |
| **DNGWriter** (`dngwriter.cpp`) | none kept | `write` | DNG SDK, JP4 |
| **Movie2DNGGUI** (`Movie2DNGGUIView.java`) | buttons, fields shared by threads, one child process and one reader thread per conversion | Select Source, option handlers, Convert, Stop, reader `run()`, `UpdateCommand` | runs `movie2dng --gui`, reads its standard output |
| **elphel_dng** (`JP4toDNGconverter`) | a strip of 16 rows | permutation of rows and columns, output row by row | libjpeg, libtiff |
| **elphel-movie-indexer** | none | prints the index of a clip | libavformat |
| **jp4-proxy.php** | two pipes | copies an image to `movie2dng --jpeg --stdout -` and its output to the browser | movie2dng |
| **BatchProcess/process.php** | the directory it walks | moves each clip to a directory, extracts, converts, removes | movie2dng, elphel_dng |
| **jpeg-6b-jp4** (libjpeg 6b with Elphel's patch) | the object's state and memory pools, the place in a scan | create … destroy, the calls for a header, lines, markers | JP4, elphel_dng |
| **DNG SDK** (`extra/dng_sdk`, the parts DNGWriter reaches) | stream buffer, directories, the file, digest | orientation, Get / Put / SetLength, directories, `WriteDNG`, tiles, MD5 | DNGWriter |
| XMP SDK, libtiff 3.8.2 | | vendored libraries | |

What is hard about each, and what makes it correct:

* **movie conversion.** Three counters must stay in step: the packets the
  demuxer has delivered, the iterator's `_currentFrame` (one ahead) and
  `count_frame` (renumbered). Zero means "not given" for `--start` and
  `--frames`, the end of the range has 0 as "end of the clip", and the crop
  compares with `nFrames() + 1`. Any system call can fail, some are not looked
  at (`next`, `fwrite`, `fclose`, `fopen` in `writePGM`), and the process can be
  killed anywhere, leaving a temporary dump which a later run finds. Correct
  means: a finished file holds the frame its number stands for, what is
  announced is converted, no temporary file stays, the program ends.
* **MovieIterator.** The constructor's seek loop uses its pre-increment both to
  initialise and to count, and ignores read errors; `next` frees a packet
  before it reads the next one.
* **JP4.** The constructor initialises nothing, `open` sets `_raw_app1` only
  when there is a marker, and the loop in `main` creates the object on the same
  stack slot for each frame. Correct means that no frame uses another frame's
  metadata or memory that was freed. Deblocking must be a permutation of
  each macroblock.
* **Gamma.** The reverse walk over an increasing table, flat stretches and the
  table's end included, must give an increasing table.
* **DNGWriter.** Flips, Bayer phase and orientation must belong together.
* **GUI.** The event dispatch thread and reader threads share unsynchronised
  fields; an old reader may outlive its conversion, the tested thread field and
  the process field are read at different times, buffered lines are dropped
  every eleven lines, `exec` can fail. Correct means: one process at a time and
  Stop reaches it; progress belongs to the current conversion and does not go
  back; the end is noticed; threads end.
* **elphel_dng.** Each output row must be the permuted input row; the strip
  must be full before it is used.
* **jp4-proxy.php.** The proxy writes everything before it reads anything: with
  bounded pipes both processes can wait for each other.
* **jpeg-6b-jp4.** The patch tiles scans of one component and makes a row of
  MCUs out of what the standard library counts otherwise: buffer rows and edges
  must agree with it. The calls are accepted in one order only,
  and a call out of order ends the process.
* **DNG SDK.** One buffer serves reads and writes of a stream; every offset in
  a file is computed from directories that are written last; a raw image is read
  through buffers and tiles that must neither lose nor repeat a pixel; the count
  of an MD5 message overflows a word.
* **BatchProcess.** It changes the directory it reads, removes frames whose
  conversion may have failed, and pastes names into shell commands without
  quotes, so that a blank in a name makes two names of it.

`PROJECT.json` lists these as `hazards`, each at the line where it bites, with
the properties that cover it or a note why there is none.

## 2. The modules and the code

```
MovieIterator ──EXTENDS──> Movie2DNG ──EXTENDS──> MCMovie2DNG        (TLC)
                               │ INSTANCE WITH
                               ├──> FrameExport                      (abstract)
                               └──EXTENDS──> Movie2DNG_proofs        (TLAPS)

ConverterGUI ──EXTENDS──> MCConverterGUI                             (TLC)
             └─EXTENDS──> ConverterGUI_proofs                        (TLAPS)

OptionParser ─┬─EXTENDS──> CommandLine ─┐
              └─EXTENDS──> GUICommand ──┼──EXTENDS──> MCTools        (TLC)
                JP4Proxy, BatchProcess ─┘
the same four ─────────────────────────────EXTENDS──> Tools_proofs   (TLAPS)

Deblock, ScanOrder ─EXTENDS─> JP4Layout ─┐
JP4Object, MakerNote, ReverseTable, ─────┼─EXTENDS──> MCImage        (TLC)
JPEGObject ──────────────────────────────┘
JP4Layout, ReverseTable ───────────────────EXTENDS──> Image_proofs   (TLAPS)
JP4Object, JPEGObject, MakerNote ──────────EXTENDS──> JPEG_proofs

Orientation ───EXTENDS──> DNGMosaic ─────┐
StreamData ─┬──EXTENDS──> DNGStream ─────┤
            │                 │ INSTANCE WITH
            └──EXTENDS──> ByteStream     │                           (abstract)
TIFFDirectory ─EXTENDS──> DNGFile ───────┼──EXTENDS──> MCDNG         (TLC)
TileIterator ─┬─EXTENDS─> AreaTask ──────┤
MD5Printer ───┴─EXTENDS─> RawDigest ─────┘
DNGMosaic, DNGStream, AreaTask ────────────EXTENDS──> DNG_proofs     (TLAPS)
DNGFile ───────────────────────────────────EXTENDS──> DNGFile_proofs
RawDigest ─────────────────────────────────EXTENDS──> RawDigest_proofs
```

### Movies and the window

**MovieIterator** models `movie.cpp`: the constructor with its normalisation of
the range (`IterStart`, `IterEnd`), the seek loop step by step (`SeekFrame`),
`hasNext`, and `next` with its two outcomes (`NextOk`, `NextFails`). The clip is
the environment: `nb_frames` as declared by the header and the number of
`packets` that can really be read, which may be smaller. A frame is
represented by its number. After a failed read the frame data is `Junk`, the
freed packet.

**Movie2DNG** models the movie branch of `main`, one action per step, with `pc`
for the place in the loop. `disk[f][i]` is what the file DEST-i with format f
holds: a frame number, `Empty`, `Junk` (cut or freed data) or `Absent`. Every
failure of the environment is a member of the constant `Faults`: `read`
(a packet cannot be read), `fopen`, `shortWrite`, `kill`. `MakeDir` comes
before `OpenMovie`, as in the code. `Convert` is the step common to the three
writers: a failing DNG or JPEG ends the process (an exception, a null FILE
pointer), a failing PGM goes unnoticed. `Kill` is a signal between any two
steps, perhaps in the middle of a file; `Rerun` is the user starting the program
again over the same directory with other options. Three history variables serve
properties only: `damaged` (something failed and the program went on), `kept`
(JP4 files asked for by earlier runs), `run`.

**FrameExport** is the promise to the user on an undamaged clip: frames of the
requested range become available one at a time and in order, none is undone,
and success is reported only when all are there. `Movie2DNG` implements it under
the mapping *exported = the frames every requested format has a finished file
for*.

**ConverterGUI** models the conversion control of `Movie2DNGGUIView.java`. The
handler of Convert is split where another thread can see a difference
(`Convert`, `ResetComplete`, `ForgetProcess`, `Exec`, `StartReader`), and the two
ways in which an exception ends it early are kept: a frame limit that is no
number (`ConvertBadLimit`) and an empty command (in `Exec`). `Stop` and
`SelectSource` are one step each: nothing they write is read by a reader, except
through `destroy()`. Conversion number n has process n and reader n. A reader's
loop is `Test` (the loop condition), `Open` (reads
`ConvertProcess`, perhaps null), `ReadLine` (a line read ahead, or all the pipe
holds, or the end), `CheckFirstLine` and `FirstLine` or `LaterLine` (tested and
used at different times), `Sleep`. Lines are pairs of the process that wrote
them and a number, so that a property can tell whose progress is shown. The
processes (`Write`, `Exit`) stand for `movie2dng --gui`: the announcement, a
line per frame, an empty line; or an error after the announcement; or a help
text; or nothing. Variables of `run()`
that go out of scope are reset at the end of a turn, where the code drops its
`BufferedReader` with what it holds.

### A frame: `MCImage`

**JP4Object** models the members of `JP4` over the loop of `main`: the object of
each frame lies in the stack slot of the last one, the constructor initialises
nothing. `heap` says of each block what it holds and from which frame; `New`
takes any free block, a block that was just freed included, so a pointer left
over from the last frame can point to a live block of this one. `note[g]` is the
frame a group of fields of the maker note was decoded from; the three groups are
those guarded by the same length. `faulted` (memory that was not the object's
own was used or freed) and `regular` (all files so far had APP1 data and no note
under eight words) are history variables.

**MakerNote** models the shifts and masks of `readMakerNote`. The note is the
set of its 1 bits by byte and bit; `Change` changes a bit of it.

**Deblock** models the two deblockings: `open`'s walk over the blocks of a flat
array, and `elphel_dng`'s strips of 16 lines, filled from a decoder that may
deliver fewer lines at a time than it is asked for. `out` maps each place of the
new image to the place its pixel came from. Images whose sides are no multiple
of 16 are among the inputs.

**ScanOrder** models the patched library's `per_scan_setup` and
`decompress_onepass` (with the loop variables it saves when the data source runs
dry, which the library allows and the file source of these programs never does) as
the places coded blocks go to.

**ReverseTable** models `Gamma::reverseTable`, one step of the walk or one
stored value at a time. Floating point is scaled: the curve is an input, any
rising table, and the arithmetic on it is C's, with division towards zero and an
`int` of `IntSpan` values.

**JPEGObject** models the calls of `open`, `writeJPEG` and `elphel_dng`'s `main`
to libjpeg, in order, over an object with the state in which each call is
accepted and the two memory pools. Files are images, tables only or empty; a
disk may be full.

### A DNG file: `MCDNG`

**Orientation** holds `dng_orientation` with its arithmetic; **DNGMosaic** uses
it to follow an image from the flips of the maker note (`PhaseOfFlips`, the base
orientation), through the file's tag, to a reader that turns the pixels and adds
orientations up.

**DNGStream** models `dng_stream`: positions for reading and writing, `Put`,
`SetLength`, `Flush` and `Get`, which is a loop with one step per round, over one buffer and a
store. **ByteStream** is what its header promises, a sequence of bytes with a
position. The mapping: contents are the store with the dirty buffer laid over
it, the position is that before the current Get. `careless` is a history
variable: data a Get had buffered was cut off or overwritten behind the buffer,
or the stream was used after an exception.

**TIFFDirectory** is the sorted list of tags with `Size` and `Put`; **DNGFile**
is `WriteDNG` for what DNGWriter gives it: tags are added in any number and
order, then offsets are computed, images are written strip part by strip part,
header and directories last. `file` is the set of pieces written, each with its
place, so a test for overlaps is a test on sets. A full disk or a signal can end
it at any step.

**TileIterator** cuts an area along a repeating tile. **AreaTask** is the SDK's
loop over four nested iterators with the tile size of `FindTileSize`;
**RawDigest** reads the image tile by tile into **MD5Printer**, whose digest is
the sequence of bytes that would be transformed.

### Command lines and their callers: `MCTools`

**OptionParser** is the `getopt_long` loop, one argument at a time: an option
with a value and without `=` takes the next argument, whatever that is.
**CommandLine** is `main` up to the conversion: help and refusals, movie or
image, where the name of the frames comes from, the directory, the refusal of
several formats of one image.

**GUICommand** models the widgets with their handlers and `UpdateCommand`,
which may fail half way; what Convert would run is read by `OptionParser`, so
both sides of the command line are the code's.

**JP4Proxy** is the script and its child over two pipes of `Capacity` units;
**BatchProcess** is the walk of `process.php` over a file system `fs`, a function
from paths to what is there. A path is a sequence of names, and a name is a
sequence of characters, because the script works on them: it looks for `.mov`
anywhere but at the start (`IsMovie`), cuts four characters off (`Folder`) and
pastes names into commands, which the shell cuts at blanks (`Pieces`, `Pasted`).
So `mv`, `mkdir`, `movie2dng` and `rm` get the arguments they would get:
`Moving` and `MovedInto` are an `mv` of several arguments, directories with what is
below them among these, and `ToRemoveAll` is everything below each argument of `rm
-r`. PHP's own `mkdir`, `opendir` and `readdir` take a name as it is. Every command
is a step, of which `mkdir`, `movie2dng` and `elphel_dng` may fail, for some of
their arguments too; a kill can come between any two; between
runs a clip with the name of one that was moved away may arrive; and `readdir` is
free to return or skip an entry that came or went during the walk.
`extracts` says whether movie2dng takes a command line without a format (an old
one did, the current one prints its help).

### Several parts in one run

`MCImage`, `MCDNG` and `MCTools` check several modules in one run each. The
modules share no variable, so interleaving them would add no behaviour of any
of them: the variable `part`, chosen in the initial state, says which one takes
steps, and the others rest in a reachable state of theirs in which their
properties say nothing or hold. Every behaviour of each part is a behaviour of
the run. The property `OneColourPerBlock` of **JP4Layout** is about two parts, the
order in which the library delivers blocks and the table by which `open` takes
them.

In all modules operators commented "Mutant" are variants with a plausible bug,
used to make sure that each property can fail.

## 3. What the runs check

| Run | Instance | Properties |
|---|---|---|
| `movie2dng_faults` | clips of up to 3 frames declared and present, all failures, with and without `--jp4`, and a second run over the same files | `TypeOK`, `OutputsMatchIndex`, `InStepInv`, `NoTemporaryLeft`, `LeftoversBounded` |
| `movie2dng_intact` | two runs, undamaged clips, open failures and signals, ranges before, inside and after the clip | `AnnouncedIsConverted`, `ImplementsFrameExport`, `Termination` |
| `gui_conversions` | two conversions of 2 frames, 2 lines a turn, pipes of 2 lines, any order of clicks | `TypeOK`, `OneConversion`, `ProgressIsCurrent`, `ProgressGoesOn` |
| `gui_notice` | two conversions of 1 frame, pipes of 2 lines, fair threads and processes | `ConversionNoticed` |
| `gui_readers` | two conversions of 1 frame, pipes of 1 line, fair threads and processes | `OldReadersEnd` |
| `image` | the six parts of `MCImage`, bounds below | `OwnMemoryOnly`, `NoteOfThisFrame`, `OneFieldPerBit`, `PixelsInPlace`, `Ends`, `BlocksInPlace`, `OneColourPerBlock`, `ReversesCamera`, `CallsAreAccepted`, `StreamIsWhole` |
| `dng` | the five parts of `MCDNG`, bounds below | `SensorColours`, `TagKeepsTurns`, `IsByteStream`, `LinksHold`, `RowsInPlace`, `NothingOverlaps`, `EachPixelOnce`, `TilesFit`, `DigestOfImage` |
| `tools` | the four parts of `MCTools`, bounds below | `ReadAsGiven`, `CommandMeansSettings`, `RequestEnds`, `AnswerIsComplete`, `LastClipKept`, `FramesKept` |
| `movie2dng_short_clip` | clip shorter than its header says | `OnlyNFrames` is violated |
| `movie2dng_negative_frames` | `--start 3 --frames -2` | `AnnouncedIsConverted` is violated |
| `movie2dng_kept_jp4` | `--jp4`, then again without | `KeptSurvive` is violated |
| `tools_blanks` | as `tools` | `OnlyJp4sRemoved` is violated |

What they show, of movies and the window:

* `OutputsMatchIndex`: as long as nothing failed *unnoticed*, each finished
  file holds the frame its number stands for, for every range, renumbering and
  reported failure. It fails at once when the seek loop or the crop is off by
  one.
* `InStepInv` is the inductive invariant of the proofs (section 5), checked here
  first.
* `NoTemporaryLeft`: no dump of a finished frame stays without `--jp4`, even
  when an interrupted run left one, and even after a failed read.
  `LeftoversBounded`: each interrupted run leaves one dump at most, that of the
  frame it was at.
* `AnnouncedIsConverted`: a normal end has converted and reported the number of
  frames on the first line, on which the GUI bases its progress bar.
* `ImplementsFrameExport`, `Termination`: the refinement, and that the program
  ends on an undamaged clip.
* `OneConversion`: only the process Stop would destroy runs. The condition
  `~reselected` is needed: Select Source enables Convert unconditionally
  (line 572), also while movie2dng runs, and the next Convert starts a second
  process; the first one is then out of reach of Stop.
* `ProgressIsCurrent`, `ProgressGoesOn`: the shared fields belong to the current
  conversion and progress does not go back, if conversions do not overlap. The
  history variable `mixed` tells overlaps: a Convert while an earlier process or
  reader still has output in flight, or a reader that opened the stream of
  another conversion. The handlers do not prevent either.
* `ConversionNoticed`: a conversion that is not stopped is seen to be complete,
  unless lines of its output were dropped with a `BufferedReader`. That case is
  real, and recorded per process in `lost`: the code makes a reader per eleven
  lines and a `BufferedReader` reads all that is available.
* `OldReadersEnd`: the thread of an earlier conversion always ends, even when
  it was blocked in `readLine` on a process which was then destroyed.

Of a frame (`image`):

* `OwnMemoryOnly`: on a clip whose frames all have APP1 data (`regular`), no
  object frees or uses memory that is not its own, although each starts with the
  pointers of the last one and the heap hands freed blocks out again.
* `NoteOfThisFrame`: gains, gamma and black levels come from the frame being
  written or are the defaults; the flips do if the note has 12 words, the
  composite fields if it has 14.
* `OneFieldPerBit`: a bit of a setting that changes shows in exactly one field.
* `PixelsInPlace`: both programs undo the camera's order wherever they have
  got to, and at the end no pixel is missing, for sides that are multiples of 16
  (`Multiple`). `Ends`: both come to an end with *any* size, `elphel_dng`'s strip
  loop only because it refuses sizes its strips cannot fill.
* `BlocksInPlace`: in every sampling, size and pattern of suspension each block
  of a scan lands in its own place inside the buffer, none is missing.
  `OneColourPerBlock`: for the JP4 sampling, `open` takes the pixels of a Bayer
  colour in a 16 by 16 block from one coded block. This is about movie2dng, which
  is built with the patched library; `elphel_dng` links whatever libjpeg the
  system has.
* `ReversesCamera`: where products fit an `int` (`Fits`) the walk stops inside
  the table, and for curves that start at black (`Dark`) the result is the inverse
  of the camera's table, flat stretches and clipped ends included.
* `CallsAreAccepted`, `StreamIsWhole`: the library refuses no call of the three
  functions for the state of its object, and a JPEG file that was closed has its
  parts in order, APP1 data before the frame header, with all its lines.

Of a DNG file (`dng`):

* `SensorColours`: without `--shift`, the image opened as its tag says shows
  green and red over blue and green, whatever was flipped. `TagKeepsTurns`: any
  sequence of turns shows what one turn by their sum shows, and the tag holds it.
* `IsByteStream`: `DNGStream` implements `ByteStream` up to the first careless
  use.
* `LinksHold`: in a complete file all offsets lead to what they stand for, on
  even places, to every directory that is not empty, and tags are sorted.
  `RowsInPlace`: as soon as a header is there, the rows of the images are all
  there, where the directories say; so a file that was cut short cannot be taken
  for a whole one. `NothingOverlaps`: no piece is written over another.
* `EachPixelOnce`, `TilesFit`: the nested iterators neither lose nor repeat a
  pixel; each tile fits the buffers, crosses no line of a pattern, and consists
  of whole unit cells if the area and the patterns do.
* `DigestOfImage`: what is transformed is the padded message of the pixels in
  order, whatever the buffer's size.

Of command lines and their callers (`tools`):

* `ReadAsGiven`: wherever options stand, the formats and flags are those named by
  an argument that is not another's value, an option that takes a value has the
  one said last or its default, and the words are the rest, in order.
* `CommandMeansSettings`: after any sequence of clicks movie2dng reads from the
  command what the window shows, for a source with an extension and without
  blanks and a frame limit that is not empty.
* `RequestEnds`, `AnswerIsComplete`: the proxy's request ends as long as no
  more follows the image than a pipe holds, and the answer is all that movie2dng
  wrote.
* `LastClipKept`: if no clip has a blank in its name, then whatever fails or is
  killed and whatever the names are otherwise, the last clip of a name is not
  lost, and a DNG lies in the folder of the clip it was made from. `FramesKept`:
  under the same condition and as long as `elphel_dng` does not fail, an extracted
  frame stays, as it is or converted, until a newer clip comes. Both fail with
  blanks (`Unspaced`): see `tools_blanks` in section 6.

**Bounds of the movie and GUI runs.** A clip of three frames has a first, a middle and a last frame, so
every relation of the range to the clip occurs (before, at, inside, at the end,
after), and the declared and real lengths differ in both directions.
File numbers are bounded by `MaxIndex`, more than the frames, so that running past the
range is visible; `NextFrame` does not go on beyond it, which cuts off only the
endless loop over a damaged clip. Two runs are enough for leftovers: a run
sees the earlier ones only through the files. The second one, in `FaultySpec`, comes
after a run over the whole clip and goes to its end, with any formats and failures. Two conversions give every
pair of an old reader and a new conversion; 2 lines a turn and pipes of 2 lines
make a turn end with and without lines read ahead; 11 lines would only put more
of the same between. The constants `MaxFrames`, `MaxIndex`, `MaxRuns`,
`MaxConversions`, `Frames`, `LinesPerTurn` and `PipeCapacity` are all the bounds
there are here; the proofs hold for all their values (section 5). The two liveness runs of the
GUI have conversions that succeed (`Outputs = {"frames"}`), since liveness over
all kinds of output takes too long; `gui_conversions` has all of them. Pipes of
one line, in `gui_readers`, never hold a line to read ahead, which a thread's
end does not depend on.

**Bounds of `image`.** Two objects (`MaxObjects`) and four blocks: a third frame
meets nothing that a second did not leave, and an object has three pointers.
Notes are absent or of 4, 8, 12 or 14 words, either side of every length the
code tests. `MaxChanges` 1: the property is about one bit, over the notes with
all bits 0, all 1, and a composite one. Sides of 16, 24 and 32 for deblocking:
one block, two, and a size that is no multiple. Scans of 8 to 40 pixels in five
samplings, one with more blocks than the ten of `MaxBlocks`, two suspensions
(`MaxSuspends`). The gamma table has four steps of four values (256 and 256 in
the code), `One` is 4 and an `int` has 256 values, so the product of two numbers
of the scale can overflow as it does in 32 bits; all rising curves are tried.
Three images (`MaxImages`) of one to three lines through libjpeg.

**Bounds of `dng`.** Images of 2×2, 4×2 and 2×4 (exchanging rows and columns
shows), three turns; streams of up to four bytes, requests of one and three, a
buffer of one byte and one of two, which counts as aligned (`Alignment` 2), so
requests are smaller than, equal to and larger than the buffer and go the
unbuffered way; directories of five entries at most with three added tags of each
class, and a file limit of 210 that some layouts exceed (2^32 in the code), so
the refusal occurs; areas of up to 6×4 at four origins, all combinations of
repeating tiles with aligned, shifted and negative origins, two unit cells and
two largest tiles; images of up to 5 rows of 1 to 20 pixels with blocks of 8
bytes and words of 8 bits, which end at every place of a block and overflow the
count by a sum and by a single piece.

**Bounds of `tools`.** Command lines of up to four arguments of 14 kinds: a
value taken by mistake needs two, a third and fourth show what is made of it.
Four sources (a file, one with a blank, two directories) and three destinations.
Image 5, header 2 and pipes of 3 units, results of 1 to 6 and up to 4 units
behind the image: sizes on either side of what one pipe and what both hold.
Three directories of two names: a clip and a copy whose folder is named like the
clip; a clip and one with a blank whose first word is the folder of the other; a
name that begins with `.mov` and one whose last four characters are not its
extension. Two frames, two runs of the script, in which the second meets all that
the first left.

## 4. Fairness and deadlock

`Movie2DNG!Fairness` is weak fairness of `Main`, the steps of the process: a
process that is not killed keeps being scheduled. Nothing is assumed of `Kill`
and `Rerun`. `ConverterGUI!Fairness` is weak fairness of the rest of a
handler that has begun, of every process and of every reader: the Java virtual machine and
the system run threads and processes that can run. Writing to a full pipe and
reading from an empty one are disabled, so nothing is assumed of them. The user
is not fair: no click ever has to happen.

`MCImage` has weak fairness of `DeblockNext`, a sequential program that keeps
running; `MCTools` of `Script` and of `Child`, the two processes of the proxy:
the system runs a process that can run, and one blocked on a pipe is not
enabled. `Ends` and `RequestEnds` need these. `IsByteStream` is a safety
property.

The `movie2dng_*` runs say `CHECK_DEADLOCK FALSE` because the program ends, and
because the number of runs and file numbers is bounded. `image`, `dng` and
`tools` say it as well: their programs end, and a proxy that waits for ever is what `RequestEnds` is about. The GUI
runs check deadlock; a user can always select a source.

## 5. What is proved

The theorems hold for every value of the constants that satisfies the
assumptions of the modules. Most of these say only what kind of value a constant
is (`MaxFramesAssumption`, `FaultsAssumption`, `ArgsAssumption`,
`GUIAssumption`, `JP4ObjectAssumption`, `JPEGObjectAssumption`,
`DeblockAssumption`, `DNGStreamAssumption`, `CommandLineAssumption`,
`JP4ProxyAssumption`, `BatchProcessAssumption`, `DNGFileAssumption`,
`RawDigestAssumption`, `GUICommandAssumption`: a pipe holds at least one unit, an image has at least one
line, a buffer at least one byte, the number of a
frame is no blank, the window has four check
boxes and a list of five entries). Six say more:

* `MakerNoteAssumption`: a maker note has at least eight words. Of a shorter one
  `readMakerNote` reads words behind the end, whose value nothing determines.
* `DNGMosaicAssumption`: sizes are even, as the tools take them from whole
  macroblocks, and `--shift` is between 0 and 3, or -1 when not given.
* `ScanOrderAssumption`: a scan has at least one component and sampling factors
  between 1 and 4, which `initial_setup` of libjpeg checks
  (`MAX_SAMP_FACTOR`).
* `ReverseTableAssumption`: the curve rises and ends at white, because `pow` rises
  with its argument, which is 1 at the end of the table; and a step of the table
  is more than two wide (256 in the code), since otherwise the middle of the last
  step would be white itself.
* `AreaTaskAssumption`: a repeating tile starts at or before the area, and the
  largest tile holds a unit cell, as with the SDK's own tasks (the constructors of
  `dng_fast_interpolator` and `dng_resample_task` see to it).
* `MD5Assumption`: words are one to four bytes wide, a block holds more than the
  length, and the bytes that the first word can count are whole blocks (2^29 and 64
  in the code). Without the last, the place in the buffer would jump when the word
  overflows.

### movie2dng (`Movie2DNG_proofs`)

* `TypeCorrect`: `Spec => []TypeOK`.
* `OutputsCorrect`: `Spec => []OutputsMatchIndex`.
* `TemporariesRemoved`: `Spec => []NoTemporaryLeft`.
* `InStepAlways`: `Spec => []InStepInv`.
* `OneLeftoverARun`: `Spec => []LeftoversBounded`.
* `ConvertsTheAnnounced`: `FramesArgs \subseteq Nat => (Spec => []AnnouncedIsConverted)`.
* `Refinement`: under `Noticed`, `Spec => Abstract!ExportSpec`.

The invariant of the first four is `Inv`: `TypeOK`, `InStepInv`,
`OutputsMatchIndex` and `NoTemporaryLeft` together. `OutputsMatchIndex` alone is
not inductive: when `Report` moves `count_frame` on, the current frame's files
join the finished ones, so it has to be known that they hold the current frame
(`CurrentFiles`). They do because the dump and the image hold it, which holds
because iterator, demuxer and `count_frame` were in step when the frame was read
(`InStep`, while nothing is damaged), which goes back to the seek loop
(`pc = "seek"`). That a later frame overwrites no earlier file needs
`count_frame` to grow from `CountStart` (`Progress`). For temporaries
`DumpRemoved` carries the fact from `Unlink` to `Report`. The proof that a step
preserves `Inv` has one step per action; `PutEffect` says what writing a file
changes and `RangeTypes` what the range arithmetic yields.

`LeftoverInv` adds to `Inv` that the leftovers, but for the dump of the frame the
run is at, are no more than the runs before. The dump of the frame in work may be
one of the leftovers already (`Interrupted`), which is why the bound of the
property is not inductive without that exception: a kill turns the frame in work
into a leftover at the moment at which the number of runs grows.

`AnnouncedInv` adds `AsAnnounced`: in the loop the number reported is what
`count_frame` has moved, the iterator's end is the announced one, and the range
lies in the clip. With a negative `--frames` the announced end can be 0, which
the iterator takes for the end of the clip; that is the second finding of section
6 and the reason for the hypothesis.

For the refinement `Noticed` says what the abstraction can see: every failure is
one that ends the process (`fopen` in the DNG and JPEG writers, `kill`), and
`--frames` is not negative. `ExportInv` then has `Intact` and `~damaged`, each
action is shown to be an export of the next frame, the report of success, an
abort, or a stutter (`Rerun` begins a new export).

### The window (`ConverterGUI_proofs`)

* `OneAtATime`: `Spec => []OneConversion`.
* `GUITypeCorrect`: `Spec => []TypeOK`.
* `ProgressOfCurrent`: `Spec => []ProgressIsCurrent`.
* `ProgressNeverBack`: `Spec => ProgressGoesOn`.

`ExclusionInv` adds to `OneConversion` that an enabled Convert button, and a
handler that has not reached `StartReader`, each imply that no process runs:
what enables Convert has stopped the process (`Stop`) or met none running
(`SelectSource`), and from the click to `Exec` no process can start. Since
`ForgetProcess` sets the process to null in between, `OneConversion` alone is
not inductive. Readers and writing processes leave all of this alone
(`ReadersOutside`).

`GUITypes` needs, beside `TypeOK`, that a reader in its turn has a stream and one
between its turns has no lines (`Attached`), and that no reader exists before its
conversion has begun (`NoReaderYet`); else a reader could use a null stream.

`ProgressInv` is about every interleaving of the event thread, all readers and
all processes, as long as no conversion saw another's output (`~mixed`): no
process runs, and no line waits in a pipe or a reader, when Convert is pressed,
and no reader opens the output of another conversion. Without that the fields do
get mixed up. `FlowInv`
follows the lines without that condition: a pipe holds the last lines its process
wrote, in order, and nothing comes from a conversion that has not begun. Under it
`Alone` says that no earlier process or reader can still deliver anything, and
`Conversion` that there is a number n of lines that `readLine` has gone through:
the line in use is the n-th of the script, what is buffered follows it, and both
the count shown and the number of lines the pipe may still hold are bounded by n
(`LineUpTo`). The number is existential, since lines vanish with a dropped
`BufferedReader` and no variable counts them.

### A frame (`JPEG_proofs`, `Image_proofs`)

* `OwnMemory`: `ObjectSpec => []OwnMemoryOnly`, and `NoteIsOfThisFrame`:
  `ObjectSpec => []NoteOfThisFrame`, for every number of objects and blocks. Both
  are about clips whose files all have APP1 data and no note of under eight words
  (`regular`), and the second about flips of notes of 12 words and composite
  fields of 14 (`WordsFor`); section 6 says what happens otherwise. The
  invariant `ObjectInv` says for each place of the code which members a regular
  frame has set (`WithApp1`, `WithData`, `WithExif`): those point to live blocks
  of this object and this frame, all others may point anywhere. New blocks are
  distinct from all that are live, which keeps two members from sharing one.
* `CallsAccepted`: `JpegSpec => []CallsAreAccepted`; `StreamsWhole`:
  `JpegSpec => []StreamIsWhole`, for any number of images of any height.
  `ObjectReady` is the state of the library's object before each numbered call;
  `StreamReady` adds what the stream holds there, and that a JPEG is written only
  after an `open` that saved the APP1 data.
* `FieldsApart`: `NoteSpec => OneFieldPerBit`, for maker notes of eight words or
  more, of any content. Every bit of the bytes is one bit of one word (`PlaceOf`);
  a field is a sum of different powers of two, so that one more bit makes
  another number (`FieldGrows`), and it changes exactly when the bit is one of
  its own (`FieldFlips`, and `ShiftedChanges` where the highest bit is a sign).
  Then each bit belongs to the field that `ChannelKey`, `FrameKey` or
  `CompositeKey` names, and never to two of them (`BitsApart`). That the community
  modules' `SumSet` adds up, whatever order its `CHOOSE` picks the elements in, is
  proved first (`SumsAddUp`, `SumSetAdds`).
* `PixelsPutBack`: `DeblockSpec => []PixelsInPlace`, for images of every size whose
  sides are multiples of 16 (`Multiple`).
  `Before` is the set of places a program has been at; `WalkInv` and `StripInv`
  say that `out` is right exactly there, for the walk over blocks and for strips
  of 16 lines delivered a few at a time. Lemmas on rows and columns
  (`RowAndColumn`, `PlaceIs`, `PixelOfBlock`, `BlockOfPixel`) show that blocks
  tile the image.
* `BlocksLieRight`: `ScanSpec => []BlocksInPlace`, for every size, sampling and
  suspension. `Right` says where a block of the scan belongs, `Placed` that those
  decoded so far are there, and `Standing` that the loop variables saved at a
  suspension are the first block that is missing.
* `ColoursTogether`: `ScanSpec => []OneColourPerBlock`: the order of the library
  and the table of `open` fit together.
* `TableReverses`: `TableSpec => []ReversesCamera`, for tables of any number of
  steps and values, where `Fits` and `Dark` hold: the scale is at least 1.0, its
  product with white is an `int`, which that of the default scale 0xffff is not, and
  the curve starts at black. `TableInv`: where products fit, the walk is at a step of the
  table whose lower end is below the value looked for (`WalkFound`), because the
  table rises (`TableIs`) and its last entry is white, more than any value looked
  for. So the bound of the loop, which the code tests after the entry it is to
  guard, is never needed. `Interpolated` is the arithmetic: the quotient
  and the remainder of the result name a step of the table and a place in it
  between which the value lies, also when the place falls on the step's far end.

### A DNG file (`DNG_proofs`, `DNGFile_proofs`, `RawDigest_proofs`)

* `StreamIsBytes`: `StreamSpec => IsByteStream`, the refinement of
  `ByteStream`, for buffers of any size and alignment. `StreamInv` relates buffer
  range, dirty flag, known length and store (`BufferTrue`, `LengthKnown`), and a
  Get on its way to the bytes it has delivered (`GetOnTheWay`), unless the stream
  was used carelessly: after an exception, or with a `SetLength` that cuts or a
  `Put` at least as large as the buffer behind a buffer that was read. Each action either is the abstract one or leaves the
  abstract state (`Stays`); the rounds of a Get and a flush are such.
* `TurnsKept`: `MosaicSpec => []TagKeepsTurns`; `ColoursOfSensor`:
  `MosaicSpec => []SensorColours`, for images of every even size and any number
  of turns. In `MosaicInv` the opened image is the stored one turned by the base
  orientation and the tag is that orientation's number (`AsTagged`); before that
  the base orientation is the one of the flips (`AsFlipped`). The lemmas are
  those of a group of eight elements: `PlusFlips`, `MinusUndoes`, `RotateTwice`.
* `PixelsOnce`: `AreaSpec => []EachPixelOnce`; `TilesFitTheTask`:
  `AreaSpec => []TilesFit`, for areas, repeating tiles, unit cells and largest
  tiles of any size. Along one axis the pages of an iterator follow one another
  and cover its area (`PagesMeet`), and the next tile is the first part of what is
  `Ahead`, the pixels the iterator has still to deliver. `Partition` lifts that to
  the loops: what each of them has ahead and what was processed are apart, and
  together they are the area, so that an inner loop that is entered takes over
  what its outer one gave away. `LoopGood` says that the area of each loop lies
  in one cell of every pattern of the loops around it, from which `TileGood`, the
  invariant behind `TilesFit`, follows when the innermost one delivers a tile.
* `FilePiecesApart`: `FileSpec => []NothingOverlaps`; `FileRowsInPlace`:
  `FileSpec => []RowsInPlace`; `FileLinksHold`: `FileSpec => []LinksHold`, for any
  tags of any lengths added in any order, images and buffers of any size and any
  limit of an offset. `FileInv` has a part for each stretch of the writer:
  `TagsRight` (sorted directories, and which of the links each of them has so far),
  `EarlyRight` (nothing is written before the layout), `ImagingRight` (what is
  written lies behind the `Room` of the directories; the rows of the current strip
  are there up to `row`, those of the strips before are complete unless the stream
  has passed the limit, which ends in an exception before the header) and
  `LateRight` (the directories written so far are there piece for piece and end
  where the stream is). `NothingOverlaps` is part of the invariant. The three
  properties rest on `SizesAgree` (a directory takes just the bytes that
  `DirectorySize` counted) and `DataInPlace` (its data is where its entries say).
  Both are about `LargeBefore`, a recursive function over the tags. The library's
  induction theorems cannot be used here, but a least element of a set of
  naturals is theirs to give without an operator for a parameter (`Least`), and
  induction for a *set* follows (`SetInduction`). With it `SumsExist` and
  `SumsGrow` are proved for prefix sums of any length, and `LargeBeforeSums` shows
  that the recursive function is such a sum.
* `DigestRight`: `DigestSpec => []DigestOfImage`, for images of any size and pixel,
  any number of rows in the buffer, blocks of any size and words of one to four
  bytes. `BytesInOrder` only relates bytes and says nothing of the count that
  tells the next place in the buffer. `DigestInv` does: the iterator is at one of
  its pages (`InOrder`), and the printer `Carries` the rows read so far, which is to
  say that its two words hold their number of bits (`WordsOf`), its whole blocks
  are transformed and the rest waits. `ProcessCarries` is about a piece of any
  length: less than what the block lacks, just that, or more, also when the count
  overflows its first word (`CountBitsIs`), whose span is a whole number of blocks
  (`PlaceOfCount`). `ResultIs` shows that padding and length end with a block and
  that nothing else is transformed; `EncodeIs`, that the bytes of the two words
  are the digits of one number, which the property defines by repeated division.
  The iterator's pages are consecutive (`NextPage`) and the last one ends with the
  image, so a tile goes on where the rows before it ended (`RowsGoOn`).

### The command line and its callers (`Tools_proofs`)

* `CommandLineRead`: `MainSpec => []ReadAsGiven`, for command lines of any length of
  any arguments.
  `OwnArguments`, which tells an argument from the value of the option before it,
  is a recursive function over the command line. Its value cannot be computed by
  induction here, so `MainInv` carries it along the run: `ReadUpTo(n)` says that
  there is a function which tells the first n arguments apart, and that with any
  such function the options say what these n arguments said (`AsRead`). One
  argument more extends the function (`OwnNext`) and every function for one more
  is such an extension (`OwnBefore`); at the end the function is `OwnArguments`.
* `AnswerComplete`: `ProxySpec => []AnswerIsComplete`; `NeverBothBlocked`: as long
  as no more than a pipe holds follows the image, one of the two processes can go
  on, for images, results and pipes of any size. `PipesHold` accounts for each
  unit: copied and not yet taken is in the one pipe, written and not yet read in
  the other; `InStep` says how far each process can be from the other. The
  theorem needs no fairness; that the request ends is `RequestEnds`, which does.
* `LastClipIsKept`: `BatchSpec => []LastClipKept`; `FramesAreKept`:
  `BatchSpec => []FramesKept`, for any names without a blank (`Unspaced`), any
  frames and any number of starts and kills. Without blanks every command gets one
  path of each that is pasted into it (`OneArgument`), and what `mv` does to several
  arguments comes down to moving one clip, or the frames of one clip
  (`MovedIs`, `MoveAllowed`, `Matched`). `BatchInv` speaks about the file system as
  a whole (`FileSystem`). `Tree`: each thing lies in directories, and where `Placed`
  says: a clip below the top in the folder of its name, a frame under its own name,
  and in `jp4s/` and `dngs/` nothing but frames, also when a folder's name makes it
  a clip for the next walk and the folder is moved with all that is in it (`Into`).
  `Homes`: beside each frame there is the clip it was made from or a later one of
  that name. `Ages`: in one folder a frame in `dngs/` is no newer than the one of
  the same name in `jp4s/`, and that no newer than one that was just extracted.
  Without `Ages` a frame of an earlier clip could replace one of the last clip
  when it is collected or converted. There is a lemma per command on what it does
  to such a file system (`MovesKeep`, `Extracts`, `Collects`, `Converts`,
  `Removes`, `DirsAdded`, `ClipAdded`). `MadeIn`, which holds between the
  conversion and the removal of `jp4s/`, says that each frame to be removed has
  its DNG file.
* `ShownIsRun`: `SettingsSpec => []CommandMeansSettings`, for any sources that have
  an extension and no blank, a frame field that is not empty where it counts, any
  directories and numbers and any of the window's boxes and list entries.
  `CommandInv` says that the command is the one of the present settings whenever
  the source has an extension and the field is not empty where it counts: a
  handler rebuilds the command, or it returns early or throws and one of the two
  does not hold. `CommandRead` is about movie2dng's side: over each part of the
  command the parser gets from one state to the next (`ReadsTo`, `ReadOn`), over
  the format options in any order `SetToSeq` may choose (`FormatsRead`), and the
  community modules' `FoldLeft` is shown to be this reading (`FoldReads`). The
  inductions are over sets, as in `DNGFile_proofs`.

### Only model-checked

The liveness properties `Termination`, `ConversionNoticed`, `OldReadersEnd`,
`Ends` and `RequestEnds` are out of the prover's reach: they need fairness and
ENABLED. Every invariant and every action property of the passing runs is proved.
The runs that are expected to end in a violation prove nothing beyond their
counterexample.

## 6. Where the code disagrees with its text

Four runs are expected to end in a violation. Each checks what the program's
own help or comments say.

1. *"--frames N: convert only N frames"* (`movie2dng.cpp:55`).
   `movie2dng_short_clip`: `main` ignores what `next` returns. When the clip
   ends before its header says, the iterator stands still, `hasNext` stays true,
   and the loop writes file after file from freed memory.
2. *"number of frames to convert. We silently crop …"* (`movie2dng.cpp:293`).
   `movie2dng_negative_frames`: a negative `--frames` is announced as such;
   when the computed end is 0 the iterator takes it as the end of the clip and
   converts the rest.
3. *"remove temporary jp4 file"* (`movie2dng.cpp:339`). `movie2dng_kept_jp4`: a
   run without `--jp4` also removes JP4 files which an earlier run with `--jp4`
   saved under the same names.
4. *"remove the jp4s/ folder"* (`BatchProcess/Readme.txt:18`). `tools_blanks`: the
   script pastes names into shell commands without quotes. With `a.mov` and
   `a b.mov` the last command is `rm a b/jp4s/ -r`, which removes the folder `a`
   with the clip and its DNG files. Lines 11, 18, 22, 27 and 31 cut such names as
   well.

The other disagreements show in the condition under which a property is
stated: it holds with the condition, and TLC finds the behaviour below as soon as
the condition is dropped. In five rows the last column names, instead, the part
of a module that does what the row says. `PROJECT.json` quotes the text each one
disagrees with.

| Where | What happens | Condition |
|---|---|---|
| `jp4.cpp:94` | a frame without APP1 data uses and frees what lay in the stack slot | `regular` in `OwnMemoryOnly` |
| `jp4.cpp:191` | a maker note of fewer than 12 words leaves the flips of the last frame, from which the Bayer order is derived | `WordsFor` in `NoteOfThisFrame` |
| `jp4.cpp:133` | an image with a side that is no multiple of 16 is not refused: the walk over blocks leaves its arrays | `Multiple` in `PixelsInPlace` |
| `gamma.cpp:42` | with the default scale 0xffff the `int` product overflows, the table falls below zero | `Fits` in `ReversesCamera` |
| `gamma.cpp:55` | with a scale below 0x400 the table ends below white: the walk reads the entry behind the last | `Fits` in `ReversesCamera` |
| `movie2dng.cpp:197` | a frame from standard input without `--stdout` makes a directory `-/` | action `ChooseName` of `CommandLine` |
| `movie2dng.cpp:193` | with `--stdout` and without DEST a movie is not refused, and its frames go to files under whatever lay on the stack: the name is never set | actions `ChooseName`, `ConvertMovie` of `CommandLine` |
| `movie2dng.cpp:242` | several formats of one image are refused with a message about `--stdout`, without `--stdout` | action `Refuse` of `CommandLine` |
| `Movie2DNGGUIView.java:572` | a source selected during a conversion enables Convert: a second process, and Stop reaches only that | `~reselected` in `OneConversion` |
| `Movie2DNGGUIView.java:565` | a path with a blank is cut, the first part becomes the source | `~source.spaced` in `CommandMeansSettings` |
| `Movie2DNGGUIView.java:847` | an empty frame limit makes the source a number and the destination the source | `FieldFilled` |
| `Movie2DNGGUIView.java:620` | after Select Destination a source can only be a directory, and the command stays that of the last source | `source.ext` |
| `Movie2DNGGUIView.java:627` | the destination chosen is cut at its last slash: frames go to its parent | `DestinationCustomPath` is the path after the cut |
| `jp4-proxy.php:55` | more than a pipe holds behind the image, and a result larger than a pipe: both processes wait for ever | `arriving <= Image + Capacity` in `RequestEnds` |
| `dng_stream.cpp:365` | after `SetLength` or a large `Put`, a Get returns buffered data that is no longer in the stream | `careless` in `IsByteStream` |
| `dng_stream.cpp:295` | a Get that throws leaves a buffer range that was never read | `careless` |
| `process.php:43` | `jp4s/` is removed although `elphel_dng` failed: the frame is lost | `allMade` in `FramesKept` |
| `process.php:27` | movie2dng is called without a format and prints its help: nothing is extracted | `extracts` in `BatchProcess` |

## 7. What is not modelled

* **Vendored code.** Most of the repository's lines are the DNG SDK, the XMP
  SDK, libtiff 3.8.2 and two copies of libjpeg, which the programs call and do not
  change. Modelled are the parts on movie2dng's way to a file and the part Elphel
  patched. Not modelled: entropy coding, DCT, colour conversion, multi-scan files
  and `consume_data` of libjpeg; rendering, reading, camera profiles, lossless
  JPEG and lens corrections of the DNG SDK, none of which `DNGWriter` reaches, and
  its threads, which exist only with `qDNGThreadSafe`; XMP and libtiff whole. That
  is why the modules stand for a small share of all lines, though for most of
  the project's own programs.
* The way `DNGWriter` writes a file uses tile iterators and the digest, not area
  tasks: `AreaTask` is about the SDK's own loop, which other users of it reach.
* **JP4**: `flipX` and `flipY`, which nothing calls, the text of PGM files and of
  EXIF values. **DNGWriter**: the list of EXIF values, straight-line copying.
  **elphel_dng**: the list of TIFF tags.
* **Movie2DNGGUI**: the log area, the version message, the percentage of the
  progress bar, the application shell and about box, which are generated window
  set-up. Its standard-error pipe is never read; how much libav writes there is
  not in this source.
* **BatchProcess**: of the characters that mean something to a shell only the blank
  is modelled, between two words; not a blank at either end of a name or two side by
  side, nor wildcards, quotes and a leading `-`. An `mv` of a directory to a name
  that is not there because PHP's `mkdir` failed would rename it; that case is left
  out. That `readdir` of a directory which could not be opened ends the script in
  newer versions of PHP is a `Kill`.
* **elphel-movie-indexer** prints one table in one loop and keeps no state.
* Java's memory model is taken as sequentially consistent at the grain of the
  actions: a field written by one thread is seen by the next step of another,
  although without `volatile` the Java virtual machine may delay it.
* In `Movie2DNG` a frame is a number: what is in it is the subject of the
  modules of section 2's second part, which no run composes with the movie loop.

## 8. Plan

Done, in this order, because the movie loop is what the programs are for and the
GUI is what runs concurrently: `MovieIterator`, `Movie2DNG`, `FrameExport`,
`ConverterGUI`; then the way of a frame through memory (`image`), of a file to
disk (`dng`), and the command line with its callers (`tools`); then the proofs of
section 5, first of the memory, the refinements and the window, then of the image,
the command line and its callers.

The last proofs were those of the file (`DNGFile_proofs`), of its digest
(`RawDigest_proofs`), of the window's command line (`ShownIsRun`) and of the
fields of the maker note (`FieldsApart`). With them every safety property of the
passing runs has a proof; the liveness properties are left to TLC.
