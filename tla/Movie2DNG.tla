----------------------------- MODULE Movie2DNG -----------------------------
(***************************************************************************)
(* main() of src/Movie2DNG/src/movie2dng.cpp for a movie source: it makes  *)
(* the output directory, opens the clip, computes the range of frames, and *)
(* for each frame dumps the JP4 data to a file, decodes that file, writes  *)
(* the requested formats and removes the dump again unless --jp4 was       *)
(* given.  The process can be killed between any two steps (the GUI's Stop *)
(* button does it), and the program can be run again over the same files.  *)
(***************************************************************************)
EXTENDS MovieIterator, FiniteSets

CONSTANTS
  StartArgs, FramesArgs, CountArgs,  \* values of --start, --frames and
                                     \* --count-start the user may give
  FormatSets,                        \* the sets of output formats tried
  MaxIndex,                          \* bound on the number in a file name
  MaxRuns                            \* bound on the runs over one directory

Formats == {"jp4", "dng", "pgm", "jpeg"}

ASSUME ArgsAssumption ==
  /\ StartArgs \subseteq Int
  /\ FramesArgs \subseteq Int
  /\ CountArgs \subseteq Int
  /\ FormatSets \subseteq (SUBSET Formats) \ {{}}
  /\ MaxIndex \in Nat
  /\ MaxRuns \in Nat

Options == [start : StartArgs, frames : FramesArgs, count : CountArgs,
            formats : FormatSets]

VARIABLES
  opts,        \* the command line of this run
  pc,          \* where main() is, or how the process ended
  outDir,      \* what is at the path of the directory main() makes; "given"
               \* when the user named DEST and it makes none
  disk,        \* disk[f][i]: what DEST-i.f holds
  count_frame, \* number of the next output file
  image,       \* what the JP4 object holds after open()
  frame,       \* number of the frame next() delivered last
  reported,    \* number of frames reported on standard output
  damaged,     \* history: something failed in this run and main() went on
  kept,        \* history: JP4 files saved by earlier runs with --jp4
  run          \* history: number of runs started

mainVars == <<opts, pc, outDir, disk, count_frame, image, frame, reported>>
vars == <<clip, iterVars, mainVars, damaged, kept, run>>

Index == 0..MaxIndex
OutDirs == {"given", "absent", "dir", "file"}
Body == {"fopen", "fwrite", "open", "dng", "pgm", "jpeg", "unlink", "report"}
Loop == {"loop"} \cup Body
Running == Loop \cup {"setup", "movie", "range", "seek"}
Ended == {"ok", "error", "killed"}

-----------------------------------------------------------------------------
(* The range of frames, from the options. *)

StartAfterEnd == opts.start # 0 /\ opts.start > clip.nb_frames

StartFrame == IF opts.start > 1 THEN opts.start ELSE 1

\* Mutant: --count-start 0 counts as not given, and a negative value as given.
CountStartNonZero == IF opts.count # 0 THEN opts.count ELSE StartFrame

CountStart == IF opts.count >= 0 THEN opts.count ELSE StartFrame

\* "We silently crop the frame number if it goes above last frame."
NFrames ==
  IF opts.frames # 0 /\ StartFrame + opts.frames <= clip.nb_frames + 1
  THEN opts.frames
  ELSE clip.nb_frames - StartFrame + 1

\* The frame a file numbered i is meant to hold, and the files done so far.
FrameOf(i) == StartFrame + (i - CountStart)
Finished == CountStart..(count_frame - 1)

-----------------------------------------------------------------------------
(* A process that has just started. *)
Init ==
  /\ clip \in Clips
  /\ outDir \in OutDirs
  /\ disk = [f \in Formats |-> [i \in Index |-> Absent]]
  /\ kept = {}
  /\ run = 1
  /\ opts \in Options
  /\ pc = "setup"
  /\ pos = 0 /\ start = 1 /\ end = 0 /\ currentFrame = 0
  /\ frameData = Empty /\ image = Empty
  /\ count_frame = 0 /\ frame = 0 /\ reported = 0
  /\ damaged = FALSE

Goto(label) == pc' = label

\* Without DEST the frames go to a directory named after the clip.
MakeDir ==
  /\ pc = "setup"
  /\ \/ /\ outDir \in {"given", "dir"}
        /\ Goto("movie")
        /\ UNCHANGED outDir
     \/ /\ outDir = "absent"
        /\ outDir' = "dir"
        /\ Goto("movie")
     \/ /\ outDir \in {"absent", "file"}
        /\ Goto("error")
        /\ UNCHANGED outDir
  /\ UNCHANGED <<clip, iterVars, opts, disk, count_frame, image, frame,
                 reported, damaged, kept, run>>

\* Movie::open fails on what is not a clip libavcodec can decode.
OpenMovie ==
  /\ pc = "movie"
  /\ Goto("range") \/ Goto("error")
  /\ UNCHANGED <<clip, iterVars, opts, outDir, disk, count_frame, image,
                 frame, reported, damaged, kept, run>>

\* The range, the first line of output, and the iterator over the range.
SetRange ==
  /\ pc = "range"
  /\ \/ /\ StartAfterEnd
        /\ Goto("error")
        /\ UNCHANGED <<iterVars, count_frame>>
     \/ /\ ~StartAfterEnd
        /\ count_frame' = CountStart
        /\ Construct(StartFrame, StartFrame + NFrames - 1)
        /\ Goto("seek")
  /\ UNCHANGED <<clip, opts, outDir, disk, image, frame, reported, damaged,
                 kept, run>>

Seek ==
  /\ pc = "seek"
  /\ \/ SeekOk /\ UNCHANGED <<pc, damaged>>
     \/ SeekFails /\ damaged' = TRUE /\ UNCHANGED pc
     \/ SeekDone /\ Goto("loop") /\ UNCHANGED damaged
  /\ UNCHANGED <<clip, opts, outDir, disk, count_frame, image, frame,
                 reported, kept, run>>

-----------------------------------------------------------------------------
(* The body of the loop. *)

\* main() ignores what next() returns.
NextFrame ==
  /\ pc = "loop"
  /\ count_frame <= MaxIndex
  /\ \/ NextOk /\ frame' = currentFrame /\ UNCHANGED damaged
     \/ NextFails /\ damaged' = TRUE /\ UNCHANGED frame
  /\ Goto("fopen")
  /\ UNCHANGED <<clip, opts, outDir, disk, count_frame, image, reported,
                 kept, run>>

Put(f, data) == disk' = [disk EXCEPT ![f][count_frame] = data]

\* fopen truncates the file; failing that, main() gives up with -3.
OpenDump ==
  /\ pc = "fopen"
  /\ \/ Put("jp4", Empty) /\ Goto("fwrite")
     \/ "fopen" \in Faults /\ UNCHANGED disk /\ Goto("error")
  /\ UNCHANGED <<clip, iterVars, opts, outDir, count_frame, image, frame,
                 reported, damaged, kept, run>>

\* The results of fwrite and fclose are ignored: a full disk cuts the file.
WriteDump ==
  /\ pc = "fwrite"
  /\ \/ Put("jp4", frameData) /\ UNCHANGED damaged
     \/ "shortWrite" \in Faults /\ Put("jp4", Junk) /\ damaged' = TRUE
  /\ Goto("open")
  /\ UNCHANGED <<clip, iterVars, opts, outDir, count_frame, image, frame,
                 reported, kept, run>>

\* Mutant: main() goes on with the next frame when a dump cannot be decoded.
OpenJP4Skips ==
  /\ pc = "open"
  /\ LET data == disk["jp4"][count_frame] IN
       \/ /\ data \notin {Empty, Absent}
          /\ image' = data
          /\ Goto("dng")
       \/ /\ data \in {Empty, Junk, Absent} \/ "fopen" \in Faults
          /\ UNCHANGED image
          /\ Goto("report")
  /\ UNCHANGED <<clip, iterVars, opts, outDir, disk, count_frame, frame,
                 reported, damaged, kept, run>>

\* JP4::open.  libjpeg's standard error handler ends the process on data
\* without a usable header, the empty file among them, and only warns when
\* the compressed data stops early.  A null FILE pointer, when the file cannot
\* be opened again, is read through all the same.
OpenJP4 ==
  /\ pc = "open"
  /\ LET data == disk["jp4"][count_frame] IN
       \/ /\ data \notin {Empty, Absent}
          /\ image' = data
          /\ Goto("dng")
       \/ /\ data \in {Empty, Junk, Absent} \/ "fopen" \in Faults
          /\ UNCHANGED image
          /\ Goto("error")
  /\ UNCHANGED <<clip, iterVars, opts, outDir, disk, count_frame, frame,
                 reported, damaged, kept, run>>

\* One output format: nothing to do, written, or the file cannot be opened.
\* dng_file_stream throws, and writeJPEG uses the null FILE pointer: both
\* end the process.  writePGM just returns.
Convert(f, next) ==
  /\ pc = f
  /\ \/ f \notin opts.formats /\ UNCHANGED <<disk, damaged>> /\ Goto(next)
     \/ f \in opts.formats /\ Put(f, image) /\ UNCHANGED damaged /\ Goto(next)
     \/ /\ f \in opts.formats /\ "fopen" \in Faults
        /\ UNCHANGED disk
        /\ IF f = "pgm" THEN damaged' = TRUE /\ Goto(next)
                        ELSE UNCHANGED damaged /\ Goto("error")
  /\ UNCHANGED <<clip, iterVars, opts, outDir, count_frame, image, frame,
                 reported, kept, run>>

WriteDNG  == Convert("dng", "pgm")
WritePGM  == Convert("pgm", "jpeg")
WriteJPEG == Convert("jpeg", "unlink")

\* Mutant: the dump is kept when something went wrong.
UnlinkUnlessDamaged ==
  /\ pc = "unlink"
  /\ IF "jp4" \in opts.formats \/ damaged THEN UNCHANGED disk
                                         ELSE Put("jp4", Absent)
  /\ Goto("report")
  /\ UNCHANGED <<clip, iterVars, opts, outDir, count_frame, image, frame,
                 reported, damaged, kept, run>>

\* Mutant: the dump is removed whether or not --jp4 was given.
UnlinkAlways ==
  /\ pc = "unlink"
  /\ Put("jp4", Absent)
  /\ Goto("report")
  /\ UNCHANGED <<clip, iterVars, opts, outDir, count_frame, image, frame,
                 reported, damaged, kept, run>>

\* "remove temporary jp4 file"
Unlink ==
  /\ pc = "unlink"
  /\ IF "jp4" \in opts.formats THEN UNCHANGED disk ELSE Put("jp4", Absent)
  /\ Goto("report")
  /\ UNCHANGED <<clip, iterVars, opts, outDir, count_frame, image, frame,
                 reported, damaged, kept, run>>

Report ==
  /\ pc = "report"
  /\ reported' = reported + 1
  /\ count_frame' = count_frame + 1
  /\ Goto("loop")
  /\ UNCHANGED <<clip, iterVars, opts, outDir, disk, image, frame, damaged,
                 kept, run>>

Finish ==
  /\ pc = "loop"
  /\ ~hasNext
  /\ Goto("ok")
  /\ UNCHANGED <<clip, iterVars, opts, outDir, disk, count_frame, image,
                 frame, reported, damaged, kept, run>>

-----------------------------------------------------------------------------
(* The environment. *)

BeingWritten == IF pc = "fwrite" THEN {"jp4"} ELSE {pc} \cap opts.formats

\* A signal ends the process; the file being written may be left cut.
Kill ==
  /\ "kill" \in Faults
  /\ pc \in Running
  /\ UNCHANGED disk \/ \E f \in BeingWritten : Put(f, Junk)
  /\ Goto("killed")
  /\ UNCHANGED <<clip, iterVars, opts, outDir, count_frame, image, frame,
                 reported, damaged, kept, run>>

\* The user runs movie2dng again on the same clip and destination.
Rerun ==
  /\ pc \in Ended
  /\ run < MaxRuns
  /\ run' = run + 1
  /\ kept' = IF "jp4" \in opts.formats
             THEN kept \cup Finished
             ELSE kept
  /\ opts' \in Options
  /\ pc' = "setup"
  /\ pos' = 0 /\ start' = 1 /\ end' = 0 /\ currentFrame' = 0
  /\ frameData' = Empty /\ image' = Empty
  /\ count_frame' = 0 /\ frame' = 0 /\ reported' = 0
  /\ damaged' = FALSE
  /\ UNCHANGED <<clip, outDir, disk>>

Main ==
  \/ MakeDir \/ OpenMovie \/ SetRange \/ Seek \/ NextFrame \/ OpenDump
  \/ WriteDump \/ OpenJP4 \/ WriteDNG \/ WritePGM \/ WriteJPEG \/ Unlink
  \/ Report \/ Finish

Next == Main \/ Kill \/ Rerun

\* A process that is not killed keeps being scheduled.
Fairness == WF_vars(Main)

Spec == Init /\ [][Next]_vars
FairSpec == Spec /\ Fairness

-----------------------------------------------------------------------------
(* Properties. *)

TypeOK ==
  /\ clip \in Clips
  /\ pos \in 0..MaxFrames
  /\ start \in Nat \ {0}
  /\ end \in Int
  /\ currentFrame \in Nat
  /\ frameData \in Data
  /\ opts \in Options
  /\ pc \in Running \cup Ended
  /\ outDir \in OutDirs
  /\ disk \in [Formats -> [Index -> Data \cup {Absent}]]
  /\ count_frame \in Nat
  /\ pc \in Body => count_frame \in Index
  /\ image \in Data
  /\ frame \in Nat
  /\ reported \in Nat
  /\ damaged \in BOOLEAN
  /\ kept \subseteq Nat
  /\ run \in Nat

\* As long as nothing went wrong unnoticed, every file of every requested
\* format numbered below the current one holds the frame its number stands
\* for: main() counts frames in count_frame, the iterator in currentFrame and
\* the demuxer in packets, and the three never drift apart, whatever the
\* range, the renumbering, the files left by other runs and the failures that
\* are reported.
OutputsMatchIndex ==
  ~damaged => \A i \in Finished, f \in opts.formats : disk[f][i] = FrameOf(i)

\* A run without --jp4 has removed the dump of every frame it is done with,
\* also one that an earlier run left there, and even after a failed read.
NoTemporaryLeft ==
  "jp4" \notin opts.formats => \A i \in Finished : disk["jp4"][i] = Absent

\* The JP4 files that no run with --jp4 has completed: the dumps of the frames
\* at which runs were interrupted.  Each run leaves one at most.
Saved == kept \cup (IF "jp4" \in opts.formats THEN Finished ELSE {})
Leftovers == {i \in Index : disk["jp4"][i] # Absent} \ Saved
LeftoversBounded == Cardinality(Leftovers) <= run

\* A run that ends normally has converted exactly the frames it announced on
\* its first line of output, and reported each of them.
AnnouncedIsConverted ==
  pc = "ok" /\ ~damaged => /\ Cardinality(Finished) = NFrames
                           /\ reported = NFrames

\* On an undamaged clip movie2dng implements FrameExport, the exported frames
\* being those that the finished files of every requested format hold.
Exported == {k \in 1..MaxFrames :
               \A f \in opts.formats : \E i \in Finished : disk[f][i] = k}

Status == CASE pc = "ok" -> "ok"
            [] pc \in {"error", "killed"} -> "stopped"
            [] OTHER -> "running"

Abstract == INSTANCE FrameExport WITH
  range    <- [first |-> StartFrame, last |-> StartFrame + NFrames - 1],
  exported <- Exported,
  status   <- Status

ImplementsFrameExport == Abstract!ExportSpec

\* "--frames N: convert only N frames" (the help text): a run never reports, nor
\* writes, more frames than it was asked for, whatever is wrong with the clip.
OnlyNFrames == opts.frames > 0 => reported <= opts.frames

\* A run removes only the dumps it made itself: the JP4 files that an earlier
\* run was told to keep are still there.
KeptSurvive == \A i \in kept : disk["jp4"][i] # Absent

\* A conversion ends.  The demuxer delivers all the frames the header of the
\* clip declares; any other failure, a signal and any range are allowed.
Intact == clip.packets >= clip.nb_frames /\ "read" \notin Faults
Termination == (Intact /\ pc = "setup") ~> (pc \in Ended)

-----------------------------------------------------------------------------
(* The inductive invariant behind OutputsMatchIndex and NoTemporaryLeft. *)

\* The iterator and the demuxer while nothing has failed.
InStep ==
  /\ pc = "seek" =>
       /\ start = StartFrame
       /\ currentFrame < start
       /\ pos = currentFrame
  /\ pc = "loop" =>
       /\ currentFrame = FrameOf(count_frame)
       /\ pos = currentFrame - 1
  /\ pc \in Body =>
       /\ currentFrame = FrameOf(count_frame) + 1
       /\ pos = currentFrame - 1
       /\ frame = FrameOf(count_frame)
       /\ frameData = FrameOf(count_frame)

\* The files of the current frame that are complete hold that frame.
CurrentFiles ==
  LET Complete(f) == disk[f][count_frame] = FrameOf(count_frame) IN
    /\ pc \in {"open", "dng", "pgm", "jpeg", "unlink"} => Complete("jp4")
    /\ pc \in {"dng", "pgm", "jpeg", "unlink", "report"} =>
         image = FrameOf(count_frame)
    /\ "dng" \in opts.formats /\ pc \in {"pgm", "jpeg", "unlink", "report"} =>
         Complete("dng")
    /\ "pgm" \in opts.formats /\ pc \in {"jpeg", "unlink", "report"} =>
         Complete("pgm")
    /\ "jpeg" \in opts.formats /\ pc \in {"unlink", "report"} =>
         Complete("jpeg")
    /\ "jp4" \in opts.formats /\ pc = "report" => Complete("jp4")

Progress ==
  /\ pc \in {"setup", "movie", "range"} => count_frame = 0 /\ pos = 0
  /\ pc = "seek" => count_frame = CountStart
  /\ pc \in Loop => count_frame >= CountStart
  /\ Finished \subseteq Index

DumpRemoved ==
  pc = "report" /\ "jp4" \notin opts.formats =>
    disk["jp4"][count_frame] = Absent

InStepInv ==
  /\ Progress
  /\ DumpRemoved
  /\ ~damaged => InStep /\ CurrentFiles
=============================================================================
