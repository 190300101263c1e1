--------------------------- MODULE Movie2DNG_proofs ---------------------------
(***************************************************************************)
(* Theorems about Movie2DNG and their proofs.                              *)
(***************************************************************************)
EXTENDS Movie2DNG, FiniteSetTheorems, TLAPS

Disks == [Formats -> [Index -> Data \cup {Absent}]]

\* The files after fopen, fwrite, unlink or a writer touched DEST-i.f.
LEMMA PutEffect ==
  ASSUME disk \in Disks, NEW f \in Formats, NEW d \in Data \cup {Absent},
         Put(f, d)
  PROVE  /\ disk' \in Disks
         /\ \A g \in Formats, i \in Index :
              disk'[g][i] = IF g = f /\ i = count_frame THEN d ELSE disk[g][i]
  BY DEF Put, Disks

\* The numbers main() computes from the options are in the ranges it relies on.
LEMMA RangeTypes ==
  ASSUME TypeOK
  PROVE  /\ opts.start \in Int /\ opts.frames \in Int /\ opts.count \in Int
         /\ opts.formats \subseteq Formats
         /\ clip.nb_frames \in Nat /\ clip.packets \in Nat
         /\ clip.packets <= MaxFrames
         /\ StartFrame \in Nat \ {0}
         /\ CountStart \in Nat
         /\ NFrames \in Int
  <1>1. opts.start \in StartArgs /\ opts.frames \in FramesArgs
        /\ opts.count \in CountArgs /\ opts.formats \in FormatSets
    BY DEF TypeOK, Options
  <1>2. /\ opts.start \in Int /\ opts.frames \in Int /\ opts.count \in Int
        /\ opts.formats \subseteq Formats
    BY <1>1, ArgsAssumption
  <1>3. /\ clip.nb_frames \in Nat /\ clip.packets \in Nat
        /\ clip.packets <= MaxFrames
    BY MaxFramesAssumption DEF TypeOK, Clips
  <1>4. StartFrame \in Nat \ {0}
    BY <1>2 DEF StartFrame
  <1>5. CountStart \in Nat /\ NFrames \in Int
    BY <1>2, <1>3, <1>4 DEF CountStart, NFrames
  <1> QED BY <1>2, <1>3, <1>4, <1>5

LEMMA InitTypeOK == Init => TypeOK
  <1> SUFFICES ASSUME Init PROVE TypeOK
    OBVIOUS
  <1>1. disk \in Disks
    BY DEF Init, Disks
  <1>2. /\ pos \in 0..MaxFrames /\ start \in Nat \ {0} /\ end \in Int
        /\ currentFrame \in Nat /\ count_frame \in Nat /\ frame \in Nat
        /\ reported \in Nat /\ run \in Nat /\ frameData \in Data
        /\ image \in Data /\ kept \subseteq Nat
    BY MaxFramesAssumption DEF Init, Data, Empty
  <1> QED BY <1>1, <1>2 DEF Init, TypeOK, Disks, Running, Body

LEMMA NextTypeOK == TypeOK /\ [Next]_vars => TypeOK'
  <1> SUFFICES ASSUME TypeOK, [Next]_vars PROVE TypeOK'
    OBVIOUS
  <1>d. disk \in Disks
    BY DEF TypeOK, Disks
  <1>1. CASE MakeDir
    BY <1>1 DEF MakeDir, TypeOK, Goto, iterVars, Running, Loop, Body, Ended,
           OutDirs
  <1>2. CASE OpenMovie
    BY <1>2 DEF OpenMovie, TypeOK, Goto, iterVars, Running, Loop, Body, Ended
  <1>3. CASE SetRange
    <2>1. CASE StartAfterEnd
      BY <1>3, <2>1
      DEF SetRange, TypeOK, Goto, iterVars, Running, Loop, Body, Ended
    <2>2. CASE ~StartAfterEnd
      <3>1. /\ start' = IterStart(StartFrame)
            /\ end' = IterEnd(StartFrame + NFrames - 1)
            /\ currentFrame' = 0 /\ count_frame' = CountStart
            /\ pc' = "seek"
            /\ UNCHANGED <<pos, frameData, clip, opts, outDir, disk, image,
                           frame, reported, damaged, kept, run>>
        BY <1>3, <2>2 DEF SetRange, Construct, Goto
      <3>2. start' \in Nat \ {0} /\ end' \in Int /\ count_frame' \in Nat
        BY <3>1, RangeTypes DEF IterStart, IterEnd
      <3> QED BY <3>1, <3>2 DEF TypeOK, Running, Body
    <2> QED BY <2>1, <2>2
  <1>4. CASE Seek
    <2>1. /\ UNCHANGED <<start, end, frameData, clip, opts, outDir, disk,
                        count_frame, image, frame, reported, kept, run>>
          /\ currentFrame' = currentFrame + 1
          /\ damaged' \in BOOLEAN
          /\ pc' \in Running \ Body
          /\ pos' = pos \/ (pos < clip.packets /\ pos' \in {pos, pos + 1})
      BY <1>4
      DEF Seek, SeekOk, SeekFails, SeekDone, SeekFrame, ReadOk, ReadFails,
          TypeOK, Goto, Running, Loop, Body
    <2>2. pos' \in 0..MaxFrames /\ currentFrame' \in Nat
      BY <2>1, RangeTypes, MaxFramesAssumption DEF TypeOK
    <2> QED BY <2>1, <2>2 DEF TypeOK
  <1>5. CASE NextFrame
    <2>b. count_frame \in Index /\ UNCHANGED count_frame
      BY <1>5, ArgsAssumption DEF NextFrame, TypeOK, Index
    <2>1. CASE NextOk /\ frame' = currentFrame /\ UNCHANGED damaged
      <3>1. /\ pos < clip.packets /\ pos' = pos + 1 /\ frameData' = pos + 1
            /\ currentFrame' = currentFrame + 1
            /\ UNCHANGED <<start, end>>
        BY <2>1 DEF NextOk, ReadOk
      <3>2. /\ pos' \in 0..MaxFrames /\ frameData' \in Data
            /\ currentFrame' \in Nat /\ frame' \in Nat
        BY <2>1, <3>1, RangeTypes, MaxFramesAssumption DEF TypeOK, Data
      <3> QED
        BY <1>5, <2>1, <3>1, <3>2, <2>b
        DEF NextFrame, TypeOK, Goto, Running, Loop, Body
    <2>2. CASE NextFails /\ damaged' = TRUE /\ UNCHANGED frame
      <3>1. /\ pos' = pos \/ (pos < clip.packets /\ pos' \in {pos, pos + 1})
            /\ frameData' \in {frameData, Junk}
            /\ UNCHANGED <<start, end, currentFrame>>
        BY <2>2 DEF NextFails, ReadFails
      <3>2. pos' \in 0..MaxFrames /\ frameData' \in Data
        BY <3>1, RangeTypes, MaxFramesAssumption DEF TypeOK, Data
      <3> QED
        BY <1>5, <2>2, <3>1, <3>2, <2>b
        DEF NextFrame, TypeOK, Goto, Running, Loop, Body
    <2> QED BY <1>5, <2>1, <2>2 DEF NextFrame
  <1>6. CASE OpenDump
    <2>1. disk' \in Disks
      BY <1>6, <1>d, PutEffect DEF OpenDump, Formats, Data, Empty
    <2> QED
      BY <1>6, <2>1
      DEF OpenDump, TypeOK, Disks, Goto, iterVars, Running, Loop, Body, Ended
  <1>7. CASE WriteDump
    <2>1. frameData \in Data /\ Junk \in Data
      BY DEF TypeOK, Data
    <2>2. disk' \in Disks
      BY <1>7, <1>d, <2>1, PutEffect DEF WriteDump, Formats
    <2> QED
      BY <1>7, <2>2
      DEF WriteDump, TypeOK, Disks, Goto, iterVars, Running, Loop, Body
  <1>8. CASE OpenJP4
    <2>1. image' \in Data
      <3>1. CASE UNCHANGED image
        BY <3>1 DEF TypeOK
      <3>2. CASE /\ disk["jp4"][count_frame] # Absent
                 /\ image' = disk["jp4"][count_frame]
        <4>1. count_frame \in Index /\ "jp4" \in Formats
          BY <1>8 DEF OpenJP4, TypeOK, Body, Formats
        <4> QED BY <3>2, <4>1 DEF TypeOK
      <3> QED BY <1>8, <3>1, <3>2 DEF OpenJP4
    <2> QED
      BY <1>8, <2>1
      DEF OpenJP4, TypeOK, Goto, iterVars, Running, Loop, Body, Ended
  <1>9. ASSUME NEW f \in Formats \ {"jp4"}, NEW l \in Body,
               Convert(f, l)
        PROVE  TypeOK'
    <2>1. image \in Data \cup {Absent}
      BY DEF TypeOK
    <2>2. disk' \in Disks
      BY <1>9, <1>d, <2>1, PutEffect DEF Convert
    <2>3. /\ damaged' \in BOOLEAN /\ pc' \in Body \cup Ended
          /\ pc \in Body /\ count_frame' = count_frame
      BY <1>9 DEF Convert, TypeOK, Goto, Ended, Formats, Body
    <2> QED BY <1>9, <2>2, <2>3 
    DEF Convert, TypeOK, Disks, iterVars, Running, Loop, Body, Ended
  <1>10. CASE Unlink
    <2>1. disk' \in Disks
      BY <1>10, <1>d, PutEffect DEF Unlink, Formats
    <2> QED
      BY <1>10, <2>1
      DEF Unlink, TypeOK, Disks, Goto, iterVars, Running, Loop, Body
  <1>11. CASE Report
    BY <1>11 DEF Report, TypeOK, Goto, iterVars, Running, Loop, Body
  <1>12. CASE Finish
    BY <1>12 DEF Finish, TypeOK, Goto, iterVars, Ended, Body
  <1>13. CASE Kill
    <2>1. BeingWritten \subseteq Formats
      BY RangeTypes DEF BeingWritten, Formats
    <2>2. disk' \in Disks
      BY <1>13, <1>d, <2>1, PutEffect DEF Kill, Data
    <2> QED
      BY <1>13, <2>2 DEF Kill, TypeOK, Disks, Goto, iterVars, Ended, Body
  <1>14. CASE Rerun
    <2>1. Finished \subseteq Nat
      BY RangeTypes DEF Finished, TypeOK
    <2>2. kept' \subseteq Nat
      BY <1>14, <2>1 DEF Rerun, TypeOK
    <2>3. /\ pos' \in 0..MaxFrames /\ start' \in Nat \ {0} /\ end' \in Int
          /\ currentFrame' \in Nat /\ count_frame' \in Nat /\ frame' \in Nat
          /\ reported' \in Nat /\ run' \in Nat /\ frameData' \in Data
          /\ image' \in Data
      BY <1>14, MaxFramesAssumption DEF Rerun, TypeOK, Data, Empty
    <2> QED BY <1>14, <2>2, <2>3 DEF Rerun, TypeOK, Running, Body
  <1>15. CASE UNCHANGED vars
    BY <1>15 DEF vars, mainVars, iterVars, TypeOK
  <1> QED
    BY <1>1, <1>2, <1>3, <1>4, <1>5, <1>6, <1>7, <1>8, <1>9, <1>10, <1>11,
       <1>12, <1>13, <1>14, <1>15
    DEF Next, Main, WriteDNG, WritePGM, WriteJPEG, Formats, Loop, Body

\* Every variable keeps its type, whatever the clip, the options, the failures
\* of the environment and the number of runs.
THEOREM TypeCorrect == Spec => []TypeOK
  BY InitTypeOK, NextTypeOK, PTL DEF Spec

-----------------------------------------------------------------------------
Inv == TypeOK /\ InStepInv /\ OutputsMatchIndex /\ NoTemporaryLeft

LEMMA InitInv == Init => Inv
  <1> SUFFICES ASSUME Init PROVE Inv
    OBVIOUS
  <1>1. TypeOK
    BY InitTypeOK
  <1>2. Finished = {}
    BY <1>1, RangeTypes DEF Init, Finished
  <1> QED
    BY <1>1, <1>2
    DEF Init, Inv, InStepInv, Progress, DumpRemoved, InStep, CurrentFiles,
        OutputsMatchIndex, NoTemporaryLeft, Loop, Body

\* Writing the files of the current frame leaves the finished ones alone.
LEMMA FinishedKept ==
  ASSUME Inv, NEW f \in Formats, NEW d \in Data \cup {Absent}, Put(f, d)
  PROVE  \A g \in Formats, i \in Finished : disk'[g][i] = disk[g][i]
  <1>1. disk \in Disks /\ Finished \subseteq Index
    BY DEF Inv, TypeOK, Disks, InStepInv, Progress
  <1>2. \A i \in Finished : i # count_frame
    BY RangeTypes DEF Inv, TypeOK, Finished
  <1> QED BY <1>1, <1>2, PutEffect

\* A step of the body of the loop that leaves the finished files and the
\* counters alone keeps what is known of the finished files.
LEMMA FinishedInv ==
  ASSUME Inv, UNCHANGED <<opts, count_frame>>, damaged => damaged',
         damaged' \in BOOLEAN,
         \A g \in Formats, i \in Finished : disk'[g][i] = disk[g][i]
  PROVE  /\ OutputsMatchIndex' /\ NoTemporaryLeft'
         /\ Finished' = Finished
         /\ \A i : FrameOf(i)' = FrameOf(i)
  <1>1. Finished' = Finished /\ \A i : FrameOf(i)' = FrameOf(i)
    BY DEF Finished, FrameOf, CountStart, StartFrame
  <1>2. opts.formats \subseteq Formats
    BY RangeTypes DEF Inv
  <1>3. OutputsMatchIndex'
    BY <1>1, <1>2 DEF Inv, OutputsMatchIndex
  <1>4. NoTemporaryLeft'
    BY <1>1 DEF Inv, NoTemporaryLeft, Formats
  <1> QED BY <1>1, <1>3, <1>4

\* One output format of the body of the loop.
LEMMA ConvertInv ==
  ASSUME Inv, TypeOK', NEW f, NEW next,
         <<f, next>> \in {<<"dng", "pgm">>, <<"pgm", "jpeg">>,
                          <<"jpeg", "unlink">>},
         Convert(f, next)
  PROVE  Inv'
  <1> USE DEF Inv
  <1>1. /\ UNCHANGED <<opts, count_frame, pos, frame, currentFrame, frameData,
                      start, image>>
        /\ pc = f /\ f \in Formats /\ f # "jp4"
        /\ pc' \in {next, "error"}
        /\ (damaged => damaged')
        /\ image \in Data \cup {Absent}
        /\ count_frame \in Index /\ disk \in Disks
        /\ damaged \in BOOLEAN /\ damaged' \in BOOLEAN
        /\ opts.formats \subseteq Formats
    BY RangeTypes
    DEF Convert, Goto, iterVars, Formats, TypeOK, Body, Disks
  <1>2. /\ \A g \in Formats, i \in Finished : disk'[g][i] = disk[g][i]
        /\ \A g \in Formats \ {f} : disk'[g][count_frame] = disk[g][count_frame]
        /\ ~damaged' /\ f \in opts.formats /\ pc' = next =>
             disk'[f][count_frame] = image
    <2>1. CASE UNCHANGED disk /\ (f \notin opts.formats \/ damaged' \/ pc' # next)
      BY <2>1
    <2>2. CASE Put(f, image)
      BY <2>2, <1>1, FinishedKept, PutEffect
    <2>3. next # "error"
      OBVIOUS
    <2> QED BY <2>1, <2>2, <2>3 DEF Convert, Goto
  <1>3. OutputsMatchIndex' /\ NoTemporaryLeft'
    BY <1>1, <1>2, FinishedInv
  <1>4. /\ FrameOf(count_frame)' = FrameOf(count_frame)
        /\ Finished' = Finished /\ CountStart' = CountStart
    BY <1>1 DEF FrameOf, StartFrame, CountStart, Finished
  <1>5. Progress' /\ DumpRemoved'
    BY <1>1, <1>4 DEF InStepInv, Progress, DumpRemoved, Loop, Body
  <1>6. ASSUME ~damaged' PROVE InStep' /\ CurrentFiles'
    <2>1. InStep /\ CurrentFiles
      BY <1>1, <1>6 DEF InStepInv
    <2>2. InStep'
      BY <1>1, <1>4, <2>1 DEF InStep, Body
    <2>3. CASE pc' = "error"
      BY <2>2, <2>3 DEF CurrentFiles
    <2>4. CASE pc' = next
      BY <1>1, <1>2, <1>4, <1>6, <2>1, <2>2, <2>4 DEF CurrentFiles, Formats
    <2> QED BY <1>1, <2>3, <2>4
  <1> QED BY <1>3, <1>5, <1>6 DEF InStepInv

LEMMA NextInv == Inv /\ [Next]_vars => Inv'
  <1> SUFFICES ASSUME Inv, [Next]_vars PROVE Inv'
    OBVIOUS
  <1> USE DEF Inv
  <1>t. TypeOK'
    BY NextTypeOK
  <1>r. /\ StartFrame \in Nat \ {0} /\ CountStart \in Nat /\ count_frame \in Nat
        /\ pos \in Nat /\ currentFrame \in Nat /\ damaged \in BOOLEAN
        /\ damaged' \in BOOLEAN /\ opts.formats \subseteq Formats
        /\ disk \in Disks
    BY <1>t, RangeTypes DEF TypeOK, Disks
  <1>s. ASSUME UNCHANGED <<opts, count_frame>>
        PROVE  /\ StartFrame' = StartFrame /\ CountStart' = CountStart
               /\ FrameOf(count_frame)' = FrameOf(count_frame)
               /\ Finished' = Finished
    BY <1>s DEF StartFrame, CountStart, FrameOf, Finished
  <1>1. CASE MakeDir \/ OpenMovie
    <2>1. /\ UNCHANGED <<opts, count_frame, disk, damaged, pos>>
          /\ pc \in {"setup", "movie"} /\ pc' \in {"movie", "range", "error"}
      BY <1>1 DEF MakeDir, OpenMovie, Goto, iterVars
    <2>2. OutputsMatchIndex' /\ NoTemporaryLeft'
      BY <2>1, <1>r, FinishedInv
    <2> QED
      BY <2>1, <2>2, <1>t, <1>s
      DEF InStepInv, Progress, DumpRemoved, InStep, CurrentFiles, Loop, Body
  <1>2. CASE SetRange
    <2>0. /\ UNCHANGED <<opts, disk, damaged, pos>> /\ pc = "range"
          /\ StartFrame' = StartFrame /\ CountStart' = CountStart
      BY <1>2 DEF SetRange, Construct, iterVars, StartFrame, CountStart
    <2>1. CASE UNCHANGED count_frame /\ pc' = "error"
      <3>1. OutputsMatchIndex' /\ NoTemporaryLeft'
        BY <2>0, <2>1, <1>r, FinishedInv
      <3> QED
        BY <2>0, <2>1, <3>1, <1>t, <1>s
        DEF InStepInv, Progress, DumpRemoved, InStep, CurrentFiles, Loop, Body
    <2>2. CASE /\ count_frame' = CountStart /\ pc' = "seek"
               /\ Construct(StartFrame, StartFrame + NFrames - 1)
      <3>1. Finished' = {}
        BY <2>0, <2>2, <1>r DEF Finished
      <3> QED
        BY <2>0, <2>2, <3>1, <1>t, <1>r
        DEF InStepInv, Progress, DumpRemoved, InStep, CurrentFiles, Loop, Body,
            OutputsMatchIndex, NoTemporaryLeft, Construct, IterStart
    <2> QED BY <1>2, <2>1, <2>2 DEF SetRange, Goto
  <1>3. CASE Seek
    <2>1. /\ UNCHANGED <<opts, count_frame, disk, start>>
          /\ (damaged => damaged') /\ pc = "seek"
      BY <1>3
      DEF Seek, SeekOk, SeekFails, SeekDone, SeekFrame
    <2>2. OutputsMatchIndex' /\ NoTemporaryLeft'
      BY <2>1, <1>r, FinishedInv
    <2>3. Progress' /\ DumpRemoved'
      BY <1>3, <2>1, <1>s, <1>r
      DEF InStepInv, Progress, DumpRemoved, Seek, Goto, Loop, Body, InStep
    <2>4. ASSUME ~damaged' PROVE InStep' /\ CurrentFiles'
      <3>0. /\ pos = currentFrame /\ currentFrame < start
            /\ count_frame = CountStart /\ start = StartFrame /\ ~damaged
        BY <2>1, <2>4 DEF InStepInv, InStep, Progress
      <3>1. CASE SeekOk /\ pc' = "seek"
        BY <3>0, <3>1, <2>1, <1>s, <1>r
        DEF InStep, CurrentFiles, SeekOk, SeekFrame, ReadOk, Body
      <3>2. CASE SeekDone /\ pc' = "loop"
        <4>1. currentFrame' = FrameOf(count_frame)' /\ pos' = currentFrame' - 1
          BY <3>0, <3>2, <2>1, <1>s, <1>r DEF FrameOf, SeekDone
        <4> QED BY <4>1, <3>2 DEF InStep, CurrentFiles, Body
      <3> QED BY <1>3, <2>1, <2>4, <3>1, <3>2 DEF Seek, Goto
    <2> QED BY <2>2, <2>3, <2>4, <1>t DEF InStepInv
  <1>4. CASE NextFrame
    <2>1. /\ UNCHANGED <<opts, count_frame, disk>>
          /\ (damaged => damaged') /\ pc = "loop" /\ pc' = "fopen"
      BY <1>4 DEF NextFrame, Goto
    <2>2. OutputsMatchIndex' /\ NoTemporaryLeft'
      BY <2>1, <1>r, FinishedInv
    <2>3. Progress' /\ DumpRemoved'
      BY <2>1, <1>s DEF InStepInv, Progress, DumpRemoved, Loop, Body
    <2>4. ASSUME ~damaged' PROVE InStep' /\ CurrentFiles'
      BY <1>4, <2>1, <2>4, <1>s, <1>r
      DEF InStepInv, InStep, CurrentFiles, NextFrame, NextOk, ReadOk, Body
    <2> QED BY <2>2, <2>3, <2>4, <1>t DEF InStepInv
  <1>5. CASE OpenDump
    <2>1. /\ UNCHANGED <<opts, count_frame, pos, frame, currentFrame, frameData,
                        start, image, damaged>>
          /\ (damaged => damaged')
          /\ pc = "fopen" /\ pc' \in {"fwrite", "error"}
      BY <1>5 DEF OpenDump, Goto, iterVars
    <2>b. count_frame \in Index /\ "jp4" \in Formats
      BY <2>1 DEF TypeOK, Body, Formats
    <2>2. \A g \in Formats, i \in Finished : disk'[g][i] = disk[g][i]
      <3>1. CASE UNCHANGED disk
        BY <3>1
      <3>2. CASE Put("jp4", Empty)
        BY <3>2, <2>b, FinishedKept DEF Data
      <3> QED BY <1>5, <3>1, <3>2 DEF OpenDump
    <2>3. OutputsMatchIndex' /\ NoTemporaryLeft'
      BY <2>1, <2>2, <1>r, FinishedInv
    <2>4. Progress' /\ DumpRemoved'
      BY <2>1, <1>s DEF InStepInv, Progress, DumpRemoved, Loop, Body
    <2>5. ASSUME ~damaged' PROVE InStep' /\ CurrentFiles'
      BY <2>1, <2>2, <2>5, <1>s, <1>r
      DEF InStepInv, InStep, CurrentFiles, Body, Formats
    <2> QED BY <2>3, <2>4, <2>5, <1>t DEF InStepInv
  <1>6. CASE WriteDump
    <2>1. /\ UNCHANGED <<opts, count_frame, pos, frame, currentFrame, frameData,
                        start, image>>
          /\ (damaged => damaged')
          /\ pc = "fwrite" /\ pc' = "open"
      BY <1>6 DEF WriteDump, Goto, iterVars
    <2>b. count_frame \in Index /\ "jp4" \in Formats
      BY <2>1 DEF TypeOK, Body, Formats
    <2>2. /\ \A g \in Formats, i \in Finished : disk'[g][i] = disk[g][i]
          /\ ~damaged' => disk'["jp4"][count_frame] = frameData
      <3>1. CASE Put("jp4", frameData)
        BY <3>1, <2>b, <1>r, FinishedKept, PutEffect DEF TypeOK
      <3>2. CASE Put("jp4", Junk) /\ damaged' = TRUE
        BY <3>2, <2>b, FinishedKept DEF Data
      <3> QED BY <1>6, <3>1, <3>2 DEF WriteDump
    <2>3. OutputsMatchIndex' /\ NoTemporaryLeft'
      BY <2>1, <2>2, <1>r, FinishedInv
    <2>4. Progress' /\ DumpRemoved'
      BY <2>1, <1>s DEF InStepInv, Progress, DumpRemoved, Loop, Body
    <2>5. ASSUME ~damaged' PROVE InStep' /\ CurrentFiles'
      BY <2>1, <2>2, <2>5, <1>s, <1>r
      DEF InStepInv, InStep, CurrentFiles, Body, Formats
    <2> QED BY <2>3, <2>4, <2>5, <1>t DEF InStepInv
  <1>7. CASE OpenJP4
    <2>1. /\ UNCHANGED <<opts, count_frame, pos, frame, currentFrame, frameData,
                        start, disk, damaged>>
          /\ (damaged => damaged')
          /\ pc = "open" /\ pc' \in {"dng", "error"}
      BY <1>7 DEF OpenJP4, Goto, iterVars
    <2>b. count_frame \in Index /\ "jp4" \in Formats
      BY <2>1 DEF TypeOK, Body, Formats
    <2>2. pc' = "dng" => image' = disk["jp4"][count_frame]
      BY <1>7 DEF OpenJP4, Goto
    <2>3. OutputsMatchIndex' /\ NoTemporaryLeft'
      BY <2>1, <2>2, <1>r, FinishedInv
    <2>4. Progress' /\ DumpRemoved'
      BY <2>1, <1>s DEF InStepInv, Progress, DumpRemoved, Loop, Body
    <2>5. ASSUME ~damaged' PROVE InStep' /\ CurrentFiles'
      BY <2>1, <2>2, <2>5, <1>s, <1>r
      DEF InStepInv, InStep, CurrentFiles, Body, Formats
    <2> QED BY <2>3, <2>4, <2>5, <1>t DEF InStepInv
  <1>8. CASE WriteDNG \/ WritePGM \/ WriteJPEG
    BY <1>8, <1>t, ConvertInv DEF WriteDNG, WritePGM, WriteJPEG
  <1>9. CASE Unlink
    <2>1. /\ UNCHANGED <<opts, count_frame, pos, frame, currentFrame, frameData,
                        start, image, damaged>>
          /\ (damaged => damaged')
          /\ pc = "unlink" /\ pc' = "report"
      BY <1>9 DEF Unlink, Goto, iterVars
    <2>b. count_frame \in Index /\ "jp4" \in Formats
      BY <2>1 DEF TypeOK, Body, Formats
    <2>2. /\ \A g \in Formats, i \in Finished : disk'[g][i] = disk[g][i]
          /\ \A g \in Formats \ {"jp4"} :
               disk'[g][count_frame] = disk[g][count_frame]
          /\ IF "jp4" \in opts.formats
             THEN disk'["jp4"][count_frame] = disk["jp4"][count_frame]
             ELSE disk'["jp4"][count_frame] = Absent
      <3>1. CASE "jp4" \in opts.formats
        BY <1>9, <3>1 DEF Unlink
      <3>2. CASE "jp4" \notin opts.formats
        <4>1. Put("jp4", Absent)
          BY <1>9, <3>2 DEF Unlink
        <4> QED BY <4>1, <3>2, <2>b, <1>r, FinishedKept, PutEffect
      <3> QED BY <3>1, <3>2
    <2>3. OutputsMatchIndex' /\ NoTemporaryLeft'
      BY <2>1, <2>2, <1>r, FinishedInv
    <2>4. Progress' /\ DumpRemoved'
      BY <2>1, <2>2, <1>s DEF InStepInv, Progress, DumpRemoved, Loop, Body
    <2>5. ASSUME ~damaged' PROVE InStep' /\ CurrentFiles'
      BY <2>1, <2>2, <2>5, <1>s, <1>r
      DEF InStepInv, InStep, CurrentFiles, Body, Formats
    <2> QED BY <2>3, <2>4, <2>5, <1>t DEF InStepInv
  <1>10. CASE Report
    <2>1. /\ UNCHANGED <<opts, pos, currentFrame, disk, damaged>>
          /\ pc = "report" /\ pc' = "loop" /\ count_frame' = count_frame + 1
          /\ count_frame >= CountStart
      BY <1>10 DEF Report, Goto, iterVars, InStepInv, Progress, Loop, Body
    <2>2. /\ Finished' = Finished \cup {count_frame}
          /\ CountStart' = CountStart
          /\ \A i : FrameOf(i)' = FrameOf(i)
      BY <2>1, <1>r DEF Finished, CountStart, StartFrame, FrameOf
    <2>3. count_frame \in Index
      BY <2>1 DEF TypeOK, Body
    <2>4. Progress' /\ DumpRemoved'
      BY <2>1, <2>2, <2>3, <1>r
      DEF InStepInv, Progress, DumpRemoved, Loop, Body
    <2>5. NoTemporaryLeft'
      BY <2>1, <2>2 DEF NoTemporaryLeft, InStepInv, DumpRemoved
    <2>6. ASSUME ~damaged PROVE OutputsMatchIndex' /\ InStep' /\ CurrentFiles'
      <3>1. \A f \in opts.formats :
              disk[f][count_frame] = FrameOf(count_frame)
        BY <2>1, <2>6, <1>r DEF InStepInv, CurrentFiles, Formats
      <3>2. OutputsMatchIndex'
        BY <2>1, <2>2, <2>6, <3>1 DEF OutputsMatchIndex
      <3>3. /\ currentFrame' = FrameOf(count_frame')
            /\ pos' = currentFrame' - 1
        BY <2>1, <2>6, <1>r DEF InStepInv, InStep, Body, FrameOf
      <3> QED BY <2>1, <2>2, <3>2, <3>3 DEF InStep, CurrentFiles, Body
    <2> QED
      BY <2>1, <2>4, <2>5, <2>6, <1>t, <1>r DEF InStepInv, OutputsMatchIndex
  <1>11. CASE Finish \/ Kill
    <2>1. /\ UNCHANGED <<opts, count_frame, damaged>> /\ pc' \in Ended
      BY <1>11 DEF Finish, Kill, Goto, Ended
    <2>2. \A g \in Formats, i \in Finished : disk'[g][i] = disk[g][i]
      <3>1. BeingWritten \subseteq Formats
        BY <1>r DEF BeingWritten, Formats
      <3> QED BY <1>11, <3>1, FinishedKept DEF Finish, Kill, Data
    <2>3. OutputsMatchIndex' /\ NoTemporaryLeft'
      BY <2>1, <2>2, <1>r, FinishedInv
    <2> QED
      BY <2>1, <2>3, <1>t, <1>s
      DEF InStepInv, Progress, DumpRemoved, InStep, CurrentFiles, Loop, Body,
          Ended
  <1>12. CASE Rerun
    <2>1. pc' = "setup" /\ pos' = 0 /\ count_frame' = 0 /\ damaged' = FALSE
      BY <1>12 DEF Rerun
    <2>2. CountStart' \in Nat
      <3>1. opts'.start \in Int /\ opts'.count \in Int
        BY <1>t, ArgsAssumption DEF TypeOK, Options
      <3> QED BY <3>1 DEF CountStart, StartFrame
    <2>3. Finished' = {}
      BY <2>1, <2>2 DEF Finished
    <2> QED
      BY <2>1, <2>3, <1>t
      DEF InStepInv, Progress, DumpRemoved, InStep, CurrentFiles, Loop, Body,
          OutputsMatchIndex, NoTemporaryLeft
  <1>15. CASE UNCHANGED vars
    <2>1. UNCHANGED <<opts, count_frame, disk, damaged, pc, pos, start, frame,
                      currentFrame, frameData, image>>
      BY <1>15 DEF vars, mainVars, iterVars
    <2>2. OutputsMatchIndex' /\ NoTemporaryLeft'
      BY <2>1, <1>r, FinishedInv
    <2> QED
      BY <2>1, <2>2, <1>t, <1>s
      DEF InStepInv, Progress, DumpRemoved, InStep, CurrentFiles
  <1> QED
    BY <1>1, <1>2, <1>3, <1>4, <1>5, <1>6, <1>7, <1>8, <1>9, <1>10, <1>11,
       <1>12, <1>15
    DEF Next, Main

\* Unless something failed unnoticed, every finished file of every requested
\* format holds exactly the frame its number stands for: for every clip, range,
\* renumbering, set of formats, sequence of runs, failure and signal.
THEOREM OutputsCorrect == Spec => []OutputsMatchIndex
  <1>1. Inv => OutputsMatchIndex
    BY DEF Inv
  <1> QED BY <1>1, InitInv, NextInv, PTL DEF Spec

\* A run without --jp4 leaves no dump of a frame it is done with, whatever
\* fails on the way.
THEOREM TemporariesRemoved == Spec => []NoTemporaryLeft
  <1>1. Inv => NoTemporaryLeft
    BY DEF Inv
  <1> QED BY <1>1, InitInv, NextInv, PTL DEF Spec

\* The inductive invariant: main(), the iterator and the demuxer stay in step.
THEOREM InStepAlways == Spec => []InStepInv
  <1>1. Inv => InStepInv
    BY DEF Inv
  <1> QED BY <1>1, InitInv, NextInv, PTL DEF Spec

-----------------------------------------------------------------------------
(* The dumps that runs leave behind. *)

\* The frame at which the run is, or was when it ended.
Interrupted == IF pc \in Body \cup Ended THEN {count_frame} ELSE {}

\* Apart from the frame the run is at, there is one leftover at most for each
\* of the runs before.
OneLeftoverPerRun == Cardinality(Leftovers \ Interrupted) <= run - 1

LeftoverInv == Inv /\ run \in Nat \ {0} /\ OneLeftoverPerRun

LEMMA LeftoversFinite ==
  /\ IsFiniteSet(Leftovers)
  /\ \A S \in SUBSET Leftovers :
       /\ IsFiniteSet(S)
       /\ Cardinality(S) \in Nat
  <1>1. IsFiniteSet(Index)
    BY ArgsAssumption, FS_Interval DEF Index
  <1>2. Leftovers \subseteq Index
    BY DEF Leftovers
  <1>3. IsFiniteSet(Leftovers)
    BY <1>1, <1>2, FS_Subset
  <1> QED BY <1>3, FS_Subset, FS_CardinalityType

\* A step adds no leftover but the frame the run is at.
LEMMA NoNewLeftover ==
  ASSUME LeftoverInv, Inv', run' = run,
         Leftovers' \ Interrupted' \subseteq Leftovers \ Interrupted
  PROVE  LeftoverInv'
  <1>1. IsFiniteSet(Leftovers \ Interrupted)
    BY LeftoversFinite
  <1>2. /\ Cardinality(Leftovers' \ Interrupted')
             <= Cardinality(Leftovers \ Interrupted)
        /\ IsFiniteSet(Leftovers' \ Interrupted')
    BY <1>1, FS_Subset
  <1>3. /\ Cardinality(Leftovers' \ Interrupted') \in Nat
        /\ Cardinality(Leftovers \ Interrupted) \in Nat
    BY <1>1, <1>2, FS_CardinalityType
  <1> QED BY <1>2, <1>3 DEF LeftoverInv, OneLeftoverPerRun

\* Within a frame main() touches only the files of that frame.
LEMMA OnlyCurrentFrame ==
  ASSUME LeftoverInv, Inv', UNCHANGED <<opts, count_frame, kept, run>>,
         pc' \in Body \cup Ended,
         \A i \in Index \ {count_frame} : disk'["jp4"][i] = disk["jp4"][i]
  PROVE  LeftoverInv'
  <1>1. Interrupted' = {count_frame} /\ Saved' = Saved
    BY DEF Interrupted, Saved, Finished, CountStart, StartFrame
  <1>2. Leftovers' \ {count_frame} \subseteq Leftovers \ {count_frame}
    BY <1>1 DEF Leftovers
  <1>3. Interrupted \subseteq {count_frame}
    BY DEF Interrupted
  <1> QED BY <1>1, <1>2, <1>3, NoNewLeftover

LEMMA LeftoverInitInv == Init => LeftoverInv
  <1> SUFFICES ASSUME Init PROVE LeftoverInv
    OBVIOUS
  <1>1. Inv /\ run = 1
    BY InitInv DEF Init
  <1>2. Leftovers = {}
    BY DEF Init, Leftovers, Formats, Index
  <1>3. Leftovers \ Interrupted = {}
    BY <1>2
  <1> QED BY <1>1, <1>3, FS_EmptySet DEF LeftoverInv, OneLeftoverPerRun

LEMMA LeftoverNextInv == LeftoverInv /\ [Next]_vars => LeftoverInv'
  <1> SUFFICES ASSUME LeftoverInv, [Next]_vars PROVE LeftoverInv'
    OBVIOUS
  <1>i. Inv /\ Inv' /\ TypeOK
    BY NextInv DEF LeftoverInv, Inv
  <1>r. CountStart \in Nat /\ disk \in Disks /\ "jp4" \in Formats
        /\ count_frame \in Nat /\ opts.formats \subseteq Formats
    BY <1>i, RangeTypes DEF TypeOK, Disks, Formats
  <1>p. ASSUME NEW f \in Formats, NEW d \in Data \cup {Absent}, Put(f, d)
        PROVE  \A i \in Index \ {count_frame} :
                 disk'["jp4"][i] = disk["jp4"][i]
    BY <1>p, <1>r, PutEffect
  <1>1. CASE MakeDir \/ OpenMovie \/ Seek
    <2>1. /\ UNCHANGED <<opts, count_frame, kept, run, disk>>
          /\ pc \in {"setup", "movie", "seek"}
      BY <1>1 DEF MakeDir, OpenMovie, Seek
    <2>2. Leftovers' = Leftovers
      BY <2>1 DEF Leftovers, Saved, Finished, CountStart, StartFrame
    <2>3. Interrupted = {}
      BY <2>1 DEF Interrupted, Body, Ended
    <2> QED BY <1>i, <2>1, <2>2, <2>3, NoNewLeftover
  <1>2. CASE SetRange
    <2>1. /\ UNCHANGED <<opts, kept, run, disk>> /\ pc = "range"
          /\ count_frame = 0
          /\ count_frame' = count_frame \/ count_frame' = CountStart
      BY <1>2, <1>i DEF SetRange, Inv, InStepInv, Progress
    <2>2. Finished = {} /\ Finished' = {}
      BY <2>1, <1>r DEF Finished, CountStart, StartFrame
    <2>3. Leftovers' = Leftovers
      BY <2>1, <2>2 DEF Leftovers, Saved
    <2>4. Interrupted = {}
      BY <2>1 DEF Interrupted, Body, Ended
    <2> QED BY <1>i, <2>1, <2>3, <2>4, NoNewLeftover
  <1>3. CASE NextFrame \/ OpenJP4 \/ Finish
    <2>1. /\ UNCHANGED <<opts, count_frame, kept, run, disk>>
          /\ pc' \in Body \cup Ended
      BY <1>3 DEF NextFrame, OpenJP4, Finish, Goto, Body, Ended
    <2> QED BY <1>i, <2>1, OnlyCurrentFrame
  <1>4. CASE OpenDump \/ WriteDump \/ Unlink
    <2>1. /\ UNCHANGED <<opts, count_frame, kept, run>>
          /\ pc' \in Body \cup Ended
      BY <1>4 DEF OpenDump, WriteDump, Unlink, Goto, Body, Ended
    <2>2. UNCHANGED disk \/ \E d \in Data \cup {Absent} : Put("jp4", d)
      <3>1. {Empty, Junk, Absent, frameData} \subseteq Data \cup {Absent}
        BY <1>i DEF TypeOK, Data
      <3> QED BY <3>1, <1>4 DEF OpenDump, WriteDump, Unlink
    <2>3. \A i \in Index \ {count_frame} : disk'["jp4"][i] = disk["jp4"][i]
      BY <2>2, <1>p, <1>r
    <2> QED BY <1>i, <2>1, <2>3, OnlyCurrentFrame
  <1>5. ASSUME NEW f \in Formats, NEW l \in Body, Convert(f, l)
        PROVE  LeftoverInv'
    <2>1. /\ UNCHANGED <<opts, count_frame, kept, run>>
          /\ pc' \in Body \cup Ended
      BY <1>5 DEF Convert, Goto, Ended
    <2>2. image \in Data \cup {Absent}
      BY <1>i DEF TypeOK
    <2>3. \A i \in Index \ {count_frame} : disk'["jp4"][i] = disk["jp4"][i]
      BY <1>5, <2>2, <1>p DEF Convert
    <2> QED BY <1>i, <2>1, <2>3, OnlyCurrentFrame
  <1>6. CASE Report
    <2>1. /\ UNCHANGED <<opts, kept, run, disk>> /\ pc = "report"
          /\ pc' = "loop" /\ count_frame' = count_frame + 1
          /\ count_frame >= CountStart
      BY <1>6, <1>i DEF Report, Goto, Inv, InStepInv, Progress, Loop, Body
    <2>2. Finished' = Finished \cup {count_frame}
      BY <2>1, <1>r DEF Finished, CountStart, StartFrame
    <2>3. "jp4" \notin opts.formats => disk["jp4"][count_frame] = Absent
      BY <2>1, <1>i DEF Inv, InStepInv, DumpRemoved
    <2>4. Leftovers' \subseteq Leftovers \ {count_frame}
      BY <2>1, <2>2, <2>3 DEF Leftovers, Saved
    <2>5. Interrupted = {count_frame}
      BY <2>1 DEF Interrupted, Body
    <2> QED BY <1>i, <2>1, <2>4, <2>5, NoNewLeftover
  <1>7. CASE Kill
    <2>1. /\ UNCHANGED <<opts, count_frame, kept, run>>
          /\ pc' \in Body \cup Ended
      BY <1>7 DEF Kill, Goto, Ended
    <2>2. BeingWritten \subseteq Formats /\ Junk \in Data
      BY <1>r DEF BeingWritten, Data
    <2>3. \A i \in Index \ {count_frame} : disk'["jp4"][i] = disk["jp4"][i]
      BY <1>7, <2>2, <1>p DEF Kill
    <2> QED BY <1>i, <2>1, <2>3, OnlyCurrentFrame
  <1>8. CASE Rerun
    <2>1. /\ run' = run + 1 /\ pc' = "setup" /\ UNCHANGED disk
          /\ count_frame' = 0 /\ Saved \subseteq kept'
          /\ pc \in Ended
      BY <1>8 DEF Rerun, Saved
    <2>2. Leftovers' \subseteq Leftovers /\ Interrupted' = {}
      BY <2>1 DEF Leftovers, Saved, Interrupted, Body, Ended
    <2>3. Leftovers' \ Interrupted' \subseteq
            (Leftovers \ Interrupted) \cup {count_frame}
      BY <2>1, <2>2 DEF Interrupted
    <2> DEFINE before == Leftovers \ Interrupted
               after  == Leftovers' \ Interrupted'
    <2>4. IsFiniteSet(before) /\ Cardinality(before) \in Nat
      BY LeftoversFinite
    <2>5. /\ IsFiniteSet(before \cup {count_frame})
          /\ Cardinality(before \cup {count_frame}) <= Cardinality(before) + 1
      BY <2>4, FS_AddElement
    <2>6. /\ Cardinality(after) <= Cardinality(before \cup {count_frame})
          /\ IsFiniteSet(after)
      BY <2>3, <2>5, FS_Subset
    <2>7. /\ Cardinality(after) \in Nat
          /\ Cardinality(before \cup {count_frame}) \in Nat
      BY <2>5, <2>6, FS_CardinalityType
    <2>8. Cardinality(before) <= run - 1 /\ run \in Nat \ {0}
      BY DEF LeftoverInv, OneLeftoverPerRun
    <2>9. Cardinality(after) <= run' - 1 /\ run' \in Nat \ {0}
      BY <2>1, <2>4, <2>5, <2>6, <2>7, <2>8
    <2> QED BY <1>i, <2>9 DEF LeftoverInv, OneLeftoverPerRun
  <1>9. CASE UNCHANGED vars
    <2>1. UNCHANGED <<opts, count_frame, kept, run, disk, pc>>
      BY <1>9 DEF vars, mainVars
    <2>2. Leftovers' = Leftovers /\ Interrupted' = Interrupted
      BY <2>1
      DEF Leftovers, Saved, Finished, CountStart, StartFrame, Interrupted
    <2> QED BY <1>i, <2>1, <2>2, NoNewLeftover
  <1>10. CASE WriteDNG \/ WritePGM \/ WriteJPEG
    BY <1>5, <1>10
    DEF WriteDNG, WritePGM, WriteJPEG, Formats, Body
  <1> QED
    BY <1>1, <1>2, <1>3, <1>4, <1>6, <1>7, <1>8, <1>9, <1>10
    DEF Next, Main

\* However often movie2dng is run again over its own output, killed and failing
\* anywhere, no run leaves more than one dump that it was not told to keep.
THEOREM OneLeftoverARun == Spec => []LeftoversBounded
  <1>1. LeftoverInv => LeftoversBounded
    <2> SUFFICES ASSUME LeftoverInv PROVE LeftoversBounded
      OBVIOUS
    <2> DEFINE others == Leftovers \ Interrupted
    <2>1. IsFiniteSet(others) /\ Cardinality(others) \in Nat
      BY LeftoversFinite
    <2>2. Leftovers \subseteq others \cup {count_frame}
      BY DEF Interrupted
    <2>3. /\ IsFiniteSet(others \cup {count_frame})
          /\ Cardinality(others \cup {count_frame}) <= Cardinality(others) + 1
      BY <2>1, FS_AddElement
    <2>4. /\ Cardinality(Leftovers) <= Cardinality(others \cup {count_frame})
          /\ Cardinality(Leftovers) \in Nat
          /\ Cardinality(others \cup {count_frame}) \in Nat
      BY <2>2, <2>3, FS_Subset, LeftoversFinite, FS_CardinalityType
    <2>5. Cardinality(others) <= run - 1 /\ run \in Nat
      BY DEF LeftoverInv, OneLeftoverPerRun
    <2> QED BY <2>1, <2>3, <2>4, <2>5 DEF LeftoversBounded
  <1> QED BY <1>1, LeftoverInitInv, LeftoverNextInv, PTL DEF Spec

-----------------------------------------------------------------------------
(***************************************************************************)
(* movie2dng implements FrameExport on an undamaged clip, and what it has  *)
(* converted is what it has announced, when --frames is not negative.      *)
(* (With a negative --frames the announced number is not the number of     *)
(* converted frames: see movie2dng_negative_frames.cfg.)                   *)
(***************************************************************************)

\* The range that main() announces is the range of the iterator, what it has
\* reported is the distance from the first file number, and the iterator is at
\* most one frame behind the end of the range.
AsAnnounced ==
  /\ pc \in {"setup", "movie", "range"} => reported = 0
  /\ pc = "seek" => start = StartFrame /\ currentFrame < start
  /\ pc \in Loop \cup {"seek", "ok"} =>
       /\ NFrames >= 0 /\ StartFrame + NFrames - 1 <= clip.nb_frames
       /\ end = StartFrame + NFrames - 1
       /\ reported = count_frame - CountStart
  /\ pc \in Loop => currentFrame <= end + 1
  /\ pc = "ok" /\ ~damaged => reported = NFrames

AnnouncedInv == Inv /\ AsAnnounced

LEMMA AnnouncedInit == Init => AnnouncedInv
  BY InitInv DEF AnnouncedInv, AsAnnounced, Init, Loop, Body

\* The numbers that the options and the clip determine.
LEMMA SameRange ==
  ASSUME UNCHANGED <<opts, clip>>
  PROVE  /\ StartFrame' = StartFrame /\ NFrames' = NFrames
         /\ CountStart' = CountStart /\ StartAfterEnd' = StartAfterEnd
         /\ \A i : FrameOf(i)' = FrameOf(i)
  BY DEF StartFrame, NFrames, CountStart, StartAfterEnd, FrameOf

\* The range is inside the clip, and the iterator takes it as it is.
LEMMA RangeInside ==
  ASSUME TypeOK, FramesArgs \subseteq Nat, ~StartAfterEnd
  PROVE  /\ NFrames >= 0 /\ StartFrame + NFrames - 1 <= clip.nb_frames
         /\ IterEnd(StartFrame + NFrames - 1) = StartFrame + NFrames - 1
         /\ StartFrame > 1 => StartFrame <= clip.nb_frames
  <1>1. /\ opts.start \in Int /\ opts.frames \in Nat
        /\ clip.nb_frames \in Nat /\ StartFrame \in Nat \ {0}
        /\ NFrames \in Int
    BY RangeTypes DEF TypeOK, Options
  <1>2. StartFrame <= clip.nb_frames + 1
        /\ (StartFrame > 1 => StartFrame <= clip.nb_frames)
    BY <1>1 DEF StartAfterEnd, StartFrame
  <1>3. NFrames >= 0 /\ StartFrame + NFrames - 1 <= clip.nb_frames
    BY <1>1, <1>2 DEF NFrames
  <1>4. StartFrame + NFrames - 1 = 0 => clip.nb_frames = 0
    BY <1>1, <1>2, <1>3 DEF NFrames
  <1>5. IterEnd(StartFrame + NFrames - 1) = StartFrame + NFrames - 1
    BY <1>1, <1>3, <1>4 DEF IterEnd
  <1> QED BY <1>2, <1>3, <1>5

LEMMA AnnouncedNext ==
  ASSUME FramesArgs \subseteq Nat, AnnouncedInv, [Next]_vars
  PROVE  AnnouncedInv'
  <1>i. Inv /\ Inv' /\ TypeOK /\ TypeOK'
    BY NextInv DEF AnnouncedInv, Inv
  <1>t. /\ StartFrame \in Nat \ {0} /\ CountStart \in Nat /\ NFrames \in Int
        /\ count_frame \in Nat /\ reported \in Nat /\ currentFrame \in Nat
        /\ end \in Int /\ start \in Nat \ {0} /\ clip.nb_frames \in Nat
        /\ damaged \in BOOLEAN
    BY <1>i, RangeTypes DEF TypeOK
  <1> SUFFICES AsAnnounced'
    BY <1>i DEF AnnouncedInv
  <1> USE DEF AnnouncedInv
  <1>1. CASE MakeDir \/ OpenMovie
    <2>1. /\ UNCHANGED reported /\ pc \in {"setup", "movie"}
          /\ pc' \in {"movie", "range", "error"}
      BY <1>1 DEF MakeDir, OpenMovie, Goto
    <2> QED BY <2>1 DEF AsAnnounced, Loop, Body
  <1>2. CASE SetRange
    <2>1. /\ UNCHANGED <<opts, clip, reported>> /\ pc = "range"
      BY <1>2 DEF SetRange
    <2>2. CASE pc' = "error"
      BY <2>2 DEF AsAnnounced, Loop, Body
    <2>3. CASE pc' # "error"
      <3>1. /\ pc' = "seek" /\ count_frame' = CountStart /\ ~StartAfterEnd
            /\ start' = StartFrame /\ currentFrame' = 0
            /\ end' = IterEnd(StartFrame + NFrames - 1)
        BY <1>2, <2>3, <1>t DEF SetRange, Construct, IterStart, Goto
      <3>2. /\ NFrames >= 0 /\ StartFrame + NFrames - 1 <= clip.nb_frames
            /\ end' = StartFrame + NFrames - 1 /\ reported = 0
        BY <3>1, <2>1, <1>i, RangeInside DEF AsAnnounced
      <3> QED
        BY <2>1, <3>1, <3>2, <1>t, SameRange DEF AsAnnounced, Loop, Body
    <2> QED BY <2>2, <2>3
  <1>3. CASE Seek
    <2>1. /\ UNCHANGED <<opts, clip, reported, count_frame, start, end>>
          /\ pc = "seek" /\ currentFrame' = currentFrame + 1
          /\ \/ pc' = "seek" /\ currentFrame + 1 < start
             \/ pc' = "loop" /\ currentFrame + 1 >= start
      BY <1>3
      DEF Seek, SeekOk, SeekFails, SeekDone, SeekFrame, ReadOk, ReadFails, Goto
    <2>2. /\ start = StartFrame /\ currentFrame < start
          /\ NFrames >= 0 /\ end = StartFrame + NFrames - 1
      BY <2>1 DEF AsAnnounced
    <2>3. CASE pc' = "seek"
      BY <2>1, <2>2, <2>3, <1>t, SameRange DEF AsAnnounced, Loop, Body
    <2>4. CASE pc' = "loop"
      <3>1. currentFrame' <= end + 1
        BY <2>1, <2>2, <2>4, <1>t
      <3> QED BY <2>1, <2>4, <3>1, SameRange DEF AsAnnounced, Loop, Body
    <2> QED BY <2>1, <2>3, <2>4
  <1>4. CASE NextFrame
    <2>1. /\ UNCHANGED <<opts, clip, reported, count_frame, end>>
          /\ pc = "loop" /\ pc' = "fopen" /\ currentFrame <= end
          /\ currentFrame' \in {currentFrame, currentFrame + 1}
      BY <1>4 DEF NextFrame, NextOk, NextFails, hasNext, Goto
    <2>2. currentFrame' <= end' + 1
      BY <2>1, <1>t
    <2> QED BY <2>1, <2>2, SameRange DEF AsAnnounced, Loop, Body
  <1>5. ASSUME UNCHANGED <<opts, clip, reported, count_frame, end, currentFrame>>,
               pc \in Body, pc' \in Body \cup {"error", "killed"}
        PROVE  AsAnnounced'
    BY <1>5, SameRange DEF AsAnnounced, Loop, Body
  <1>6. CASE OpenDump \/ WriteDump \/ OpenJP4 \/ Unlink
    BY <1>6, <1>5
    DEF OpenDump, WriteDump, OpenJP4, Unlink, Goto, iterVars, Body
  <1>7. ASSUME NEW f \in Formats \ {"jp4"}, NEW l \in Body, Convert(f, l)
        PROVE  AsAnnounced'
    BY <1>7, <1>5 DEF Convert, Goto, iterVars, Formats, Body
  <1>8. CASE Report
    <2>1. /\ UNCHANGED <<opts, clip, end, currentFrame>>
          /\ pc = "report" /\ pc' = "loop"
          /\ reported' = reported + 1 /\ count_frame' = count_frame + 1
      BY <1>8 DEF Report, Goto, iterVars
    <2>2. /\ reported = count_frame - CountStart
          /\ NFrames >= 0 /\ StartFrame + NFrames - 1 <= clip.nb_frames
          /\ end = StartFrame + NFrames - 1 /\ currentFrame <= end + 1
      BY <2>1 DEF AsAnnounced, Loop, Body
    <2>3. reported' = count_frame' - CountStart
      BY <2>1, <2>2, <1>t
    <2> QED BY <2>1, <2>2, <2>3, SameRange DEF AsAnnounced, Loop, Body
  <1>9. CASE Finish
    <2>1. /\ UNCHANGED <<opts, clip, reported, count_frame, end, damaged>>
          /\ pc = "loop" /\ pc' = "ok" /\ currentFrame > end
      BY <1>9, <1>t DEF Finish, Goto, iterVars, hasNext
    <2>2. /\ reported = count_frame - CountStart
          /\ NFrames >= 0 /\ StartFrame + NFrames - 1 <= clip.nb_frames
          /\ end = StartFrame + NFrames - 1 /\ currentFrame <= end + 1
      BY <2>1 DEF AsAnnounced, Loop
    <2>3. ~damaged => reported = NFrames
      <3>1. ~damaged => currentFrame = StartFrame + (count_frame - CountStart)
        BY <2>1, <1>i DEF Inv, InStepInv, InStep, FrameOf
      <3> QED BY <3>1, <2>1, <2>2, <1>t
    <2> QED BY <2>1, <2>2, <2>3, SameRange DEF AsAnnounced, Loop, Body
  <1>10. CASE Kill \/ Rerun
    <2>1. pc' = "killed" \/ (pc' = "setup" /\ reported' = 0)
      BY <1>10 DEF Kill, Rerun, Goto
    <2> QED BY <2>1 DEF AsAnnounced, Loop, Body
  <1>11. CASE UNCHANGED vars
    <2>1. UNCHANGED <<opts, clip, reported, count_frame, start, end, damaged,
                      currentFrame, pc>>
      BY <1>11 DEF vars, mainVars, iterVars
    <2> QED BY <2>1, SameRange DEF AsAnnounced
  <1>12. CASE WriteDNG \/ WritePGM \/ WriteJPEG
    BY <1>12, <1>7 DEF WriteDNG, WritePGM, WriteJPEG, Formats, Body
  <1> QED
    BY <1>1, <1>2, <1>3, <1>4, <1>6, <1>8, <1>9, <1>10, <1>11, <1>12
    DEF Next, Main

\* A run that ends normally, in which nothing failed unnoticed, has converted
\* and reported exactly the number of frames that it announced, for any clip,
\* range, renumbering and sequence of runs, unless --frames is negative.
THEOREM ConvertsTheAnnounced ==
  ASSUME FramesArgs \subseteq Nat
  PROVE  Spec => []AnnouncedIsConverted
  <1>1. AnnouncedInv => AnnouncedIsConverted
    <2> SUFFICES ASSUME AnnouncedInv, pc = "ok", ~damaged
                 PROVE  Cardinality(Finished) = NFrames /\ reported = NFrames
      BY DEF AnnouncedIsConverted
    <2>1. /\ CountStart \in Nat /\ count_frame \in Nat /\ NFrames \in Int
      BY RangeTypes DEF AnnouncedInv, Inv, TypeOK
    <2>2. /\ reported = NFrames /\ reported = count_frame - CountStart
          /\ NFrames >= 0
      BY DEF AnnouncedInv, AsAnnounced
    <2>3. Cardinality(Finished) = NFrames
      <3> DEFINE last == count_frame - 1
      <3>1. last \in Int /\ last - CountStart + 1 = NFrames
            /\ ~(CountStart > last /\ NFrames # 0)
        BY <2>1, <2>2
      <3>2. Cardinality(CountStart..last) =
              IF CountStart > last THEN 0 ELSE last - CountStart + 1
        BY <2>1, <3>1, FS_Interval
      <3>3. CountStart > last => NFrames = 0
        BY <3>1
      <3> QED BY <3>1, <3>2, <3>3 DEF Finished
    <2> QED BY <2>2, <2>3
  <1>2. AnnouncedInv /\ [Next]_vars => AnnouncedInv'
    BY AnnouncedNext
  <1> QED BY <1>1, <1>2, AnnouncedInit, PTL DEF Spec

-----------------------------------------------------------------------------
(* The refinement. *)

\* An environment in which nothing fails unnoticed: the clip can be read, the
\* disk does not fill up, and if files cannot be opened, that is not a PGM file,
\* which main() would silently go without.
Noticed ==
  /\ FramesArgs \subseteq Nat
  /\ Faults \subseteq {"fopen", "kill"}
  /\ "fopen" \in Faults => \A F \in FormatSets : "pgm" \notin F

ExportInv == AnnouncedInv /\ Intact /\ ~damaged

LEMMA ExportInvNext ==
  ASSUME Noticed, ExportInv, [Next]_vars
  PROVE  ExportInv'
  <1>1. AnnouncedInv'
    BY AnnouncedNext DEF ExportInv, Noticed
  <1>2. Intact'
    <2>1. clip' = clip
      BY DEF Next, Main, MakeDir, OpenMovie, SetRange, Seek, NextFrame, OpenDump,
             WriteDump, OpenJP4, WriteDNG, WritePGM, WriteJPEG, Convert, Unlink,
             Report, Finish, Kill, Rerun, vars
    <2> QED BY <2>1 DEF ExportInv, Intact
  <1>t. /\ StartFrame \in Nat \ {0} /\ NFrames \in Int /\ pos \in Nat
        /\ currentFrame \in Nat /\ end \in Int /\ start \in Nat
        /\ clip.nb_frames \in Nat /\ clip.packets \in Nat
        /\ clip.packets >= clip.nb_frames /\ ~damaged
    BY RangeTypes DEF ExportInv, AnnouncedInv, Inv, TypeOK, Intact
  <1>f. "read" \notin Faults /\ "shortWrite" \notin Faults
    BY DEF Noticed
  <1>3. CASE Seek
    <2>1. SUFFICES ~SeekFails
      BY <1>1, <1>2, <1>3, <1>t, <2>1 DEF ExportInv, Seek
    <2>2. /\ pc = "seek" /\ start = StartFrame /\ pos = currentFrame
          /\ currentFrame < start
      BY <1>3, <1>t DEF Seek, ExportInv, AnnouncedInv, Inv, InStepInv, InStep
    <2>3. NFrames >= 0 /\ StartFrame + NFrames - 1 <= clip.nb_frames
      BY <2>2 DEF ExportInv, AnnouncedInv, AsAnnounced
    <2>4. SeekFails => pos >= clip.packets /\ currentFrame + 1 < start
      BY <1>f DEF SeekFails, SeekFrame, ReadFails
    <2> QED BY <2>2, <2>3, <2>4, <1>t
  <1>4. CASE NextFrame
    <2>1. SUFFICES ~NextFails
      BY <1>1, <1>2, <1>4, <1>t, <2>1 DEF ExportInv, NextFrame
    <2>2. /\ pc = "loop" /\ pos = currentFrame - 1
      BY <1>4, <1>t
      DEF NextFrame, ExportInv, AnnouncedInv, Inv, InStepInv, InStep
    <2>3. /\ NFrames >= 0 /\ StartFrame + NFrames - 1 <= clip.nb_frames
          /\ end = StartFrame + NFrames - 1
      BY <2>2 DEF ExportInv, AnnouncedInv, AsAnnounced, Loop
    <2>4. NextFails => pos >= clip.packets /\ currentFrame <= end
      BY <1>f DEF NextFails, hasNext, ReadFails
    <2> QED BY <2>2, <2>3, <2>4, <1>t
  <1>5. CASE WriteDump
    BY <1>1, <1>2, <1>5, <1>f, <1>t DEF ExportInv, WriteDump
  <1>6. CASE WriteDNG \/ WritePGM \/ WriteJPEG
    <2>1. opts.formats \in FormatSets
      BY DEF ExportInv, AnnouncedInv, Inv, TypeOK, Options
    <2>2. UNCHANGED damaged
      BY <1>6, <2>1 DEF WriteDNG, WritePGM, WriteJPEG, Convert, Noticed
    <2> QED BY <1>1, <1>2, <2>2, <1>t DEF ExportInv
  <1>7. CASE UNCHANGED damaged \/ damaged' = FALSE
    BY <1>1, <1>2, <1>7, <1>t DEF ExportInv
  <1> QED
    BY <1>3, <1>4, <1>5, <1>6, <1>7
    DEF Next, Main, MakeDir, OpenMovie, SetRange, OpenDump, OpenJP4, Unlink,
        Report, Finish, Kill, Rerun, vars

\* A process touches no finished file.
LEMMA FilesKept ==
  ASSUME Inv, Main \/ Kill
  PROVE  \A g \in Formats, i \in Finished : disk'[g][i] = disk[g][i]
  <1>1. UNCHANGED disk \/ \E f \in Formats, d \in Data \cup {Absent} : Put(f, d)
    <2>1. /\ {Empty, Junk, Absent, frameData, image} \subseteq Data \cup {Absent}
          /\ {"jp4", "dng", "pgm", "jpeg"} \subseteq Formats
      BY DEF Inv, TypeOK, Data, Formats
    <2>2. BeingWritten \subseteq Formats
      BY RangeTypes DEF BeingWritten, Formats, Inv
    <2>3. CASE Kill
      BY <2>1, <2>2, <2>3 DEF Kill
    <2>4. CASE Main
      BY <2>1, <2>4
      DEF Main, MakeDir, OpenMovie, SetRange, Seek, NextFrame, OpenDump,
          WriteDump, OpenJP4, WriteDNG, WritePGM, WriteJPEG, Convert, Unlink,
          Report, Finish
    <2> QED BY <2>3, <2>4
  <1> QED BY <1>1, FinishedKept

\* What is exported depends on the finished files only; when there is none, no
\* frame is exported, since at least one format is asked for.
LEMMA ExportedKept ==
  ASSUME Inv, UNCHANGED opts, Finished' = Finished,
         \A g \in Formats, i \in Finished : disk'[g][i] = disk[g][i]
  PROVE  Exported' = Exported
  <1>1. opts.formats \subseteq Formats
    BY RangeTypes DEF Inv
  <1>2. \A k : \A f \in opts.formats :
          (\E i \in Finished : disk'[f][i] = k) <=>
          (\E i \in Finished : disk[f][i] = k)
    BY <1>1
  <1> QED BY <1>2 DEF Exported

LEMMA NoneExported ==
  ASSUME TypeOK, Finished = {}
  PROVE  Exported = {}
  <1>1. opts.formats # {}
    BY ArgsAssumption DEF TypeOK, Options
  <1> QED BY <1>1 DEF Exported

\* While the loop runs, the exported frames are those of the range before the
\* current one.
LEMMA ExportedSoFar ==
  ASSUME ExportInv, pc \in Loop
  PROVE  /\ Exported = StartFrame..(FrameOf(count_frame) - 1)
         /\ FrameOf(count_frame) <= StartFrame + NFrames
  <1>t. /\ StartFrame \in Nat \ {0} /\ CountStart \in Nat /\ NFrames \in Int
        /\ count_frame \in Nat /\ currentFrame \in Nat /\ end \in Int
        /\ clip.nb_frames \in Nat /\ clip.nb_frames <= MaxFrames
        /\ opts.formats # {} /\ MaxFrames \in Nat
    <2>1. Inv /\ TypeOK
      BY DEF ExportInv, AnnouncedInv, Inv
    <2>2. clip.nb_frames \in 0..MaxFrames /\ opts.formats # {}
      BY <2>1, ArgsAssumption DEF TypeOK, Options, Clips
    <2> QED BY <2>1, <2>2, RangeTypes, MaxFramesAssumption DEF TypeOK
  <1>1. /\ currentFrame >= FrameOf(count_frame)
        /\ pc \in Body => currentFrame = FrameOf(count_frame) + 1
        /\ pc = "loop" => currentFrame = FrameOf(count_frame)
        /\ count_frame >= CountStart
    BY <1>t
    DEF ExportInv, AnnouncedInv, Inv, InStepInv, InStep, Progress, Loop, FrameOf
  <1>2. /\ end = StartFrame + NFrames - 1 /\ end <= clip.nb_frames
        /\ currentFrame <= end + 1
    BY DEF ExportInv, AnnouncedInv, AsAnnounced
  <1>3. FrameOf(count_frame) \in Int /\ FrameOf(count_frame) <= end + 1
    BY <1>t, <1>1, <1>2 DEF FrameOf
  <1>4. \A f \in opts.formats, i \in Finished : disk[f][i] = FrameOf(i)
    BY DEF ExportInv, AnnouncedInv, Inv, OutputsMatchIndex
  <1>5. ASSUME NEW k \in Exported
        PROVE  k \in StartFrame..(FrameOf(count_frame) - 1)
    <2>1. PICK f \in opts.formats : TRUE
      BY <1>t
    <2>2. PICK i \in Finished : disk[f][i] = k
      BY <1>5, <2>1 DEF Exported
    <2>3. k = StartFrame + (i - CountStart) /\ i \in CountStart..(count_frame - 1)
      BY <1>4, <2>2 DEF FrameOf, Finished
    <2> QED BY <2>3, <1>t DEF FrameOf
  <1>6. ASSUME NEW k \in StartFrame..(FrameOf(count_frame) - 1)
        PROVE  k \in Exported
    <2> DEFINE i == CountStart + (k - StartFrame)
    <2>1. i \in Finished /\ FrameOf(i) = k
      BY <1>t, <1>3 DEF FrameOf, Finished
    <2>2. k \in 1..MaxFrames
      BY <1>t, <1>2, <1>3
    <2>3. \A f \in opts.formats : disk[f][i] = k
      BY <2>1, <1>4
    <2> QED BY <2>1, <2>2, <2>3 DEF Exported
  <1>7. FrameOf(count_frame) <= StartFrame + NFrames
    BY <1>2, <1>3, <1>t
  <1> QED BY <1>5, <1>6, <1>7

\* The same after a step.
LEMMA ExportedThen ==
  (ExportInv /\ pc \in Loop =>
     /\ Exported = StartFrame..(FrameOf(count_frame) - 1)
     /\ FrameOf(count_frame) <= StartFrame + NFrames)'
  <1>1. ExportInv /\ pc \in Loop =>
          /\ Exported = StartFrame..(FrameOf(count_frame) - 1)
          /\ FrameOf(count_frame) <= StartFrame + NFrames
    BY ExportedSoFar
  <1> QED BY <1>1, PTL

LEMMA RangeThen ==
  ASSUME TypeOK'
  PROVE  /\ StartFrame' \in Int /\ NFrames' \in Int /\ CountStart' \in Nat
         /\ clip'.nb_frames \in Nat
  <1>1. opts' \in Options /\ clip' \in Clips
    BY DEF TypeOK
  <1>2. /\ opts'.start \in StartArgs /\ opts'.frames \in FramesArgs
        /\ opts'.count \in CountArgs /\ clip'.nb_frames \in 0..MaxFrames
    BY <1>1 DEF Options, Clips
  <1>3. opts'.start \in Int /\ opts'.frames \in Int /\ opts'.count \in Int
    BY <1>2, ArgsAssumption
  <1>4. clip'.nb_frames \in Nat
    BY <1>2, MaxFramesAssumption
  <1> QED BY <1>3, <1>4 DEF StartFrame, NFrames, CountStart

\* Each step of movie2dng is a step of FrameExport, or none.
LEMMA ExportStep ==
  ASSUME ExportInv, ExportInv', [Next]_vars
  PROVE  [Abstract!ExportNext]_(Abstract!exportVars)
  <1>i. /\ Inv /\ Inv' /\ TypeOK /\ TypeOK' /\ AsAnnounced
        /\ ~damaged
    BY DEF ExportInv, AnnouncedInv, Inv
  <1>t. /\ StartFrame \in Nat \ {0} /\ CountStart \in Nat /\ NFrames \in Int
        /\ count_frame \in Nat
    BY <1>i, RangeTypes DEF TypeOK
  <1> DEFINE range == [first |-> StartFrame, last |-> StartFrame + NFrames - 1]
  <1>r. UNCHANGED <<opts, clip>> => range' = range
    BY SameRange
  <1> USE DEF Abstract!ExportNext, Abstract!exportVars
  <1>1. ASSUME UNCHANGED <<opts, clip>>, Exported' = Exported,
               pc \in Running, pc' \in Running \cup {"error", "killed"}
        PROVE  Abstract!GiveUp \/ UNCHANGED Abstract!exportVars
    BY <1>1, <1>r
    DEF Abstract!GiveUp, Status, Running, Loop, Body
  <1>2. ASSUME UNCHANGED <<opts, clip, count_frame>>, Main \/ Kill
        PROVE  Exported' = Exported
    <2>1. Finished' = Finished
      BY <1>2, SameRange DEF Finished
    <2> QED BY <1>2, <2>1, <1>i, FilesKept, ExportedKept
  <1>3. CASE \/ MakeDir \/ OpenMovie \/ Seek \/ NextFrame \/ OpenDump
             \/ WriteDump \/ OpenJP4 \/ Unlink \/ Kill
    <2>1. /\ UNCHANGED <<opts, clip, count_frame>>
          /\ Main \/ Kill
          /\ pc \in Running /\ pc' \in Running \cup {"error", "killed"}
      BY <1>3
      DEF MakeDir, OpenMovie, Seek, NextFrame, OpenDump, WriteDump, OpenJP4,
          Unlink, Kill, Goto, Main, Running, Loop, Body
    <2>2. Exported' = Exported
      BY <2>1, <1>2
    <2> QED BY <2>1, <2>2, <1>1
  <1>4. ASSUME NEW f \in Formats \ {"jp4"}, NEW l \in Body, Convert(f, l), Main
        PROVE  Abstract!GiveUp \/ UNCHANGED Abstract!exportVars
    <2>1. /\ UNCHANGED <<opts, clip, count_frame>>
          /\ pc \in Running /\ pc' \in Running \cup {"error", "killed"}
      BY <1>4 DEF Convert, Goto, Formats, Running, Loop, Body
    <2> QED BY <2>1, <1>1, <1>2, <1>4
  <1>5. CASE SetRange
    <2>1. /\ UNCHANGED <<opts, clip>> /\ pc = "range" /\ count_frame = 0
          /\ count_frame' \in {0, CountStart} /\ pc' \in {"seek", "error"}
      BY <1>5, <1>i DEF SetRange, Goto, Inv, InStepInv, Progress
    <2>2. Finished = {} /\ Finished' = {}
      BY <2>1, <1>t, SameRange DEF Finished
    <2>3. Exported = {}
      BY <2>2, <1>i, NoneExported
    <2>4. Exported' = {}
      <3>1. opts'.formats # {}
        BY <1>i, ArgsAssumption DEF TypeOK, Options
      <3> QED BY <3>1, <2>2 DEF Exported
    <2> QED BY <2>1, <2>3, <2>4, <1>1 DEF Running, Loop, Body
  <1>6. CASE Report
    <2> DEFINE k == FrameOf(count_frame)
    <2>1. /\ UNCHANGED <<opts, clip>> /\ pc = "report" /\ pc' = "loop"
          /\ count_frame' = count_frame + 1
      BY <1>6 DEF Report, Goto
    <2>2. /\ Exported = StartFrame..(k - 1)
          /\ k \in Int /\ k >= StartFrame
      BY <2>1, <1>i, <1>t, ExportedSoFar
      DEF Loop, Body, FrameOf, Inv, InStepInv, Progress
    <2>3. /\ Exported' = StartFrame..k
          /\ k + 1 <= StartFrame + NFrames
      <3>1. /\ Exported' = StartFrame'..(FrameOf(count_frame)' - 1)
            /\ FrameOf(count_frame)' <= StartFrame' + NFrames'
        BY <2>1, ExportedThen DEF Loop
      <3>2. FrameOf(count_frame)' = k + 1
        BY <2>1, <1>t, SameRange DEF FrameOf
      <3> QED BY <2>1, <2>2, <3>1, <3>2, SameRange
    <2>4. /\ Exported' = Exported \cup {k}
          /\ k \in (StartFrame..(StartFrame + NFrames - 1)) \ Exported
          /\ \A j \in (StartFrame..(StartFrame + NFrames - 1)) \ Exported : k <= j
      BY <2>2, <2>3, <1>t
    <2>5. Status = "running" /\ Status' = Status
      BY <2>1 DEF Status
    <2> QED
      BY <2>1, <2>4, <2>5, <1>r DEF Abstract!Export, Abstract!Requested
  <1>7. CASE Finish
    <2>1. /\ UNCHANGED <<opts, clip, count_frame>> /\ pc = "loop" /\ pc' = "ok"
          /\ Main
      BY <1>7 DEF Finish, Goto, Main
    <2>2. Exported = StartFrame..(StartFrame + NFrames - 1)
      <3>1. Exported = StartFrame..(FrameOf(count_frame) - 1)
        BY <2>1, ExportedSoFar DEF Loop
      <3>2. /\ FrameOf(count_frame) = currentFrame /\ currentFrame \in Nat
            /\ currentFrame <= end + 1 /\ end = StartFrame + NFrames - 1
            /\ currentFrame > end /\ end \in Int
        BY <2>1, <1>7, <1>i
        DEF Inv, InStepInv, InStep, AsAnnounced, Loop, Finish, hasNext, TypeOK
      <3> QED BY <3>1, <3>2, <1>t
    <2>3. Status = "running" /\ Status' = "ok" /\ Exported' = Exported
      BY <2>1, <1>2 DEF Status
    <2> QED
      BY <2>1, <2>2, <2>3, <1>r DEF Abstract!Succeed, Abstract!Requested
  <1>8. CASE Rerun
    <2>1. /\ pc \in Ended /\ pc' = "setup" /\ count_frame' = 0
      BY <1>8 DEF Rerun
    <2>2. Exported' = {} /\ range' \in [first : Int, last : Int]
      <3>1. CountStart' \in Nat /\ StartFrame' \in Int /\ NFrames' \in Int
        BY <1>i, RangeThen
      <3>2. opts'.formats # {}
        BY <1>i, ArgsAssumption DEF TypeOK, Options
      <3>3. Finished' = {}
        BY <2>1, <3>1 DEF Finished
      <3> QED BY <3>1, <3>2, <3>3 DEF Exported
    <2>3. Status # "running" /\ Status' = "running"
      BY <2>1 DEF Status, Ended
    <2> QED BY <2>2, <2>3 DEF Abstract!Again
  <1>9. CASE UNCHANGED vars
    <2>1. UNCHANGED <<opts, clip, count_frame, disk, pc>>
      BY <1>9 DEF vars, mainVars
    <2>2. Exported' = Exported
      BY <2>1, SameRange DEF Exported, Finished
    <2> QED BY <2>1, <2>2, <1>r DEF Status
  <1>10. CASE WriteDNG \/ WritePGM \/ WriteJPEG
    BY <1>4, <1>10 DEF WriteDNG, WritePGM, WriteJPEG, Formats, Body, Main
  <1> QED
    BY <1>3, <1>5, <1>6, <1>7, <1>8, <1>9, <1>10 DEF Next, Main

\* On an undamaged clip movie2dng implements FrameExport: the frames of the
\* range become files one after the other, it says that it is done only when
\* they are all there, and gives up otherwise.  So for every clip, range,
\* renumbering and set of formats, whatever earlier runs left on the disk, and
\* wherever the process is killed or cannot open a file.
THEOREM Refinement ==
  ASSUME Noticed
  PROVE  Init /\ Intact /\ [][Next]_vars => ImplementsFrameExport
  <1>1. Init /\ Intact => ExportInv
    BY AnnouncedInit DEF ExportInv, Init
  <1>2. ExportInv /\ [Next]_vars => ExportInv'
    BY ExportInvNext
  <1>3. Init => Abstract!ExportInit
    <2> SUFFICES ASSUME Init PROVE Abstract!ExportInit
      OBVIOUS
    <2>1. TypeOK /\ Finished = {}
      BY InitTypeOK, RangeTypes DEF Init, Finished
    <2> QED BY <2>1, NoneExported DEF Abstract!ExportInit, Init, Status
  <1>4. ExportInv /\ ExportInv' /\ [Next]_vars =>
          [Abstract!ExportNext]_(Abstract!exportVars)
    BY ExportStep
  <1> QED
    BY <1>1, <1>2, <1>3, <1>4, PTL
    DEF ImplementsFrameExport, Abstract!ExportSpec
=============================================================================
