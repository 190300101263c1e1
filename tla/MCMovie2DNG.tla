----------------------------- MODULE MCMovie2DNG -----------------------------
(* Values of the constants of Movie2DNG for TLC. *)
EXTENDS Movie2DNG

\* Under every failure: ranges that start before, inside and after the clip,
\* cropped and not, with and without renumbering.
MCFaults     == FaultKinds
MCStartArgs  == {0, 2, 3}
MCFramesArgs == {0, 1, 2}
MCCountArgs  == {-1, 0}
MCFormatSets == {{"dng", "pgm"}, {"jp4", "jpeg"}}

\* A second run comes after one over the whole clip, under the frames' own
\* numbers, goes to the end of the clip too, and finds it as long as its header
\* says, although it may still fail to read a frame.
ToTheEnd(o) == o.start # 3 /\ o.frames = 0 /\ o.count = -1
SecondRun   == /\ clip.packets = clip.nb_frames
               /\ opts.start = 0 /\ ToTheEnd(opts) /\ ToTheEnd(opts')

FaultySpec == Init /\ [][Next /\ (Rerun => SecondRun)]_vars

\* What the runs that end in a violation take from.
MCStartArgs2  == {0, 2}
MCFramesArgs2 == {0}

\* An undamaged clip, on a system that may refuse to open a file or kill the
\* process.  Without "read" and "shortWrite" nothing fails unnoticed, except
\* for a PGM file that cannot be opened: that format is left out.
MCFaults3     == {"fopen", "kill"}
MCStartArgs3  == {-1, 0, 2, 3}
MCFramesArgs3 == {0, 1, 2, 3}
MCCountArgs3  == {-1, 0}
MCFormatSets3 == {{"dng"}, {"jp4", "jpeg"}}

IntactInit == Init /\ Intact

IntactSpec == IntactInit /\ [][Next]_vars /\ Fairness

\* The three runs that TLC refutes: a clip that ends early, a range computed
\* from a negative --frames, and a second run over kept JP4 files.
MCNoFaults    == {}
MCStartArgs4  == {0, 3}
MCStartArgs5  == {3}
MCFramesArgs4 == {-2}
MCCountArgs4  == {-1}
MCFramesArgs5 == {1, 2}
MCFormatSets4 == {{"dng"}}
MCFormatSets5 == {{"dng", "jp4"}, {"dng"}}
=============================================================================
