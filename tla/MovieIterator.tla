--------------------------- MODULE MovieIterator ---------------------------
(***************************************************************************)
(* Movie and MovieIterator (src/Movie2DNG/src/movie.cpp): sequential       *)
(* access to the frames of a clip through libavformat.                     *)
(*                                                                         *)
(* The demuxer is outside this repository.  It is modelled by what the     *)
(* iterator sees of it: nb_frames, the frame count the container's header  *)
(* declares, and av_read_frame, which hands out the packets of the file in *)
(* order and fails for ever once they are used up.  The two numbers are    *)
(* independent: the file of an interrupted recording holds fewer packets   *)
(* than its header declares.                                               *)
(***************************************************************************)
EXTENDS Integers

CONSTANTS
  MaxFrames,  \* bound on the length of a clip, declared or actual
  Faults      \* the failures the environment of this instance may produce

FaultKinds == {"read", "shortWrite", "fopen", "kill"}

ASSUME MaxFramesAssumption == MaxFrames \in Nat
ASSUME FaultsAssumption == Faults \subseteq FaultKinds

VARIABLES
  clip,          \* [nb_frames, packets] of the opened file; never changes
  pos,           \* number of packets the demuxer has consumed
  start, end,    \* MovieIterator::start and ::end, C ints
  currentFrame,  \* MovieIterator::currentFrame
  frameData      \* what the pointer next() handed out refers to

iterVars == <<pos, start, end, currentFrame, frameData>>

(***************************************************************************)
(* What a buffer or a file holds: k > 0 is the intact data of the k-th     *)
(* frame of the clip, the others are named.                                *)
(***************************************************************************)
Empty  == 0    \* zero bytes: a null pointer with size 0, a file just opened
Junk   == -1   \* bytes that are not a whole frame
Absent == -2   \* no such file

Data == {Empty, Junk} \cup 1..MaxFrames

Clips == [nb_frames : 0..MaxFrames, packets : 0..MaxFrames]

-----------------------------------------------------------------------------
(* av_read_frame, as the iterator uses it. *)

ReadOk ==
  /\ pos < clip.packets
  /\ pos' = pos + 1

\* The end of the file, or an I/O error.  An error may or may not have moved
\* the demuxer past the packet it could not deliver.
ReadFails ==
  \/ /\ pos >= clip.packets
     /\ UNCHANGED pos
  \/ /\ "read" \in Faults
     /\ pos < clip.packets
     /\ pos' \in {pos, pos + 1}

-----------------------------------------------------------------------------
(* The constructor. The caller's arguments are C longs narrowed to unsigned *)
(* and then to int; that is the identity on the values of the model.        *)

\* Mutant: the iterator counts from zero.
IterStartFromZero(s) == IF s = 0 THEN 1 ELSE s - 1

IterStart(s) == IF s = 0 THEN 1 ELSE s

IterEnd(e) == IF e = 0 \/ e > clip.nb_frames THEN clip.nb_frames ELSE e

Construct(s, e) ==
  /\ start' = IterStart(s)
  /\ end' = IterEnd(e)
  /\ currentFrame' = 0
  /\ UNCHANGED <<pos, frameData>>

\* Mutant: one frame too many is skipped.
SeekFrameTooFar ==
  /\ currentFrame < start
  /\ currentFrame' = currentFrame + 1
  /\ UNCHANGED <<start, end, frameData>>

\* One turn of the loop that skips the frames before start; the result of
\* the read is ignored.
SeekFrame ==
  /\ currentFrame + 1 < start
  /\ currentFrame' = currentFrame + 1
  /\ UNCHANGED <<start, end, frameData>>

SeekOk    == SeekFrame /\ ReadOk
SeekFails == SeekFrame /\ ReadFails

SeekDone ==
  /\ currentFrame + 1 >= start
  /\ currentFrame' = currentFrame + 1
  /\ UNCHANGED <<pos, start, end, frameData>>

-----------------------------------------------------------------------------
\* Mutant: the last frame of the range is left out.
hasNextExclusive == currentFrame < end

hasNext == currentFrame <= end

\* Mutant: next() forgets to count the frame.
NextOkUncounted ==
  /\ hasNext
  /\ ReadOk
  /\ frameData' = pos + 1
  /\ UNCHANGED <<start, end, currentFrame>>

\* next() delivers a frame.
NextOk ==
  /\ hasNext
  /\ ReadOk
  /\ frameData' = pos + 1
  /\ currentFrame' = currentFrame + 1
  /\ UNCHANGED <<start, end>>

\* next() returns false: currentFrame stays, and so does the caller's data
\* pointer.  From the second call on the packet behind that pointer has been
\* freed, so reading through it yields the old bytes or anything else.
NextFails ==
  /\ hasNext
  /\ ReadFails
  /\ frameData' \in (IF currentFrame > start THEN {frameData, Junk}
                                             ELSE {frameData})
  /\ UNCHANGED <<start, end, currentFrame>>
=============================================================================
