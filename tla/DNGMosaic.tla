------------------------------ MODULE DNGMosaic ------------------------------
(***************************************************************************)
(* How a raw image keeps its colours while it is mirrored and turned:      *)
(* DNGWriter::write of src/Movie2DNG/src/dngwriter.cpp chooses the Bayer   *)
(* phase and the orientation of the image from the flips of the maker      *)
(* note, the tag goes through a DNG file, and who opens the file adds up   *)
(* orientations (dng_negative) and turns pixels (dng_simple_image) by the  *)
(* SDK in src/Movie2DNG/extra/dng_sdk.                                     *)
(***************************************************************************)
EXTENDS Orientation

CONSTANTS
  Sizes,       \* <<width, height>> of the images, even as the camera's are
  Shifts,      \* values of --shift; -1 stands for none
  MaxTurns     \* bound: orientations applied to one image

ASSUME DNGMosaicAssumption ==
  /\ Sizes \subseteq Nat \X Nat
  /\ \A s \in Sizes : s[1] > 0 /\ s[1] % 2 = 0 /\ s[2] > 0 /\ s[2] % 2 = 0
  /\ Shifts \subseteq -1..3
  /\ MaxTurns \in Nat

VARIABLES
  phase,       \* "write", "written" or "opened"
  flip_hor, flip_ver,        \* of the maker note: how the sensor is read out
  bayerShift,
  size,        \* <<width, height>> of the stored image
  fCFAPattern,
  fBaseOrientation,
  tag,         \* Orientation of the file
  simpleImage, \* pixel buffer: fData, fColStep, fRowStep and the bounds
  turns        \* orientations applied so far

mosaicInputs == <<flip_hor, flip_ver, bayerShift, size>>
mosaicVars == <<phase, mosaicInputs, fCFAPattern, fBaseOrientation, tag,
                simpleImage, turns>>

\* fCFAPattern, row by row, for the four phases of SetBayerMosaic.
Bayer ==
  [p \in 0..3 |->
     CASE p = 0 -> << <<"G", "R">>, <<"B", "G">> >>
       [] p = 1 -> << <<"R", "G">>, <<"G", "B">> >>
       [] p = 2 -> << <<"B", "G">>, <<"G", "R">> >>
       [] p = 3 -> << <<"G", "B">>, <<"R", "G">> >>]

\* Without a shift the pattern stays as the flips have set it.
SetBayerMosaic(pattern, p) == IF p \in DOMAIN Bayer THEN Bayer[p] ELSE pattern

\* Mutant: the phases of the two single flips exchanged.
PhaseSwapped(hor, ver) == 2 * hor + ver

PhaseOfFlips(hor, ver) == hor + 2 * ver

OrientationOfFlips(hor, ver) ==
  CASE hor = 0 /\ ver = 0 -> Normal
    [] hor = 1 /\ ver = 0 -> Mirror
    [] hor = 0 /\ ver = 1 -> Mirror180
    [] hor = 1 /\ ver = 1 -> Rotate180

Fresh(w, h) == [fData |-> 0, fColStep |-> 1, fRowStep |-> w, w |-> w, h |-> h]

Pixel(img, row, col) == img.fData + row * img.fRowStep + col * img.fColStep

\* dng_simple_image::Rotate: no pixel moves, the steps change.
Rotate(img, o) ==
  LET colStep == IF FlipH(o) THEN -img.fColStep ELSE img.fColStep
      rowStep == IF FlipV(o) THEN -img.fRowStep ELSE img.fRowStep
      data    == Pixel(img, IF FlipV(o) THEN img.h - 1 ELSE 0,
                            IF FlipH(o) THEN img.w - 1 ELSE 0)
  IN  IF FlipD(o)
      THEN [fData |-> data, fColStep |-> rowStep, fRowStep |-> colStep,
            w |-> img.h, h |-> img.w]
      ELSE [fData |-> data, fColStep |-> colStep, fRowStep |-> rowStep,
            w |-> img.w, h |-> img.h]

MosaicFresh ==
  /\ phase = "write"
  /\ fCFAPattern = << >> /\ fBaseOrientation = Normal
  /\ tag = 0
  /\ simpleImage = Fresh(size[1], size[2])
  /\ turns = 0

MosaicInit ==
  /\ flip_hor \in 0..1 /\ flip_ver \in 0..1
  /\ bayerShift \in Shifts
  /\ size \in Sizes
  /\ MosaicFresh

\* The shift of the command line comes after the flips; GetTIFF is called when
\* the file is written.
Write ==
  /\ phase = "write"
  /\ fCFAPattern' =
       SetBayerMosaic(Bayer[PhaseOfFlips(flip_hor, flip_ver)], bayerShift)
  /\ fBaseOrientation' = OrientationOfFlips(flip_hor, flip_ver)
  /\ tag' = GetTIFF(fBaseOrientation')
  /\ phase' = "written"
  /\ UNCHANGED <<mosaicInputs, simpleImage, turns>>

\* A reader takes the tag and turns the stored image by it.
Open ==
  /\ phase = "written"
  /\ fBaseOrientation' = SetTIFF(tag)
  /\ simpleImage' = Rotate(simpleImage, fBaseOrientation')
  /\ phase' = "opened"
  /\ UNCHANGED <<mosaicInputs, fCFAPattern, tag, turns>>

\* ApplyOrientation adds to the orientation and the tag of the file follows
\* it; the image in hand is turned again.
ApplyOrientation(o) ==
  /\ phase = "opened" /\ turns < MaxTurns
  /\ fBaseOrientation' = Plus(fBaseOrientation, o)
  /\ tag' = GetTIFF(fBaseOrientation')
  /\ simpleImage' = Rotate(simpleImage, o)
  /\ turns' = turns + 1
  /\ UNCHANGED <<phase, mosaicInputs, fCFAPattern>>

MosaicNext == Write \/ Open \/ \E o \in Orientations : ApplyOrientation(o)

MosaicSpec == MosaicInit /\ [][MosaicNext]_mosaicVars

-----------------------------------------------------------------------------
(* Properties. *)

Stored == Fresh(size[1], size[2])

\* What a point of the turned image shows, by the pattern of the file.
Colour(row, col) ==
  LET p == Pixel(simpleImage, row, col)
  IN  fCFAPattern[((p \div size[1]) % 2) + 1][((p % size[1]) % 2) + 1]

\* Without --shift, an image that is opened as its tag says has the colours of
\* the sensor, green and red over blue and green, whatever was flipped.
SensorColours ==
  (phase = "opened" /\ turns = 0 /\ bayerShift = -1) =>
    \A row \in 0..(simpleImage.h - 1), col \in 0..(simpleImage.w - 1) :
       Colour(row, col) = Bayer[0][(row % 2) + 1][(col % 2) + 1]

\* Turning the pixels time and again shows what turning the stored image once
\* by the sum of the orientations shows, the tag of the file holds that sum,
\* and the opposite orientation takes the image back to how it is stored.
TagKeepsTurns ==
  phase = "opened" =>
    /\ Rotate(Stored, SetTIFF(tag)) = simpleImage
    /\ Rotate(simpleImage, Minus(fBaseOrientation)) = Stored
=============================================================================
