---------------------------- MODULE Orientation ----------------------------
(***************************************************************************)
(* dng_orientation of the DNG SDK (src/Movie2DNG/extra/dng_sdk), which     *)
(* keeps one of the eight ways to turn and mirror an image as three bits:  *)
(* bits 0 and 1 count quarter turns clockwise, bit 2 is a mirror.          *)
(***************************************************************************)
EXTENDS Integers, Sequences, Functions

Orientations == 0..7
Normal       == 0
Rotate180    == 2
Mirror       == 4
Mirror180    == 6

Bit(x, b)    == (x \div b) % 2 = 1
Toggle(x, b) == IF Bit(x, b) THEN x - b ELSE x + b
And4(x)      == IF Bit(x, 4) THEN 4 ELSE 0

\* The orientations in the order of TIFF's numbers 1 to 8.
TIFF == <<0, 4, 2, 6, 7, 1, 5, 3>>

SetTIFF(tiff) == IF tiff \in DOMAIN TIFF THEN TIFF[tiff] ELSE Normal

GetTIFF(o) == AntiFunction(TIFF)[o]

FlipD(o) == Bit(o, 1)
FlipH(o) == IF Bit(o, 4) THEN ~Bit(o, 2) ELSE Bit(o, 2)

FlipV(o) == IF Bit(o, 4) THEN FlipD(o) = FlipH(o) ELSE FlipD(o) # FlipH(o)

\* operator-: the orientation that undoes o.
Minus(o) ==
  LET x == IF Bit(o, 1) /\ Bit(o, 4) THEN Toggle(o, 2) ELSE o
  IN  ((4 - x) % 4) + And4(x)

\* Mutant: the quarter turns of a mirrored image not reversed.
PlusTurns(a, b) ==
  LET x == IF Bit(b, 4) THEN Toggle(a, 4) ELSE a
  IN  ((x + b) % 4) + And4(x)

\* operator+: first a, then b.
Plus(a, b) ==
  LET x == CASE ~Bit(b, 4) -> a
             [] Bit(b, 4) /\ Bit(a, 1) -> Toggle(Toggle(a, 2), 4)
             [] OTHER -> Toggle(a, 4)
  IN  ((x + b) % 4) + And4(x)
=============================================================================
