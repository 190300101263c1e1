---------------------------- MODULE ReverseTable ----------------------------
(***************************************************************************)
(* Gamma::reverseTable of src/Movie2DNG/src/gamma.cpp: the gamma table of  *)
(* the camera is computed again from the maker note, and one walk through  *)
(* it finds for each 8-bit value the 16-bit value the sensor had.  The     *)
(* walk never goes back, so the table must rise, and reach far enough.     *)
(***************************************************************************)
EXTENDS Integers

CONSTANTS
  N,        \* 256: steps of the gamma table, which has N + 1 entries
  Step,     \* 256: distance of two 8-bit values on the 16-bit scale
  One,      \* 0x400: the gamma_scale that stands for 1.0
  IntSpan,  \* 2^32: number of values of an int
  Curves,   \* 65535 * pow(x, gamma), rounded, for the table's abscissae
  Scales    \* the values of gamma_scale

Top == N * Step - 1  \* 0xffff

\* pow rises with its argument, which is 1 at the end of the table.  With steps
\* of one or two, the middle of the last step would be white itself.
ASSUME ReverseTableAssumption ==
  /\ N \in Nat \ {0} /\ Step \in Nat \ 0..2 /\ One \in Nat \ {0}
  /\ IntSpan \in Nat \ {0}
  /\ Curves \subseteq [0..N -> 0..Top]
  /\ \A c \in Curves : c[N] = Top /\ \A n \in 1..N : c[n - 1] <= c[n]
  /\ Scales \subseteq 0..Top

VARIABLES
  curve, gamma_scale,  \* the arguments, black being part of the curve
  i, indx,             \* the value being reversed, and where the walk is
  rgTable,             \* the result; Unset where it is not computed yet
  tableBeyond          \* history: gtable[N + 1] was read

tableVars == <<curve, gamma_scale, i, indx, rgTable, tableBeyond>>

Unset == -1

\* Arithmetic of C: division towards zero, an int that overflows.
Trunc(a, b) ==
  LET Abs(x) == IF x < 0 THEN -x ELSE x
      q == Abs(a) \div Abs(b)
  IN  IF (a < 0) = (b < 0) THEN q ELSE -q
Wrap(x) == ((x + IntSpan \div 2) % IntSpan) - IntSpan \div 2

Clip(ig) == IF ig > Top THEN Top ELSE ig

gtable == [n \in 0..N |-> Clip(Trunc(Wrap(curve[n] * gamma_scale), One))]

OutValue(n) == Step \div 2 + n * Step

\* Mutant: interpolated from the far end of the step.
InterpolateFromEnd(k, out) ==
  Trunc(Step * (k * (gtable[k + 1] - gtable[k]) + (out - gtable[k + 1])),
        gtable[k + 1] - gtable[k]) % (Top + 1)

\* The place of out between two entries, cast to unsigned short.
Interpolate(k, out) ==
  Trunc(Step * (k * (gtable[k + 1] - gtable[k]) + (out - gtable[k])),
        gtable[k + 1] - gtable[k]) % (Top + 1)

\* The two fallbacks are on the scale of 8-bit values.
Reversed ==
  CASE indx >= N -> Top \div N
    [] indx < N /\ gtable[indx + 1] = gtable[indx] -> i
    [] OTHER -> Interpolate(indx, OutValue(i))

TableFresh ==
  /\ i = 0 /\ indx = 0
  /\ rgTable = [n \in 0..(N - 1) |-> Unset]
  /\ tableBeyond = FALSE

TableInit == curve \in Curves /\ gamma_scale \in Scales /\ TableFresh

\* The loop tests gtable[indx + 1] first and indx < N second.
Advance ==
  /\ i < N
  /\ indx < N /\ gtable[indx + 1] < OutValue(i)
  /\ indx' = indx + 1
  /\ UNCHANGED <<curve, gamma_scale, i, rgTable, tableBeyond>>

Store ==
  /\ i < N
  /\ indx < N => gtable[indx + 1] >= OutValue(i)
  /\ tableBeyond' = (tableBeyond \/ indx = N)
  /\ rgTable' = [rgTable EXCEPT ![i] = Reversed]
  /\ i' = i + 1
  /\ UNCHANGED <<curve, gamma_scale, indx>>

TableNext == Advance \/ Store

TableSpec == TableInit /\ [][TableNext]_tableVars

-----------------------------------------------------------------------------
(* Properties. *)

\* The arguments for which the product of curve and scale fits an int and the
\* table ends at white, and those for which it starts at black.
Fits == One <= gamma_scale /\ gamma_scale * Top < IntSpan \div 2
Dark == curve[0] = 0

\* Value n goes back to where the camera's own interpolation gives n, up to
\* one unit of the result.
ReversedAt(n) ==
  LET k == rgTable[n] \div Step
      f == rgTable[n] % Step
      Camera(r) == Step * gtable[k] + r * (gtable[k + 1] - gtable[k])
  IN  Camera(f) <= Step * OutValue(n) /\ Step * OutValue(n) <= Camera(f + 1)

\* With such a scale the walk stops inside the table, although the bound of
\* its loop is tested after the entry it is to guard; both fallbacks stay
\* unused, and the result is the inverse of the gamma table, flat stretches
\* and clipped ends included.
ReversesCamera ==
  Fits => /\ ~tableBeyond
          /\ Dark => \A n \in 0..(i - 1) : ReversedAt(n)
=============================================================================
