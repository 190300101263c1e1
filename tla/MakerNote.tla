------------------------------ MODULE MakerNote ------------------------------
(***************************************************************************)
(* How JP4::readMakerNote of src/Movie2DNG/src/jp4.cpp takes the settings  *)
(* of the camera out of the words of its maker note.  The note is given as *)
(* the set of the bits that are 1 in its bytes; the user of the camera     *)
(* changes one bit of a setting from frame to frame.                       *)
(***************************************************************************)
EXTENDS Integers, FiniteSets, FiniteSetsExt

CONSTANTS
  Lengths,    \* lengths of a note, in words
  FirstData,  \* notes to begin with
  MaxChanges  \* bound on the settings changed

\* Of notes under eight words, words behind the end are read.
ASSUME MakerNoteAssumption ==
  /\ Lengths \subseteq {n \in Nat : n >= 8}
  /\ MaxChanges \in Nat

VARIABLES
  makerNoteLength,
  data,     \* <<byte, bit>> for every bit that is 1
  changes   \* bounded counter

noteVars == <<makerNoteLength, data, changes>>

Bits == {<<k, b>> : k \in 0..(4 * makerNoteLength - 1), b \in 0..7}

NoteInit ==
  /\ makerNoteLength \in Lengths
  /\ \E first \in FirstData :
       data = {d \in first : d[1] < 4 * makerNoteLength}
  /\ changes = 0

Change ==
  /\ changes < MaxChanges
  /\ \E d \in Bits :
       data' = IF d \in data THEN data \ {d} ELSE data \cup {d}
  /\ changes' = changes + 1
  /\ UNCHANGED makerNoteLength

NoteNext == Change

NoteSpec == NoteInit /\ [][NoteNext]_noteVars

-----------------------------------------------------------------------------
(* Words and their parts. *)

\* get_long: the first byte of a word is its highest.
IsSet(i, b) == <<4 * i + 3 - b \div 8, b % 8>> \in data

Value(i, bits) ==
  SumSet({2 ^ (b - Min(bits)) : b \in {b \in bits : IsSet(i, b)}})

\* makerNote[i] >> from, masked with n ones.
Field(i, from, n) == Value(i, from..(from + n - 1))

\* makerNote[i] >> from: the int that get_long returns has a sign, and keeps
\* it as a long.
Shifted(i, from) ==
  Value(i, from..30) - (IF IsSet(i, 31) THEN 2 ^ (31 - from) ELSE 0)

\* Mutant: a field of 8 bits.
BinVerWide == Field(10, 20, 8)

BinVer == Field(10, 20, 4)

ColorMode == Field(10, 4, 4)

Channels == 0..3

\* Fields of every note; a gain is given as its whole and its fractional part.
ChannelFields ==
  [f \in {"gain", "gamma_scale", "gamma", "black"} \X Channels |->
     LET i == f[2] IN
     CASE f[1] = "gain"        -> <<Shifted(i, 16), Field(i, 0, 16)>>
       [] f[1] = "gamma_scale" -> <<Field(i + 4, 0, 16)>>
       [] f[1] = "gamma"       -> <<Field(i + 4, 16, 8)>>
       [] f[1] = "black"       -> <<Shifted(i + 4, 24)>>]

FrameFields ==
  [woi_left   |-> Field(8, 0, 16), woi_width  |-> Field(8, 16, 16),
   woi_top    |-> Field(9, 0, 16), woi_height |-> Shifted(9, 16),
   flip_hor   |-> Field(10, 0, 1), flip_ver   |-> Field(10, 1, 1),
   bayer_mode |-> Field(10, 2, 2), color_mode |-> ColorMode,
   decim_hor  |-> Field(10, 8, 4), decim_ver  |-> Field(10, 12, 4),
   bin_hor    |-> Field(10, 16, 4), bin_ver   |-> BinVer]

Composite == IsSet(10, 30) \/ IsSet(10, 31)

\* A composite frame has three images with blank lines between them; the
\* height of the third is what the others leave.
CompositeFields ==
  LET height1 == Field(11, 0, 16)  blank1 == Field(11, 16, 16)
      height2 == Field(12, 0, 16)  blank2 == Field(12, 16, 16)
  IN  [height1 |-> height1, blank1 |-> blank1,
       height2 |-> height2, blank2 |-> blank2,
       height3 |-> Shifted(9, 16) - height1 - blank1 - height2 - blank2,
       flip_h1 |-> Field(10, 24, 1), flip_v1 |-> Field(10, 25, 1),
       flip_h2 |-> Field(10, 26, 1), flip_v2 |-> Field(10, 27, 1),
       flip_h3 |-> Field(10, 28, 1), flip_v3 |-> Field(10, 29, 1)]

HasFrameFields == makerNoteLength >= 12
HasComposite == makerNoteLength >= 14

-----------------------------------------------------------------------------
(* Properties. *)

Differing(f, g) == {k \in DOMAIN f : f[k] # g[k]}

\* The fields of the frame that a step changes, but for the height that is
\* computed from others.
Changed ==
  Differing(ChannelFields, ChannelFields')
  \cup (IF HasFrameFields THEN Differing(FrameFields, FrameFields') ELSE {})
  \cup (IF HasComposite /\ Composite /\ Composite'
        THEN Differing(CompositeFields, CompositeFields') \ {"height3"}
        ELSE {})

\* The bits that some field takes: not those of what describes a composite
\* frame, when the frame is none, nor the words behind those that are read.
LastWord == IF HasComposite /\ Composite THEN 12
            ELSE IF HasFrameFields THEN 10 ELSE 7

Counts(d) ==
  LET word == d[1] \div 4
      bit  == d[2] + 8 * (3 - (d[1] % 4))
  IN  /\ word <= LastWord
      /\ (word = 10 => bit < (IF LastWord = 12 THEN 30 ELSE 24))

\* The shifts and masks cut the words into fields that neither overlap nor
\* leave a setting out: a bit of the camera's settings that changes shows in
\* one field, and whether a frame is composite is a setting of its own.
OneFieldPerBit ==
  [][/\ Cardinality(Changed) <= 1
     /\ Composite # Composite' => Changed = {}
     /\ \A d \in (data \ data') \cup (data' \ data) :
          Counts(d) => Changed # {}]_noteVars
=============================================================================
