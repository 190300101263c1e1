------------------------------ MODULE Deblock ------------------------------
(***************************************************************************)
(* The camera stores an image in JP4 order: each block of the JPEG image   *)
(* holds the four colours of its pixels one after the other.  Two programs *)
(* put the pixels back: JP4::open of src/Movie2DNG/src/jp4.cpp, in one     *)
(* flat array, and elphel_dng (src/JP4toDNGconverter/source/elphel_dng.c), *)
(* a strip of lines at a time, from a decoder that may deliver fewer lines *)
(* than it is asked for.                                                   *)
(***************************************************************************)
EXTENDS Integers

CONSTANT DeblockDims  \* widths and heights of the images

ASSUME DeblockAssumption == DeblockDims \subseteq Nat \ {0}

Block == 16

VARIABLES
  program,         \* "movie2dng" or "elphel_dng"
  width, height,
  deblockPc,
  output_scanline, \* lines the decoder has delivered
  row, r, x,       \* line and column of a block, lines in the strip
  buf,             \* for each line of the strip, the line of the JPEG image
  out,             \* for a place of the new image, the place in the JPEG image
  beyond           \* history: a pixel outside the arrays was accessed

deblockImage == <<program, width, height>>
deblockVars ==
  <<deblockImage, deblockPc, output_scanline, row, r, x, buf, out, beyond>>

Size == width * height

DeblockFresh ==
  /\ output_scanline = 0 /\ row = 0 /\ r = 0 /\ x = 0
  /\ buf = [k \in 0..(Block - 1) |-> 0]
  /\ out = << >>
  /\ beyond = FALSE

DeblockInit ==
  /\ program \in {"movie2dng", "elphel_dng"}
  /\ width \in DeblockDims /\ height \in DeblockDims
  /\ deblockPc = "open"
  /\ DeblockFresh

\* Mutant: only the width is looked at.
WidthIsMultiple == width % Block = 0

IsMultiple == width % Block = 0 /\ height % Block = 0

\* elphel_dng gives up on other sizes, or when it cannot write; movie2dng does
\* not ask.
Open ==
  /\ deblockPc = "open"
  /\ \/ program = "movie2dng" /\ deblockPc' = "decode"
     \/ program = "elphel_dng" /\ IsMultiple /\ deblockPc' = "read"
     \/ program = "elphel_dng" /\ deblockPc' = "exit"
  /\ UNCHANGED <<deblockImage, output_scanline, row, r, x, buf, out, beyond>>

-----------------------------------------------------------------------------
(* movie2dng: the whole image is decoded into temp, then deblocked.  *)

index1 == [i \in 0..(Block - 1) |->
             IF i % 2 = 0 THEN i \div 2 ELSE Block \div 2 + i \div 2]

ReadImage ==
  /\ deblockPc = "decode"
  /\ output_scanline' = height
  /\ deblockPc' = "deblock"
  /\ UNCHANGED <<deblockImage, row, r, x, buf, out, beyond>>

Destination(i, j) == x + i + (j + row) * width
Source(i, j)      == x + index1[i] + (index1[j] + row) * width

InBlock == (0..(Block - 1)) \X (0..(Block - 1))

\* Later pixels of the same place win; in one block there are none as long as
\* a line is not shorter than a block.
DeblockBlock ==
  /\ deblockPc = "deblock" /\ row < height
  /\ LET Places  == {Destination(b[1], b[2]) : b \in InBlock}
         Pixel(p) == CHOOSE b \in InBlock : Destination(b[1], b[2]) = p
     IN  /\ out' = [p \in (DOMAIN out) \cup Places |->
                      IF p \in Places THEN Source(Pixel(p)[1], Pixel(p)[2])
                                      ELSE out[p]]
         /\ beyond' = (beyond \/ \E b \in InBlock :
                         \/ Destination(b[1], b[2]) >= Size
                         \/ Source(b[1], b[2]) >= Size)
  /\ IF x + Block < width THEN x' = x + Block /\ UNCHANGED row
                          ELSE x' = 0 /\ row' = row + Block
  /\ UNCHANGED <<deblockImage, deblockPc, output_scanline, r, buf>>

-----------------------------------------------------------------------------
(* elphel_dng: strips of 16 lines. *)

\* Mutant: the low bit moved one place too far down.
ROTShort(n) == n \div 2 + 4 * (n % 2)

ROT(n) == n \div 2 + 8 * (n % 2)

\* jpeg_read_scanlines delivers a line or more, up to what is asked for and
\* left; at the end of the image it returns 0 and the loop turns on the spot.
ReadStrip ==
  /\ deblockPc = "read" /\ row < height /\ r < Block
  /\ LET left == height - output_scanline
         most == IF left < Block - r THEN left ELSE Block - r
     IN  \E n \in (IF left = 0 THEN {0} ELSE 1..most) :
           /\ buf' = [k \in DOMAIN buf |->
                        IF k \in r..(r + n - 1) THEN output_scanline + k - r
                                               ELSE buf[k]]
           /\ output_scanline' = output_scanline + n
           /\ r' = r + n
  /\ UNCHANGED <<deblockImage, deblockPc, row, x, out, beyond>>

\* The loop over the lines of the strip.
WriteStrip ==
  /\ deblockPc = "read" /\ row < height /\ r = Block
  /\ LET Places  == {p \in 0..(Size - 1) : (p \div width) \in row..(row + 15)}
         From(p) == LET col == p % width IN
                    buf[ROT((p \div width) - row)] * width
                      + col - (col % Block) + ROT(col % Block)
     IN  out' = [p \in (DOMAIN out) \cup Places |->
                   IF p \in Places THEN From(p) ELSE out[p]]
  /\ row' = row + Block /\ r' = 0
  /\ UNCHANGED <<deblockImage, deblockPc, output_scanline, x, buf, beyond>>

Finish ==
  /\ deblockPc \in {"deblock", "read"} /\ row >= height
  /\ deblockPc' = "exit"
  /\ UNCHANGED <<deblockImage, output_scanline, row, r, x, buf, out, beyond>>

DeblockNext ==
  Open \/ ReadImage \/ DeblockBlock \/ ReadStrip \/ WriteStrip \/ Finish

\* Each program is one thread that does nothing but this.
DeblockSpec ==
  DeblockInit /\ [][DeblockNext]_deblockVars /\ WF_deblockVars(DeblockNext)

-----------------------------------------------------------------------------
(* Properties. *)

Multiple == width % Block = 0 /\ height % Block = 0

\* Where the camera puts the pixel of a line or column: the even ones of a
\* block first, the odd ones behind them.
Stored(n) ==
  LET m == n % Block
  IN  n - m + (IF m % 2 = 0 THEN m \div 2 ELSE Block \div 2 + m \div 2)

\* Both programs undo the order of the camera, wherever they have got to and
\* however few lines the decoder delivers at a time; at the end no pixel is
\* missing, unless elphel_dng could not write at all.  movie2dng's walk over
\* the blocks stays inside its arrays.  All this as long as the camera keeps to
\* whole blocks.
PixelsInPlace ==
  Multiple =>
    /\ \A p \in DOMAIN out :
         out[p] = Stored(p \div width) * width + Stored(p % width)
    /\ deblockPc = "exit" => \/ DOMAIN out = 0..(Size - 1)
                             \/ program = "elphel_dng" /\ out = << >>
    /\ ~beyond

\* Both programs come to an end with any size: elphel_dng's loop over a strip
\* only because it refuses strips that the image cannot fill.
Ends == <>(deblockPc = "exit")
=============================================================================
