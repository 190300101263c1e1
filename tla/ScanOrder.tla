------------------------------ MODULE ScanOrder ------------------------------
(***************************************************************************)
(* Where the blocks of a baseline JPEG scan go, in the libjpeg that Elphel *)
(* patched for JP4 (src/Movie2DNG/extra/jpeg-6b-jp4): per_scan_setup of    *)
(* jdinput.c and decompress_onepass of jdcoefct.c.  In the standard        *)
(* library a scan of one component has one block per MCU, in raster order; *)
(* here it is tiled like the scans of several components, and an MCU row   *)
(* is always an iMCU row, the unit in which the main controller's buffer   *)
(* is filled.                                                              *)
(***************************************************************************)
EXTENDS Integers, SequencesExt

CONSTANTS
  ScanDims,    \* widths and heights of the images
  Samplings,   \* the components of a scan, in their order: [h, v] each
  MaxBlocks,   \* D_MAX_BLOCKS_IN_MCU
  MaxSuspends  \* bound on how often the data source runs dry

DCTSIZE == 8

ASSUME ScanOrderAssumption ==
  /\ ScanDims \subseteq Nat \ {0}
  /\ Samplings \subseteq Seq([h : 1..4, v : 1..4]) \ {<< >>}
  /\ MaxSuspends \in Nat

VARIABLES
  image,          \* [width, height, comps]: what the header says
  scanPc,
  input_iMCU_row,
  yoffset,        \* loop variables of decompress_onepass
  MCU_col_num,
  saved,          \* MCU_vert_offset and MCU_ctr
  mcu,            \* MCUs the entropy decoder has delivered
  placed,         \* for a place of the output, the coded block that went there
  suspends        \* bounded counter

scanVars ==
  <<image, scanPc, input_iMCU_row, yoffset, MCU_col_num, saved, mcu, placed,
    suspends>>

comps == image.comps
RoundUp(a, b) == (a + b - 1) \div b
MaxH == Max({comps[c].h : c \in DOMAIN comps})
MaxV == Max({comps[c].v : c \in DOMAIN comps})

WidthInBlocks(c)  == RoundUp(image.width * comps[c].h, MaxH * DCTSIZE)
HeightInBlocks(c) == RoundUp(image.height * comps[c].v, MaxV * DCTSIZE)

\* Mutant: the rows of MCUs left as they are in the standard library.
StandardMCUsPerRow == IF Len(comps) = 1
                      THEN WidthInBlocks(1)
                      ELSE RoundUp(image.width, MaxH * DCTSIZE)

MCUsPerRow == RoundUp(image.width, MaxH * DCTSIZE)
IMCURows   == RoundUp(image.height, MaxV * DCTSIZE)

LeftOver(n, m) == IF n % m = 0 THEN m ELSE n % m
LastColWidth(c)  == LeftOver(WidthInBlocks(c), comps[c].h)
LastRowHeight(c) == LeftOver(HeightInBlocks(c), comps[c].v)

\* Number of blocks of an MCU before those of component c.
BlocksBefore(c) ==
  FoldLeft(LAMBDA n, comp : n + comp.h * comp.v, 0, SubSeq(comps, 1, c - 1))

BlocksInMCU == BlocksBefore(Len(comps) + 1)

ScanFresh ==
  /\ scanPc = "setup"
  /\ input_iMCU_row = 0 /\ yoffset = 0 /\ MCU_col_num = 0
  /\ saved = [vert_offset |-> 0, ctr |-> 0]
  /\ mcu = 0
  /\ placed = << >>
  /\ suspends = 0

ScanInit ==
  /\ image \in [width : ScanDims, height : ScanDims, comps : Samplings]
  /\ ScanFresh

\* per_scan_setup: too many blocks are an error, and the process exits.
Setup ==
  /\ scanPc = "setup"
  /\ scanPc' = IF BlocksInMCU > MaxBlocks THEN "exit" ELSE "call"
  /\ UNCHANGED <<image, input_iMCU_row, yoffset, MCU_col_num, saved, mcu,
                 placed, suspends>>

MCURowsPerIMCURow == 1

\* decompress_onepass is entered, for a new iMCU row or where it was left.
Enter ==
  /\ scanPc = "call"
  /\ yoffset' = saved.vert_offset
  /\ MCU_col_num' = saved.ctr
  /\ scanPc' = "loop"
  /\ UNCHANGED <<image, input_iMCU_row, saved, mcu, placed, suspends>>

\* The entropy decoder has too little data for an MCU.
Suspend ==
  /\ scanPc = "loop" /\ MCU_col_num < MCUsPerRow /\ suspends < MaxSuspends
  /\ saved' = [vert_offset |-> yoffset, ctr |-> MCU_col_num]
  /\ suspends' = suspends + 1
  /\ scanPc' = "call"
  /\ UNCHANGED <<image, input_iMCU_row, yoffset, MCU_col_num, mcu, placed>>

UsefulWidth(c) ==
  IF MCU_col_num < MCUsPerRow - 1 THEN comps[c].h ELSE LastColWidth(c)

RowIsUseful(c, yindex) ==
  \/ input_iMCU_row < IMCURows - 1
  \/ yoffset + yindex < LastRowHeight(c)

\* Both programs ask for grayscale, which needs the first component only.
ComponentNeeded(c) == c = 1

\* The places, in blocks, that the MCU at hand fills: component, iMCU row, row
\* within the main controller's buffer, column.
PlacesOf(c) ==
  {<<c, input_iMCU_row, yoffset + y, MCU_col_num * comps[c].h + x>> :
     y \in {y \in 0..(comps[c].v - 1) : RowIsUseful(c, y)},
     x \in 0..(UsefulWidth(c) - 1)}

\* Mutant: the blocks of an MCU taken column by column.
BlockByColumn(p) ==
  <<mcu, BlocksBefore(p[1]) + p[3] - yoffset
           + (p[4] - MCU_col_num * comps[p[1]].h) * comps[p[1]].v>>

\* The coded block that goes there: MCU, and number within the MCU.
BlockFor(p) ==
  <<mcu, BlocksBefore(p[1]) + (p[3] - yoffset) * comps[p[1]].h
           + p[4] - MCU_col_num * comps[p[1]].h>>

DecodeMCU ==
  /\ scanPc = "loop" /\ MCU_col_num < MCUsPerRow
  /\ LET places == UNION {PlacesOf(c) : c \in {c \in DOMAIN comps :
                                               ComponentNeeded(c)}}
     IN  placed' = [p \in (DOMAIN placed) \cup places |->
                      IF p \in places THEN BlockFor(p) ELSE placed[p]]
  /\ mcu' = mcu + 1
  /\ MCU_col_num' = MCU_col_num + 1
  /\ UNCHANGED <<image, scanPc, input_iMCU_row, yoffset, saved, suspends>>

\* The end of an MCU row; after the last of an iMCU row the counters are made
\* ready for the next one.
EndRow ==
  /\ scanPc = "loop" /\ MCU_col_num = MCUsPerRow
  /\ IF yoffset + 1 < MCURowsPerIMCURow
     THEN /\ yoffset' = yoffset + 1 /\ MCU_col_num' = 0
          /\ saved' = [saved EXCEPT !.ctr = 0]
          /\ UNCHANGED <<scanPc, input_iMCU_row>>
     ELSE /\ input_iMCU_row' = input_iMCU_row + 1
          /\ saved' = [vert_offset |-> 0, ctr |-> 0]
          /\ scanPc' = IF input_iMCU_row + 1 < IMCURows
                   THEN "call" ELSE "completed"
          /\ UNCHANGED <<yoffset, MCU_col_num>>
  /\ UNCHANGED <<image, mcu, placed, suspends>>

ScanNext == Setup \/ Enter \/ Suspend \/ DecodeMCU \/ EndRow

ScanSpec == ScanInit /\ [][ScanNext]_scanVars

-----------------------------------------------------------------------------
(* Properties. *)

\* What is written stays inside the buffer of one iMCU row, and inside the
\* image in its own component: the patched loops write no row twice.
InsideBuffer ==
  \A p \in DOMAIN placed :
    /\ p[3] < comps[p[1]].v
    /\ p[2] * comps[p[1]].v + p[3] < HeightInBlocks(p[1])
    /\ p[4] < WidthInBlocks(p[1])

\* The MCUs cover the image in tiles, in raster order, and the blocks of an
\* MCU its tile, component by component; wherever the data source ran dry.
TilesInOrder ==
  \A p \in DOMAIN placed :
    LET c == p[1] IN
    placed[p] = <<p[2] * RoundUp(image.width, MaxH * DCTSIZE)
                    + p[4] \div comps[c].h,
                  BlocksBefore(c) + p[3] * comps[c].h + (p[4] % comps[c].h)>>

\* When the scan is complete every block of the gray image is there, and
\* the entropy decoder has been asked for no MCU more than there are.
ScanIsComplete ==
  scanPc = "completed" =>
    /\ mcu = RoundUp(image.width, MaxH * DCTSIZE) * IMCURows
    /\ \A y \in 0..(HeightInBlocks(1) - 1), x \in 0..(WidthInBlocks(1) - 1) :
         <<1, y \div comps[1].v, y % comps[1].v, x>> \in DOMAIN placed

\* The three together, for any image, any sampling of its components and
\* wherever the data source runs dry: a call that is repeated goes on where the
\* last one stopped.
BlocksInPlace == InsideBuffer /\ TilesInOrder /\ ScanIsComplete
=============================================================================
