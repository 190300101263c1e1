------------------------------- MODULE MCImage -------------------------------
(***************************************************************************)
(* How a frame is read, for TLC: the parts of it that do not share state   *)
(* in one run.  One part, chosen at first, takes its steps; the others are *)
(* at rest.                                                                *)
(***************************************************************************)
EXTENDS JP4Object, MakerNote, JP4Layout, ReverseTable, JPEGObject

VARIABLE part

(* Lengths of maker notes on either side of those the code tests, and none. *)
MCWordCounts == {NoEntry, 4, 8, 12, 14}

(* Notes of the three lengths that make a difference: all bits 0, all 1, and *)
(* a composite frame.                                                        *)
MCLengths   == {8, 12, 14}
MCFirstData == {{}, (0..55) \X (0..7), {<<40, 6>>, <<44, 0>>}}

(* One block, two blocks, and a size that is no multiple of a block. *)
MCDeblockDims == {16, 24, 32}

(* The scan of a JP4 image, one of a plain grayscale image, two of colour    *)
(* images and one with too many blocks.                                      *)
Comp(h, v) == [h |-> h, v |-> v]

MCScanDims == {8, 16, 20, 32, 40}
MCSamplings ==
  {<<Comp(2, 2)>>, <<Comp(1, 1)>>,
   <<Comp(2, 2), Comp(1, 1), Comp(1, 1)>>,
   <<Comp(2, 1), Comp(1, 1)>>,
   <<Comp(4, 4)>>}

(* The table has four steps of four bits instead of 256 steps of 16, and an  *)
(* int eight bits instead of 32, so that the product of two of the numbers   *)
(* can overflow it as in the code.  pow rises with its argument and is 1 at  *)
(* white; it is 0 at black, or more when the black level is negative.        *)
MCCurves ==
  LET Rising == {c \in [0..(N - 1) -> 0..Top] :
                   \A n \in 1..(N - 1) : c[n - 1] <= c[n]}
  IN  {[n \in 0..N |-> IF n = N THEN Top ELSE c[n]] : c \in Rising}

MCScales == {0, One - 1, One, One + 1, 2 * One, Top}

MCHeights == 1..3

-----------------------------------------------------------------------------

(* A part at rest: before its first step or, where it has to come to an end, *)
(* after an image that elphel_dng refused.                                   *)
ObjectRests == obj = [p \in Pointers |-> Null] /\ ObjectFresh
NoteRests   == makerNoteLength = 8 /\ data = {} /\ changes = 0
DeblockRests == /\ program = "elphel_dng" /\ width = 24 /\ height = 24
                /\ deblockPc = "exit" /\ DeblockFresh
ScanRests   == /\ image = [width |-> 8, height |-> 8, comps |-> <<Comp(1, 1)>>]
               /\ ScanFresh
TableRests  == /\ curve = [n \in 0..N |-> Top] /\ gamma_scale = One
               /\ TableFresh

Init ==
  /\ part \in {"object", "note", "deblock", "scan", "table", "jpeg"}
  /\ IF part = "object"  THEN ObjectInit  ELSE ObjectRests
  /\ IF part = "note"    THEN NoteInit    ELSE NoteRests
  /\ IF part = "deblock" THEN DeblockInit ELSE DeblockRests
  /\ IF part = "scan"    THEN ScanInit    ELSE ScanRests
  /\ IF part = "table"   THEN TableInit   ELSE TableRests
  /\ JpegInit

Next ==
  /\ UNCHANGED part
  /\ \/ /\ part = "object" /\ ObjectNext
        /\ UNCHANGED <<noteVars, deblockVars, scanVars, tableVars, jpegVars>>
     \/ /\ part = "note" /\ NoteNext
        /\ UNCHANGED <<objectVars, deblockVars, scanVars, tableVars, jpegVars>>
     \/ /\ part = "deblock" /\ DeblockNext
        /\ UNCHANGED <<objectVars, noteVars, scanVars, tableVars, jpegVars>>
     \/ /\ part = "scan" /\ ScanNext
        /\ UNCHANGED <<objectVars, noteVars, deblockVars, tableVars, jpegVars>>
     \/ /\ part = "table" /\ TableNext
        /\ UNCHANGED <<objectVars, noteVars, deblockVars, scanVars, jpegVars>>
     \/ /\ part = "jpeg" /\ JpegNext
        /\ UNCHANGED <<objectVars, noteVars, deblockVars, scanVars, tableVars>>

vars == <<part, objectVars, noteVars, deblockVars, scanVars, tableVars,
          jpegVars>>

Spec == Init /\ [][Next]_vars /\ WF_deblockVars(DeblockNext)
=============================================================================
