-------------------------------- MODULE MCDNG --------------------------------
(***************************************************************************)
(* How a DNG file is written and digested, for TLC: the parts of it that   *)
(* do not share state in one run.  One part, chosen at first, takes its    *)
(* steps; the others are at rest.                                          *)
(***************************************************************************)
EXTENDS DNGMosaic, DNGStream, DNGFile, AreaTask, RawDigest

VARIABLE part

(* Wide, high and square: a step that exchanges rows and columns shows.      *)
MCSizes == {<<2, 2>>, <<4, 2>>, <<2, 4>>}

(* None, and the four phases; other values do not pass the command line.     *)
MCShifts == -1..3

MCRowBytes == [i \in Images |-> IF i = "main" THEN 3 ELSE 4]

(* Areas of up to six by four pixels anywhere behind the origins of the      *)
(* repeating tiles.                                                          *)
MCAreas == {Rect(t, l, t + h, l + w) : t \in 0..1, l \in 0..1,
                                       h \in {1, 3, 4, 6}, w \in {1, 4}}

NoRepeat == Rect(0, 0, 0, 0)

MCRepeats ==
  LET Lines == {NoRepeat, Rect(0, 0, 2, 3), Rect(0, -2, 2, 0),
                Rect(-1, 0, 1, 2)}
  IN  Lines \X Lines \X {NoRepeat, Rect(-2, -2, 2, 0)}

MCUnits == {[v |-> 1, h |-> 1], [v |-> 2, h |-> 2]}
MCMaxTiles == {[v |-> 2, h |-> 3], [v |-> 4, h |-> 2]}

(* With blocks of 8 bytes and words of 8 bits, images of a few rows end at   *)
(* every place of a block and the count of bits overflows its first word, by *)
(* sums and by single pieces.                                                *)
MCImageHeights == 0..5
MCImageWidths == 1..20

-----------------------------------------------------------------------------

(* A part at rest: before its first step.                                    *)
MosaicRests == /\ flip_hor = 0 /\ flip_ver = 0 /\ bayerShift = -1
               /\ size = <<2, 2>> /\ MosaicFresh
StreamRests == fBufferSize = 1 /\ StreamFresh
FileRests   == /\ height = [i \in Images |-> 3] /\ fit = [i \in Images |-> 2]
               /\ FileFresh
AreaRests   == /\ area = Rect(0, 0, 1, 1)
               /\ repeats = <<NoRepeat, NoRepeat, NoRepeat>>
               /\ unit = [v |-> 1, h |-> 1] /\ maxTile = [v |-> 2, h |-> 3]
               /\ AreaFresh
DigestRests == /\ imageHeight = 0 /\ imageWidth = 1 /\ pixelSize = 1
               /\ DigestFresh

Init ==
  /\ part \in {"mosaic", "stream", "file", "area", "digest"}
  /\ IF part = "mosaic" THEN MosaicInit ELSE MosaicRests
  /\ IF part = "stream" THEN StreamInit ELSE StreamRests
  /\ IF part = "file"   THEN FileInit   ELSE FileRests
  /\ IF part = "area"   THEN AreaInit   ELSE AreaRests
  /\ IF part = "digest" THEN DigestInit ELSE DigestRests

Next ==
  /\ UNCHANGED part
  /\ \/ /\ part = "mosaic" /\ MosaicNext
        /\ UNCHANGED <<streamVars, fileVars, areaVars, digestVars>>
     \/ /\ part = "stream" /\ StreamNext
        /\ UNCHANGED <<mosaicVars, fileVars, areaVars, digestVars>>
     \/ /\ part = "file" /\ FileNext
        /\ UNCHANGED <<mosaicVars, streamVars, areaVars, digestVars>>
     \/ /\ part = "area" /\ AreaNext
        /\ UNCHANGED <<mosaicVars, streamVars, fileVars, digestVars>>
     \/ /\ part = "digest" /\ DigestNext
        /\ UNCHANGED <<mosaicVars, streamVars, fileVars, areaVars>>

vars == <<part, mosaicVars, streamVars, fileVars, areaVars, digestVars>>

Spec == Init /\ [][Next]_vars
=============================================================================
