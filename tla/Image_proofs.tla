--------------------------- MODULE Image_proofs ----------------------------
(***************************************************************************)
(* Proofs about the way of an image from the scan to the pixels: both      *)
(* programs put the pixels back where the camera took them from, the       *)
(* patched libjpeg puts the blocks of a scan in their places, and the two  *)
(* fit together, for images of every size; and the gamma table that gives  *)
(* a pixel its value is the inverse of the camera's.                       *)
(***************************************************************************)
EXTENDS JP4Layout, ReverseTable, SequenceTheorems, TLAPS

-----------------------------------------------------------------------------
(* Places in an image. *)

LEMMA RowAndColumn ==
  ASSUME NEW w \in Nat, w > 0, NEW j \in Nat, NEW c \in 0..(w - 1)
  PROVE  (j * w + c) \div w = j /\ (j * w + c) % w = c
  <1> DEFINE n == j * w + c
             q == n \div w
             m == n % w
  <1>1. n \in Nat
    OBVIOUS
  <1> HIDE DEF n
  <1>2. q \in Int /\ m \in 0..(w - 1) /\ n = w * q + m
    BY <1>1
  <1> HIDE DEF q, m
  <1>3. w * q + m = j * w + c
    BY <1>2 DEF n
  <1>4. ~(q > j)
    <2> SUFFICES ASSUME q > j
                 PROVE  FALSE
      OBVIOUS
    <2>1. PICK k \in Nat : q = j + 1 + k
      <3>1. q - j - 1 \in Nat /\ q = j + 1 + (q - j - 1)
        BY <1>2
      <3> QED BY <3>1
    <2>2. w * q = j * w + w + w * k /\ w * k >= 0
      BY <2>1
    <2> QED BY <1>2, <1>3, <2>2
  <1>5. ~(j > q)
    <2> SUFFICES ASSUME j > q
                 PROVE  FALSE
      OBVIOUS
    <2>1. PICK k \in Nat : j = q + 1 + k
      <3>1. j - q - 1 \in Nat /\ j = q + 1 + (j - q - 1)
        BY <1>2
      <3> QED BY <3>1
    <2>2. j * w = w * q + w + w * k /\ w * k >= 0
      BY <1>2, <2>1
    <2> QED BY <1>2, <1>3, <2>2
  <1>6. q = j
    BY <1>2, <1>4, <1>5
  <1>7. m = c
    BY <1>2, <1>3, <1>6
  <1> QED BY <1>6, <1>7 DEF q, m, n

\* The places of an image are its lines times its columns.
LEMMA PlaceIs ==
  ASSUME NEW w \in Nat, w > 0, NEW h \in Nat, NEW p \in 0..(w * h - 1)
  PROVE  /\ p \div w \in 0..(h - 1) /\ p % w \in 0..(w - 1)
         /\ p = (p \div w) * w + (p % w)
  <1> DEFINE q == p \div w
             m == p % w
  <1>1. p \in Nat /\ p < w * h
    OBVIOUS
  <1>2. q \in Int /\ m \in 0..(w - 1) /\ p = w * q + m
    BY <1>1
  <1> HIDE DEF q, m
  <1>3. q >= 0
    <2> SUFFICES ASSUME q < 0
                 PROVE  FALSE
      BY <1>2
    <2>1. PICK k \in Nat : q = -1 - k
      <3>1. -1 - q \in Nat /\ q = -1 - (-1 - q)
        BY <1>2
      <3> QED BY <3>1
    <2>2. w * q = -w - w * k /\ w * k >= 0
      BY <2>1
    <2> QED BY <1>1, <1>2, <2>2
  <1>4. q < h
    <2> SUFFICES ASSUME q >= h
                 PROVE  FALSE
      BY <1>2
    <2>1. PICK k \in Nat : q = h + k
      <3>1. q - h \in Nat /\ q = h + (q - h)
        BY <1>2
      <3> QED BY <3>1
    <2>2. w * q = w * h + w * k /\ w * k >= 0
      BY <2>1
    <2> QED BY <1>1, <1>2, <2>2
  <1>5. w * q = q * w
    BY <1>2
  <1> QED BY <1>2, <1>3, <1>4, <1>5 DEF q, m

LEMMA PlaceInside ==
  ASSUME NEW w \in Nat, w > 0, NEW h \in Nat,
         NEW j \in 0..(h - 1), NEW c \in 0..(w - 1)
  PROVE  j * w + c \in 0..(w * h - 1)
  <1>1. PICK k \in Nat : h = j + 1 + k
    <2>1. h - j - 1 \in Nat /\ h = j + 1 + (h - j - 1)
      OBVIOUS
    <2> QED BY <2>1
  <1>2. w * h = j * w + w + w * k /\ w * k >= 0 /\ j * w >= 0
    BY <1>1
  <1> QED BY <1>2

-----------------------------------------------------------------------------
(* The order of the camera within a block. *)

Whole(n) == n \in Nat /\ n % Block = 0

\* After a multiple of a block comes no line but the block's own before the
\* next multiple.
LEMMA NextBlock ==
  ASSUME NEW n, Whole(n), NEW m, Whole(m), n < m
  PROVE  Whole(n + Block) /\ n + Block <= m
  BY DEF Whole, Block

LEMMA StoredInBlock ==
  ASSUME NEW n, Whole(n), NEW j \in 0..(Block - 1)
  PROVE  /\ Stored(n + j) = n + index1[j]
         /\ index1[j] \in 0..(Block - 1)
         /\ ROT(j) = index1[j]
         /\ (n + j) % Block = j
  <1>1. /\ n \in Nat /\ j \in 0..15 /\ (n + j) % 16 = j
    BY DEF Whole, Block
  <1>2. index1[j] = IF j % 2 = 0 THEN j \div 2 ELSE 8 + j \div 2
    <2>1. Block \div 2 = 8 /\ Block = 16
      BY DEF Block
    <2> QED BY <1>1, <2>1 DEF index1
  <1>3. j \div 2 \in 0..7 /\ j % 2 \in 0..1
    BY <1>1
  <1>4. Stored(n + j) = (n + j) - j + index1[j]
    <2>1. Block \div 2 = 8 /\ Block = 16
      BY DEF Block
    <2> QED BY <1>1, <1>2, <2>1 DEF Stored
  <1>5. ROT(j) = index1[j]
    BY <1>2, <1>3 DEF ROT
  <1>6. index1[j] \in 0..15
    BY <1>2, <1>3
  <1> QED BY <1>1, <1>4, <1>5, <1>6 DEF Block

\* A place is in a block when its line and column are.
LEMMA OfBlock ==
  ASSUME NEW n, Whole(n), NEW k \in Nat, k \in n..(n + Block - 1)
  PROVE  k - n \in 0..(Block - 1) /\ k = n + (k - n)
  BY DEF Whole, Block

-----------------------------------------------------------------------------
(* The pixels that are in place, wherever the programs have got to. *)

InPlace(p) == out[p] = Stored(p \div width) * width + Stored(p % width)

DeblockTypes ==
  /\ program \in {"movie2dng", "elphel_dng"}
  /\ deblockPc \in {"open", "decode", "deblock", "read", "exit"}
  /\ width \in Nat /\ width > 0 /\ height \in Nat /\ height > 0
  /\ Whole(width) /\ Whole(height)
  /\ Whole(row) /\ row <= height

\* movie2dng: the lines above the block at hand, and the block's lines left of it.
Before(p) ==
  \/ p \div width < row
  \/ p \div width < row + Block /\ p % width < x

WalkInv ==
  /\ program = "movie2dng"
  /\ Whole(x) /\ x < width /\ (row = height => x = 0)
  /\ DOMAIN out = {p \in 0..(Size - 1) : Before(p)}

\* elphel_dng: the strips before the one at hand, which has r lines.
StripInv ==
  /\ program = "elphel_dng"
  /\ r \in 0..Block /\ output_scanline = row + r
  /\ row = height => r = 0
  /\ DOMAIN buf = 0..(Block - 1)
  /\ \A k \in 0..(r - 1) : buf[k] = row + k
  /\ DOMAIN out = {p \in 0..(Size - 1) : p \div width < row}

DeblockGood ==
  /\ DeblockTypes
  /\ ~beyond
  /\ \A p \in DOMAIN out : InPlace(p)
  /\ deblockPc \in {"open", "decode"} =>
       /\ row = 0 /\ r = 0 /\ x = 0 /\ output_scanline = 0 /\ out = << >>
       /\ DOMAIN buf = 0..(Block - 1)
  /\ deblockPc = "decode" => program = "movie2dng"
  /\ deblockPc = "deblock" => WalkInv
  /\ deblockPc = "read" => StripInv
  /\ deblockPc = "exit" => \/ DOMAIN out = 0..(Size - 1)
                           \/ program = "elphel_dng" /\ out = << >>

DeblockInv == Multiple => DeblockGood

LEMMA EmptyOut == DOMAIN << >> = {}
  OBVIOUS

LEMMA DeblockInitially == DeblockInit => DeblockInv
  <1> SUFFICES ASSUME DeblockInit, Multiple
               PROVE  DeblockGood
    BY DEF DeblockInv
  <1>1. width \in Nat /\ width > 0 /\ height \in Nat /\ height > 0
    BY DeblockAssumption DEF DeblockInit
  <1>2. DeblockTypes
    BY <1>1 DEF DeblockInit, DeblockFresh, DeblockTypes, Multiple, Whole, Block
  <1>3. DOMAIN buf = 0..(Block - 1)
    BY DEF DeblockInit, DeblockFresh
  <1> QED BY <1>2, <1>3, EmptyOut DEF DeblockInit, DeblockFresh, DeblockGood

LEMMA OpenKeeps == DeblockGood /\ Open => DeblockGood'
  <1> SUFFICES ASSUME DeblockGood, Open
               PROVE  DeblockGood'
    OBVIOUS
  <1> USE DEF Open, deblockImage
  <1>1. DeblockTypes'
    BY DEF DeblockGood, DeblockTypes
  <1>2. (\A p \in DOMAIN out : InPlace(p))'
    BY EmptyOut DEF DeblockGood
  <1>3. StripInv' \/ deblockPc' # "read"
    <2> SUFFICES ASSUME deblockPc' = "read"
                 PROVE  StripInv'
      OBVIOUS
    <2>1. /\ program = "elphel_dng" /\ row' = 0 /\ r' = 0 /\ output_scanline' = 0
          /\ out' = << >> /\ DOMAIN buf' = 0..(Block - 1)
          /\ width' = width /\ height' = height /\ program' = program
      BY DEF DeblockGood
    <2>2. width \in Nat /\ width > 0 /\ height \in Nat /\ height > 0
      BY DEF DeblockGood, DeblockTypes
    <2>3. {p \in 0..(Size - 1) : p \div width < 0} = {}
      BY <2>2, PlaceIs DEF Size
    <2>4. DOMAIN out' = {p \in 0..(Size' - 1) : p \div width' < row'}
      BY <2>1, <2>3, EmptyOut DEF Size
    <2>5. r' \in 0..Block /\ output_scanline' = row' + r' /\ \A k \in 0..(r' - 1) : FALSE
      BY <2>1 DEF Block
    <2>6. row' # height'
      BY <2>1, <2>2
    <2> QED BY <2>1, <2>4, <2>5, <2>6 DEF StripInv
  <1> QED BY <1>1, <1>2, <1>3 DEF DeblockGood

LEMMA ReadImageKeeps == DeblockGood /\ ReadImage => DeblockGood'
  <1> SUFFICES ASSUME DeblockGood, ReadImage
               PROVE  DeblockGood'
    OBVIOUS
  <1> USE DEF ReadImage, deblockImage
  <1>1. DeblockTypes'
    BY DEF DeblockGood, DeblockTypes
  <1>2. /\ program' = "movie2dng" /\ row' = 0 /\ x' = 0 /\ out' = << >>
        /\ width' = width /\ height' = height
    BY DEF DeblockGood
  <1>3. /\ width \in Nat /\ width > 0 /\ height \in Nat /\ height > 0
    BY DEF DeblockGood, DeblockTypes
  <1>4. {p \in 0..(Size' - 1) : Before(p)'} = {}
    <2> SUFFICES ASSUME NEW p \in 0..(width * height - 1), Before(p)'
                 PROVE  FALSE
      BY <1>2 DEF Size
    <2>1. p \div width \in 0..(height - 1) /\ p % width \in 0..(width - 1)
      BY <1>3, PlaceIs
    <2> QED BY <1>2, <2>1 DEF Before
  <1>5. WalkInv'
    <2>1. Whole(0)
      BY DEF Whole, Block
    <2> QED BY <1>2, <1>3, <1>4, <2>1, EmptyOut DEF WalkInv, Whole
  <1>6. (\A p \in DOMAIN out : InPlace(p))'
    BY <1>2, EmptyOut
  <1> QED BY <1>1, <1>5, <1>6 DEF DeblockGood

LEMMA FinishKeeps == DeblockGood /\ Finish => DeblockGood'
  <1> SUFFICES ASSUME DeblockGood, Finish
               PROVE  DeblockGood'
    OBVIOUS
  <1> USE DEF Finish, deblockImage
  <1>1. DeblockTypes'
    BY DEF DeblockGood, DeblockTypes
  <1>2. (\A p \in DOMAIN out : InPlace(p))'
    BY DEF DeblockGood, InPlace
  <1>3. /\ row = height /\ width \in Nat /\ width > 0 /\ height \in Nat
    BY DEF DeblockGood, DeblockTypes, Whole
  <1>4. \A p \in 0..(Size - 1) : p \div width < row
    BY <1>3, PlaceIs DEF Size
  <1>5. DOMAIN out = 0..(Size - 1)
    <2>1. CASE deblockPc = "deblock"
      BY <1>4, <2>1 DEF DeblockGood, WalkInv, Before
    <2>2. CASE deblockPc = "read"
      BY <1>4, <2>2 DEF DeblockGood, StripInv
    <2> QED BY <2>1, <2>2
  <1>6. out' = out /\ Size' = Size
    BY DEF Size
  <1> QED BY <1>1, <1>2, <1>5, <1>6 DEF DeblockGood

\* One block of movie2dng's walk.
LEMMA PixelOfBlock ==
  ASSUME NEW w \in Nat, Whole(w), NEW h \in Nat, Whole(h),
         NEW j, Whole(j), j < h, NEW c, Whole(c), c < w,
         NEW b1 \in 0..(Block - 1), NEW b2 \in 0..(Block - 1)
  PROVE  LET d == c + b1 + (b2 + j) * w
             s == c + index1[b1] + (index1[b2] + j) * w
         IN  /\ d \in 0..(w * h - 1) /\ s \in 0..(w * h - 1)
             /\ d \div w = j + b2 /\ d % w = c + b1
             /\ s = Stored(d \div w) * w + Stored(d % w)
  <1> DEFINE d == c + b1 + (b2 + j) * w
             s == c + index1[b1] + (index1[b2] + j) * w
  <1>1. w > 0 /\ c + Block <= w /\ j + Block <= h /\ c \in Nat /\ j \in Nat
    BY NextBlock DEF Whole
  <1>2. /\ Stored(j + b2) = j + index1[b2] /\ index1[b2] \in 0..(Block - 1)
        /\ Stored(c + b1) = c + index1[b1] /\ index1[b1] \in 0..(Block - 1)
    BY StoredInBlock
  <1>3. /\ j + b2 \in 0..(h - 1) /\ c + b1 \in 0..(w - 1) /\ j + b2 \in Nat
        /\ j + index1[b2] \in 0..(h - 1) /\ c + index1[b1] \in 0..(w - 1)
    BY <1>1, <1>2 DEF Block
  <1>4. /\ d = (j + b2) * w + (c + b1)
        /\ s = (j + index1[b2]) * w + (c + index1[b1])
    <2>1. b2 + j = j + b2 /\ index1[b2] + j = j + index1[b2]
      BY <1>1, <1>2 DEF Block
    <2>2. (j + b2) * w \in Int /\ (j + index1[b2]) * w \in Int /\ c + b1 \in Int
          /\ c + index1[b1] \in Int
      BY <1>3
    <2> QED BY <2>1, <2>2
  <1> HIDE DEF d, s
  <1>5. d \in 0..(w * h - 1) /\ s \in 0..(w * h - 1)
    BY <1>1, <1>3, <1>4, PlaceInside
  <1>6. d \div w = j + b2 /\ d % w = c + b1
    BY <1>1, <1>3, <1>4, RowAndColumn
  <1> QED BY <1>2, <1>4, <1>5, <1>6 DEF d, s

LEMMA BlockOfPixel ==
  ASSUME NEW w \in Nat, w > 0, NEW j, Whole(j), NEW c, Whole(c), NEW p \in Nat,
         p \div w \in j..(j + Block - 1), p % w \in c..(c + Block - 1)
  PROVE  \E b \in InBlock : p = c + b[1] + (b[2] + j) * w
  <1> DEFINE q == p \div w
             m == p % w
             b == <<m - c, q - j>>
  <1>1. q \in Int /\ m \in 0..(w - 1) /\ p = q * w + m
    <2>1. q \in Int /\ m \in 0..(w - 1) /\ p = w * q + m
      OBVIOUS
    <2> HIDE DEF q, m
    <2> QED BY <2>1
  <1> HIDE DEF q, m
  <1>2. m - c \in 0..(Block - 1) /\ q - j \in 0..(Block - 1) /\ j \in Nat /\ c \in Nat
    BY <1>1 DEF q, m, Whole, Block
  <1>3. b \in InBlock /\ b[1] = m - c /\ b[2] = q - j
    BY <1>2 DEF InBlock
  <1>4. c + (m - c) + ((q - j) + j) * w = p
    <2>1. (q - j) + j = q /\ c + (m - c) = m /\ q * w \in Int
      BY <1>1, <1>2
    <2> QED BY <1>1, <2>1
  <1> QED BY <1>3, <1>4

LEMMA DeblockBlockKeeps == DeblockGood /\ DeblockBlock => DeblockGood'
  <1> SUFFICES ASSUME DeblockGood, DeblockBlock
               PROVE  DeblockGood'
    OBVIOUS
  <1> DEFINE Places == {Destination(b[1], b[2]) : b \in InBlock}
             Pixel(p) == CHOOSE b \in InBlock : Destination(b[1], b[2]) = p
  <1>1. /\ width \in Nat /\ width > 0 /\ height \in Nat /\ height > 0
        /\ Whole(width) /\ Whole(height) /\ Whole(row) /\ row < height /\ Whole(x) /\ x < width
        /\ program = "movie2dng" /\ DOMAIN out = {p \in 0..(Size - 1) : Before(p)}
        /\ ~beyond /\ \A p \in DOMAIN out : InPlace(p)
    BY DEF DeblockBlock, DeblockGood, DeblockTypes, WalkInv
  <1>2. /\ width' = width /\ height' = height /\ program' = program
        /\ deblockPc' = "deblock" /\ deblockPc = "deblock"
    BY DEF DeblockBlock, deblockImage
  <1>3. /\ out' = [p \in (DOMAIN out) \cup Places |->
                     IF p \in Places THEN Source(Pixel(p)[1], Pixel(p)[2]) ELSE out[p]]
        /\ beyond' = (beyond \/ \E b \in InBlock : \/ Destination(b[1], b[2]) >= Size
                                                   \/ Source(b[1], b[2]) >= Size)
        /\ IF x + Block < width THEN x' = x + Block /\ row' = row
                                ELSE x' = 0 /\ row' = row + Block
    BY DEF DeblockBlock
  <1>4. row \in Nat /\ x \in Nat /\ row + Block <= height /\ x + Block <= width
        /\ Whole(row + Block) /\ Whole(x + Block)
    BY <1>1, NextBlock DEF Whole
  <1>5. ASSUME NEW b \in InBlock
        PROVE  LET d == Destination(b[1], b[2])
               IN  /\ d \in 0..(Size - 1) /\ Source(b[1], b[2]) \in 0..(Size - 1)
                   /\ d \div width = row + b[2] /\ d % width = x + b[1]
                   /\ Source(b[1], b[2]) = Stored(d \div width) * width + Stored(d % width)
    <2>1. b[1] \in 0..(Block - 1) /\ b[2] \in 0..(Block - 1)
      BY DEF InBlock
    <2> QED BY <1>1, <2>1, PixelOfBlock DEF Destination, Source, Size
  <1>6. \A p : p \in Places <=> /\ p \in 0..(Size - 1)
                                /\ p \div width \in row..(row + Block - 1)
                                /\ p % width \in x..(x + Block - 1)
    <2> SUFFICES ASSUME NEW p
                 PROVE  p \in Places <=> /\ p \in 0..(Size - 1)
                                         /\ p \div width \in row..(row + Block - 1)
                                         /\ p % width \in x..(x + Block - 1)
      OBVIOUS
    <2>1. ASSUME p \in Places
          PROVE  /\ p \in 0..(Size - 1)
                 /\ p \div width \in row..(row + Block - 1)
                 /\ p % width \in x..(x + Block - 1)
      <3>1. PICK b \in InBlock : p = Destination(b[1], b[2])
        BY <2>1
      <3>2. b[1] \in 0..(Block - 1) /\ b[2] \in 0..(Block - 1)
        BY DEF InBlock
      <3>3. p \in 0..(Size - 1) /\ p \div width = row + b[2] /\ p % width = x + b[1]
        BY <1>5, <3>1
      <3> QED BY <1>4, <3>2, <3>3 DEF Block
    <2>2. ASSUME /\ p \in 0..(Size - 1)
                 /\ p \div width \in row..(row + Block - 1)
                 /\ p % width \in x..(x + Block - 1)
          PROVE  p \in Places
      <3>1. \E b \in InBlock : p = x + b[1] + (b[2] + row) * width
        <4>1. p \in Nat
          BY <1>1, <2>2 DEF Size
        <4>2. /\ width \in Nat /\ width > 0
              /\ row \in Nat /\ x \in Nat /\ Whole(row) /\ Whole(x)
              /\ p \div width \in row..(row + Block - 1)
              /\ p % width \in x..(x + Block - 1)
          BY <1>1, <1>4, <2>2
        <4> HIDE DEF Places
        <4> QED BY <4>1, <4>2, BlockOfPixel
      <3> QED BY <3>1 DEF Destination
    <2> QED BY <2>1, <2>2
  <1>7. ASSUME NEW p \in Places
        PROVE  Source(Pixel(p)[1], Pixel(p)[2])
                 = Stored(p \div width) * width + Stored(p % width)
    <2>1. Pixel(p) \in InBlock /\ Destination(Pixel(p)[1], Pixel(p)[2]) = p
      <3>1. \E b \in InBlock : Destination(b[1], b[2]) = p
        OBVIOUS
      <3> QED BY <3>1
    <2> HIDE DEF Pixel
    <2> QED BY <1>5, <2>1
  <1> HIDE DEF Places, Pixel
  <1>8. ~beyond'
    <2>1. Size \in Int
      BY <1>1 DEF Size
    <2>2. ASSUME NEW b \in InBlock
          PROVE  ~(Destination(b[1], b[2]) >= Size) /\ ~(Source(b[1], b[2]) >= Size)
      <3>1. Destination(b[1], b[2]) \in 0..(Size - 1) /\ Source(b[1], b[2]) \in 0..(Size - 1)
        BY <1>5
      <3> QED BY <2>1, <3>1
    <2> QED BY <1>1, <1>3, <2>2
  <1>9. (\A p \in DOMAIN out : InPlace(p))'
    <2> SUFFICES ASSUME NEW p \in (DOMAIN out) \cup Places
                 PROVE  out'[p] = Stored(p \div width) * width + Stored(p % width)
      BY <1>2, <1>3 DEF InPlace, Stored
    <2>1. CASE p \in Places
      BY <1>3, <1>7, <2>1
    <2>2. CASE p \notin Places
      BY <1>1, <1>3, <2>2 DEF InPlace
    <2> QED BY <2>1, <2>2
  <1>10. DOMAIN out' = {p \in 0..(Size - 1) : Before(p)} \cup Places
    BY <1>1, <1>3
  <1>11. /\ Whole(row') /\ row' <= height /\ Whole(x') /\ x' < width
         /\ row' = height => x' = 0
         /\ \A p \in 0..(Size - 1) :
              Before(p)' <=> Before(p) \/ p \in Places
    <2>1. ASSUME NEW p \in 0..(Size - 1)
          PROVE  /\ p \div width \in 0..(height - 1) /\ p % width \in 0..(width - 1)
                 /\ p \in Places <=> /\ p \div width \in row..(row + Block - 1)
                                     /\ p % width \in x..(x + Block - 1)
      BY <1>1, <1>6, PlaceIs DEF Size
    <2>2. CASE x + Block < width
      <3>1. x' = x + Block /\ row' = row
        BY <1>3, <2>2
      <3>2. ASSUME NEW p \in 0..(Size - 1)
            PROVE  Before(p)' <=> Before(p) \/ p \in Places
        BY <1>1, <1>2, <1>4, <2>1, <3>1 DEF Before, Block
      <3> QED BY <1>1, <1>4, <2>2, <3>1, <3>2
    <2>3. CASE ~(x + Block < width)
      <3>1. x' = 0 /\ row' = row + Block
        BY <1>3, <2>3
      <3>2. x + Block = width
        BY <1>1, <1>4, <2>3 DEF Block
      <3>3. ASSUME NEW p \in 0..(Size - 1)
            PROVE  Before(p)' <=> Before(p) \/ p \in Places
        BY <1>1, <1>2, <1>4, <2>1, <3>1, <3>2 DEF Before, Block
      <3>4. Whole(0)
        BY DEF Whole, Block
      <3> QED BY <1>1, <1>4, <3>1, <3>3, <3>4
    <2> QED BY <2>2, <2>3
  <1>12. Size' = Size
    BY <1>2 DEF Size
  <1>13. DOMAIN out' = {p \in 0..(Size' - 1) : Before(p)'}
    BY <1>6, <1>10, <1>11, <1>12
  <1>14. WalkInv'
    BY <1>1, <1>2, <1>11, <1>13 DEF WalkInv
  <1>15. DeblockTypes'
    BY <1>1, <1>2, <1>11 DEF DeblockTypes
  <1> QED BY <1>2, <1>8, <1>9, <1>14, <1>15 DEF DeblockGood

\* The lines that elphel_dng reads and the strips it writes.
LEMMA ReadStripKeeps == DeblockGood /\ ReadStrip => DeblockGood'
  <1> SUFFICES ASSUME DeblockGood, ReadStrip
               PROVE  DeblockGood'
    OBVIOUS
  <1> USE DEF ReadStrip, deblockImage
  <1>1. /\ Whole(row) /\ Whole(height) /\ row < height /\ r \in 0..(Block - 1)
        /\ output_scanline = row + r /\ program = "elphel_dng"
        /\ DOMAIN buf = 0..(Block - 1) /\ \A k \in 0..(r - 1) : buf[k] = row + k
        /\ DOMAIN out = {p \in 0..(Size - 1) : p \div width < row}
    BY DEF DeblockGood, DeblockTypes, StripInv, Block
  <1>2. row \in Nat /\ height \in Nat /\ row + Block <= height
    BY <1>1, NextBlock DEF Whole
  <1>3. PICK n \in 1..(Block - r) :
          /\ buf' = [k \in DOMAIN buf |-> IF k \in r..(r + n - 1)
                                          THEN output_scanline + k - r ELSE buf[k]]
          /\ output_scanline' = output_scanline + n
          /\ r' = r + n
    <2>1. height - output_scanline # 0 /\ height - output_scanline \in Int
      BY <1>1, <1>2 DEF Block
    <2>2. ASSUME NEW n \in 1..(IF height - output_scanline < Block - r
                               THEN height - output_scanline ELSE Block - r)
          PROVE  n \in 1..(Block - r)
      BY <1>1, <2>1 DEF Block
    <2> QED BY <2>1, <2>2
  <1>4. /\ r + n \in 0..Block /\ output_scanline + n = row + (r + n)
        /\ \A k \in 0..(r + n - 1) : buf'[k] = row + k
    <2>1. r + n \in 0..Block /\ output_scanline + n = row + (r + n)
      BY <1>1, <1>2, <1>3 DEF Block
    <2>2. ASSUME NEW k \in 0..(r + n - 1)
          PROVE  buf'[k] = row + k
      <3>1. k \in 0..(Block - 1) /\ r + n - 1 \in Int
        BY <1>1, <2>1 DEF Block
      <3>2. CASE k \in r..(r + n - 1)
        <4>1. buf'[k] = output_scanline + k - r
          BY <1>1, <1>3, <3>1, <3>2
        <4> QED BY <1>1, <1>2, <4>1 DEF Block
      <3>3. CASE k \notin r..(r + n - 1)
        <4>1. buf'[k] = buf[k] /\ k \in 0..(r - 1)
          BY <1>1, <1>3, <2>1, <3>1, <3>3 DEF Block
        <4> QED BY <1>1, <4>1
      <3> QED BY <3>2, <3>3
    <2> QED BY <2>1, <2>2
  <1>5. /\ width' = width /\ height' = height /\ program' = program /\ row' = row
        /\ out' = out /\ beyond' = beyond /\ deblockPc' = deblockPc /\ deblockPc = "read"
    OBVIOUS
  <1>6. DOMAIN buf' = 0..(Block - 1)
    BY <1>1, <1>3
  <1>7. r' = r + n /\ output_scanline' = row + (r + n)
    BY <1>3, <1>4
  <1>8. StripInv'
    <2>1. DOMAIN out' = {p \in 0..(Size' - 1) : p \div width' < row'}
      BY <1>1, <1>5 DEF Size
    <2>2. row' # height'
      BY <1>1, <1>2, <1>5
    <2>3. r' \in 0..Block /\ output_scanline' = row' + r'
      BY <1>4, <1>5, <1>7
    <2>4. (\A k \in 0..(r - 1) : buf[k] = row + k)'
      <3> SUFFICES ASSUME NEW k \in 0..(r' - 1)
                   PROVE  buf'[k] = row' + k
        OBVIOUS
      <3>1. k \in 0..(r + n - 1)
        BY <1>1, <1>3, <1>7 DEF Block
      <3> QED BY <1>4, <1>5, <3>1
    <2>5. program' = "elphel_dng" /\ (DOMAIN buf = 0..(Block - 1))'
      BY <1>1, <1>5, <1>6
    <2>6. (row = height => r = 0)'
      BY <2>2
    <2> QED BY <2>1, <2>3, <2>4, <2>5, <2>6 DEF StripInv
  <1>9. DeblockTypes' /\ (\A p \in DOMAIN out : InPlace(p))' /\ ~beyond'
    BY <1>5 DEF DeblockGood, DeblockTypes, InPlace
  <1> QED BY <1>5, <1>8, <1>9 DEF DeblockGood

LEMMA WriteStripKeeps == DeblockGood /\ WriteStrip => DeblockGood'
  <1> SUFFICES ASSUME DeblockGood, WriteStrip
               PROVE  DeblockGood'
    OBVIOUS
  <1> DEFINE Places == {p \in 0..(Size - 1) : (p \div width) \in row..(row + 15)}
             From(p) == LET col == p % width IN
                          buf[ROT((p \div width) - row)] * width
                            + col - (col % Block) + ROT(col % Block)
  <1>1. /\ width \in Nat /\ width > 0 /\ height \in Nat /\ height > 0
        /\ Whole(width) /\ Whole(height) /\ Whole(row) /\ row < height /\ r = Block
        /\ program = "elphel_dng" /\ DOMAIN out = {p \in 0..(Size - 1) : p \div width < row}
        /\ output_scanline = row + r /\ DOMAIN buf = 0..(Block - 1)
        /\ \A k \in 0..(Block - 1) : buf[k] = row + k
        /\ ~beyond /\ \A p \in DOMAIN out : InPlace(p)
    BY DEF WriteStrip, DeblockGood, DeblockTypes, StripInv
  <1>2. /\ width' = width /\ height' = height /\ program' = program
        /\ deblockPc' = "read" /\ deblockPc = "read" /\ beyond' = beyond
        /\ output_scanline' = output_scanline /\ buf' = buf
        /\ row' = row + Block /\ r' = 0
    BY DEF WriteStrip, deblockImage
  <1>3. out' = [p \in (DOMAIN out) \cup Places |->
                  IF p \in Places THEN From(p) ELSE out[p]]
    BY DEF WriteStrip
  <1>4. row \in Nat /\ row + Block <= height /\ Whole(row + Block)
    BY <1>1, NextBlock DEF Whole
  <1>5. ASSUME NEW p \in 0..(Size - 1)
        PROVE  p \div width \in 0..(height - 1) /\ p % width \in 0..(width - 1)
    BY <1>1, PlaceIs DEF Size
  <1>6. ASSUME NEW p \in Places
        PROVE  From(p) = Stored(p \div width) * width + Stored(p % width)
    <2> DEFINE q == p \div width
               col == p % width
               m == col % Block
    <2>1. q \in Nat /\ q \in row..(row + Block - 1) /\ col \in Nat
      BY <1>5 DEF Block
    <2> HIDE DEF q, col
    <2>2. q - row \in 0..(Block - 1) /\ q = row + (q - row)
      BY <1>1, <2>1, OfBlock
    <2>3. /\ Stored(q) = row + index1[q - row] /\ ROT(q - row) = index1[q - row]
          /\ index1[q - row] \in 0..(Block - 1)
      BY <1>1, <2>2, StoredInBlock
    <2>4. buf[ROT(q - row)] = Stored(q)
      BY <1>1, <2>3
    <2>5. m \in 0..(Block - 1) /\ Whole(col - m) /\ col = (col - m) + m
      BY <2>1 DEF Whole, Block
    <2>6. /\ Stored(col) = (col - m) + index1[m] /\ ROT(m) = index1[m]
          /\ index1[m] \in 0..(Block - 1)
      BY <2>5, StoredInBlock
    <2>7. Stored(q) \in Nat
      BY <1>4, <2>3 DEF Block
    <2>8. From(p) = Stored(q) * width + col - m + index1[m]
      BY <2>4, <2>6 DEF q, col
    <2> HIDE DEF From
    <2>9. Stored(q) * width \in Int /\ col \in Int /\ m \in Int /\ index1[m] \in Int
      BY <1>1, <2>1, <2>5, <2>6, <2>7 DEF Block
    <2> HIDE DEF m
    <2>10. From(p) = Stored(q) * width + Stored(col)
      BY <2>6, <2>8, <2>9
    <2> QED BY <2>10 DEF q, col
  <1>7. (\A p \in DOMAIN out : InPlace(p))'
    <2> SUFFICES ASSUME NEW p \in (DOMAIN out) \cup Places
                 PROVE  out'[p] = Stored(p \div width) * width + Stored(p % width)
      BY <1>2, <1>3 DEF InPlace, Stored
    <2> HIDE DEF From
    <2>1. CASE p \in Places
      <3>1. out'[p] = From(p)
        BY <1>3, <2>1
      <3> QED BY <1>6, <2>1, <3>1
    <2>2. CASE p \notin Places
      <3>1. out'[p] = out[p] /\ p \in DOMAIN out
        BY <1>3, <2>2
      <3> QED BY <1>1, <3>1 DEF InPlace
    <2> QED BY <2>1, <2>2
  <1>8. DOMAIN out' = {p \in 0..(Size - 1) : p \div width < row + Block}
    <2>1. DOMAIN out' = {p \in 0..(Size - 1) : p \div width < row} \cup Places
      BY <1>1, <1>3
    <2>2. ASSUME NEW p \in 0..(Size - 1)
          PROVE  p \div width < row + Block <=> p \div width < row \/ p \in Places
      BY <1>4, <1>5 DEF Block
    <2> QED BY <2>1, <2>2
  <1>9. StripInv'
    <2>1. Size' = Size /\ r' \in 0..Block /\ output_scanline' = row' + r'
      BY <1>1, <1>2, <1>4 DEF Size, Block
    <2>2. \A k \in 0..(r' - 1) : FALSE
      BY <1>2
    <2> QED BY <1>1, <1>2, <1>8, <2>1, <2>2 DEF StripInv
  <1>10. DeblockTypes'
    BY <1>1, <1>2, <1>4 DEF DeblockTypes
  <1> QED BY <1>1, <1>2, <1>7, <1>9, <1>10 DEF DeblockGood

LEMMA DeblockStep == DeblockInv /\ [DeblockNext]_deblockVars => DeblockInv'
  <1> SUFFICES ASSUME DeblockInv, [DeblockNext]_deblockVars, Multiple'
               PROVE  DeblockGood'
    BY DEF DeblockInv
  <1>1. width' = width /\ height' = height
    BY DEF DeblockNext, Open, ReadImage, DeblockBlock, ReadStrip, WriteStrip, Finish,
           deblockVars, deblockImage
  <1>2. DeblockGood
    BY <1>1 DEF DeblockInv, Multiple
  <1>3. CASE UNCHANGED deblockVars
    BY <1>2, <1>3 DEF deblockVars, deblockImage, DeblockGood, DeblockTypes, WalkInv,
                      StripInv, Before, InPlace, Size
  <1> QED BY <1>2, <1>3, OpenKeeps, ReadImageKeeps, DeblockBlockKeeps, ReadStripKeeps,
             WriteStripKeeps, FinishKeeps DEF DeblockNext

\* For images of every size in whole blocks, and however few lines the decoder
\* delivers at a time, both programs put each pixel back where the camera took
\* it from, none is missing at the end, and movie2dng's walk stays inside its
\* arrays.
THEOREM PixelsPutBack == DeblockSpec => []PixelsInPlace
  <1>1. DeblockInv => PixelsInPlace
    BY DEF DeblockInv, DeblockGood, InPlace, PixelsInPlace
  <1> QED BY <1>1, DeblockInitially, DeblockStep, PTL DEF DeblockSpec

-----------------------------------------------------------------------------
(* The blocks of an MCU. *)

LEMMA FoldNothing ==
  ASSUME NEW s, DOMAIN s = {}
  PROVE  FoldLeft(LAMBDA n, comp : n + comp.h * comp.v, 0, s) = 0
  <1> DEFINE f == CHOOSE f : f = [d \in SUBSET {} |->
                     IF d = {} THEN 0
                     ELSE LET m == Max(d) IN f[d \ {m}] + s[m].h * s[m].v]
             g == [d \in SUBSET {} |-> 0]
  <1>1. g = [d \in SUBSET {} |->
                     IF d = {} THEN 0
                     ELSE LET m == Max(d) IN g[d \ {m}] + s[m].h * s[m].v]
    OBVIOUS
  <1>2. f = [d \in SUBSET {} |->
                     IF d = {} THEN 0
                     ELSE LET m == Max(d) IN f[d \ {m}] + s[m].h * s[m].v]
    <2> HIDE DEF g
    <2> QED BY <1>1
  <1>3. f[{}] = 0
    <2> HIDE DEF f
    <2> QED BY <1>2
  <1>4. FoldLeft(LAMBDA n, comp : n + comp.h * comp.v, 0, s) = f[{}]
    BY DEF FoldLeft, MapThenFoldSet
  <1> QED BY <1>3, <1>4

-----------------------------------------------------------------------------
(* The sizes of a scan. *)

Comps == Seq([h : 1..4, v : 1..4]) \ {<< >>}

LEMMA MostOf ==
  ASSUME NEW S, S # {}, S \subseteq 1..4
  PROVE  Max(S) \in S /\ \A n \in S : Max(S) >= n
  <1>1. \E m \in S : \A n \in S : m >= n
    <2>1. CASE 4 \in S
      BY <2>1
    <2>2. CASE 4 \notin S /\ 3 \in S
      BY <2>2
    <2>3. CASE 4 \notin S /\ 3 \notin S /\ 2 \in S
      BY <2>3
    <2>4. CASE 4 \notin S /\ 3 \notin S /\ 2 \notin S
      <3>1. PICK m \in S : TRUE
        OBVIOUS
      <3>2. \A n \in S : n \in 1..4 /\ n # 2 /\ n # 3 /\ n # 4
        BY <2>4
      <3>3. \A n \in S : n = 1
        BY <3>2
      <3> QED BY <3>1, <3>3
    <2> QED BY <2>1, <2>2, <2>3, <2>4
  <1> QED BY <1>1 DEF Max

LEMMA FactorsAre ==
  ASSUME comps \in Comps
  PROVE  /\ 1 \in DOMAIN comps /\ comps[1].h \in 1..4 /\ comps[1].v \in 1..4
         /\ MaxH \in 1..4 /\ MaxV \in 1..4
         /\ MaxH >= comps[1].h /\ MaxV >= comps[1].v
  <1>1. /\ DOMAIN comps = 1..Len(comps) /\ Len(comps) >= 1
        /\ \A c \in DOMAIN comps : comps[c].h \in 1..4 /\ comps[c].v \in 1..4
    <2>1. comps \in Seq([h : 1..4, v : 1..4]) /\ comps # << >>
      BY DEF Comps
    <2>2. Len(comps) \in Nat /\ Len(comps) # 0
      BY <2>1, EmptySeq
    <2>3. /\ DOMAIN comps = 1..Len(comps)
          /\ \A c \in 1..Len(comps) : comps[c] \in [h : 1..4, v : 1..4]
      BY <2>1, LenProperties
    <2>4. \A c \in 1..Len(comps) : comps[c].h \in 1..4 /\ comps[c].v \in 1..4
      BY <2>3
    <2> QED BY <2>2, <2>3, <2>4
  <1>2. 1 \in DOMAIN comps
    BY <1>1
  <1> DEFINE hs == {comps[c].h : c \in DOMAIN comps}
             vs == {comps[c].v : c \in DOMAIN comps}
  <1>3. /\ hs \subseteq 1..4 /\ vs \subseteq 1..4 /\ comps[1].h \in hs /\ comps[1].v \in vs
    BY <1>1, <1>2
  <1> HIDE DEF hs, vs
  <1>4. /\ Max(hs) \in 1..4 /\ Max(vs) \in 1..4
        /\ Max(hs) >= comps[1].h /\ Max(vs) >= comps[1].v
    BY <1>3, MostOf
  <1> QED BY <1>1, <1>2, <1>4 DEF MaxH, MaxV, hs, vs

\* A size in blocks, and in the blocks of n MCUs of which the last is partly
\* filled.
LEMMA LastOne ==
  ASSUME NEW size \in Nat \ {0}, NEW f \in 1..4, NEW m \in 1..4
  PROVE  LET n == RoundUp(size, m * DCTSIZE)
             b == RoundUp(size * f, m * DCTSIZE)
         IN  /\ n \in Nat /\ n >= 1 /\ b \in Nat
             /\ (n - 1) * f < b /\ b <= n * f
             /\ LeftOver(b, f) = b - (n - 1) * f
  <1> USE DEF RoundUp, DCTSIZE, LeftOver
  <1>1. CASE m = 1
    <2>1. CASE f = 1 BY <1>1, <2>1
    <2>2. CASE f = 2 BY <1>1, <2>2
    <2>3. CASE f = 3 BY <1>1, <2>3
    <2>4. CASE f = 4 BY <1>1, <2>4
    <2> QED BY <2>1, <2>2, <2>3, <2>4
  <1>2. CASE m = 2
    <2>1. CASE f = 1 BY <1>2, <2>1
    <2>2. CASE f = 2 BY <1>2, <2>2
    <2>3. CASE f = 3 BY <1>2, <2>3
    <2>4. CASE f = 4 BY <1>2, <2>4
    <2> QED BY <2>1, <2>2, <2>3, <2>4
  <1>3. CASE m = 3
    <2>1. CASE f = 1 BY <1>3, <2>1
    <2>2. CASE f = 2 BY <1>3, <2>2
    <2>3. CASE f = 3 BY <1>3, <2>3
    <2>4. CASE f = 4 BY <1>3, <2>4
    <2> QED BY <2>1, <2>2, <2>3, <2>4
  <1>4. CASE m = 4
    <2>1. CASE f = 1 BY <1>4, <2>1
    <2>2. CASE f = 2 BY <1>4, <2>2
    <2>3. CASE f = 3 BY <1>4, <2>3
    <2>4. CASE f = 4 BY <1>4, <2>4
    <2> QED BY <2>1, <2>2, <2>3, <2>4
  <1> QED BY <1>1, <1>2, <1>3, <1>4

\* The same of the image at hand, for its first component.
LEMMA SizesAre ==
  ASSUME comps \in Comps, image.width \in Nat \ {0}, image.height \in Nat \ {0}
  PROVE  LET h == comps[1].h
             v == comps[1].v
             wide == WidthInBlocks(1)
             high == HeightInBlocks(1)
         IN  /\ h \in 1..4 /\ v \in 1..4
             /\ MCUsPerRow \in Nat /\ MCUsPerRow >= 1
             /\ IMCURows \in Nat /\ IMCURows >= 1
             /\ wide \in Nat /\ (MCUsPerRow - 1) * h < wide /\ wide <= MCUsPerRow * h
             /\ high \in Nat /\ (IMCURows - 1) * v < high /\ high <= IMCURows * v
             /\ LastColWidth(1) = wide - (MCUsPerRow - 1) * h
             /\ LastRowHeight(1) = high - (IMCURows - 1) * v
  <1>1. /\ comps[1].h \in 1..4 /\ comps[1].v \in 1..4 /\ MaxH \in 1..4 /\ MaxV \in 1..4
    BY FactorsAre
  <1>2. /\ MCUsPerRow = RoundUp(image.width, MaxH * DCTSIZE)
        /\ IMCURows = RoundUp(image.height, MaxV * DCTSIZE)
        /\ WidthInBlocks(1) = RoundUp(image.width * comps[1].h, MaxH * DCTSIZE)
        /\ HeightInBlocks(1) = RoundUp(image.height * comps[1].v, MaxV * DCTSIZE)
        /\ LastColWidth(1) = LeftOver(WidthInBlocks(1), comps[1].h)
        /\ LastRowHeight(1) = LeftOver(HeightInBlocks(1), comps[1].v)
    BY DEF MCUsPerRow, IMCURows, WidthInBlocks, HeightInBlocks, LastColWidth,
           LastRowHeight
  <1>3. /\ MCUsPerRow \in Nat /\ MCUsPerRow >= 1 /\ WidthInBlocks(1) \in Nat
        /\ (MCUsPerRow - 1) * comps[1].h < WidthInBlocks(1)
        /\ WidthInBlocks(1) <= MCUsPerRow * comps[1].h
        /\ LastColWidth(1) = WidthInBlocks(1) - (MCUsPerRow - 1) * comps[1].h
    <2> DEFINE n == RoundUp(image.width, MaxH * DCTSIZE)
               b == RoundUp(image.width * comps[1].h, MaxH * DCTSIZE)
    <2>1. /\ n \in Nat /\ n >= 1 /\ b \in Nat
          /\ (n - 1) * comps[1].h < b /\ b <= n * comps[1].h
          /\ LeftOver(b, comps[1].h) = b - (n - 1) * comps[1].h
      BY <1>1, LastOne
    <2>2. n = MCUsPerRow /\ b = WidthInBlocks(1)
      BY <1>2
    <2> HIDE DEF n, b
    <2> QED BY <1>2, <2>1, <2>2
  <1>4. /\ IMCURows \in Nat /\ IMCURows >= 1 /\ HeightInBlocks(1) \in Nat
        /\ (IMCURows - 1) * comps[1].v < HeightInBlocks(1)
        /\ HeightInBlocks(1) <= IMCURows * comps[1].v
        /\ LastRowHeight(1) = HeightInBlocks(1) - (IMCURows - 1) * comps[1].v
    <2> DEFINE n == RoundUp(image.height, MaxV * DCTSIZE)
               b == RoundUp(image.height * comps[1].v, MaxV * DCTSIZE)
    <2>1. /\ n \in Nat /\ n >= 1 /\ b \in Nat
          /\ (n - 1) * comps[1].v < b /\ b <= n * comps[1].v
          /\ LeftOver(b, comps[1].v) = b - (n - 1) * comps[1].v
      BY <1>1, LastOne
    <2>2. n = IMCURows /\ b = HeightInBlocks(1)
      BY <1>2
    <2> HIDE DEF n, b
    <2> QED BY <1>2, <2>1, <2>2
  <1> QED BY <1>1, <1>3, <1>4

LEMMA BlocksBeforeFirst ==
  ASSUME comps \in Comps
  PROVE  BlocksBefore(1) = 0
  <1>1. SubSeq(comps, 1, 1 - 1) = << >>
    BY DEF Comps
  <1>2. DOMAIN SubSeq(comps, 1, 1 - 1) = {}
    BY <1>1
  <1> QED BY <1>2, FoldNothing DEF BlocksBefore

-----------------------------------------------------------------------------
(* The blocks that are placed. *)

\* What BlocksInPlace says of one place of the gray image.
Right(p) ==
  /\ p[1] = 1 /\ p[2] \in 0..(IMCURows - 1) /\ p[3] \in 0..(comps[1].v - 1)
  /\ p[4] \in 0..(WidthInBlocks(1) - 1)
  /\ p[2] * comps[1].v + p[3] < HeightInBlocks(1)
  /\ placed[p] = <<p[2] * MCUsPerRow + p[4] \div comps[1].h,
                   p[3] * comps[1].h + (p[4] % comps[1].h)>>

\* All blocks of the iMCU rows before row n are placed, and those of row n that
\* belong to its first c MCUs.
Placed(n, c) ==
  \A j \in Nat, y \in 0..(comps[1].v - 1), b \in 0..(WidthInBlocks(1) - 1) :
    /\ j * comps[1].v + y < HeightInBlocks(1)
    /\ j < n \/ (j = n /\ b < c * comps[1].h)
    => <<1, j, y, b>> \in DOMAIN placed

\* The decoder stands before MCU c of the iMCU row at hand.
Standing(c) ==
  /\ input_iMCU_row \in 0..(IMCURows - 1) /\ c \in 0..MCUsPerRow
  /\ mcu = input_iMCU_row * MCUsPerRow + c
  /\ Placed(input_iMCU_row, c)

ScanSizes ==
  comps \in Comps /\ image.width \in Nat \ {0} /\ image.height \in Nat \ {0}

ScanInv ==
  /\ ScanSizes
  /\ scanPc \in {"setup", "exit", "call", "loop", "completed"}
  /\ yoffset = 0 /\ saved.vert_offset = 0
  /\ \A p \in DOMAIN placed : Right(p)
  /\ scanPc \in {"setup", "call"} => Standing(saved.ctr)
  /\ scanPc = "loop" => Standing(MCU_col_num)
  /\ scanPc = "completed" => /\ mcu = MCUsPerRow * IMCURows
                             /\ Placed(IMCURows, 0)

LEMMA SameImage ==
  image' = image =>
    /\ comps' = comps /\ MaxH' = MaxH /\ MaxV' = MaxV
    /\ MCUsPerRow' = MCUsPerRow /\ IMCURows' = IMCURows
    /\ WidthInBlocks(1)' = WidthInBlocks(1) /\ HeightInBlocks(1)' = HeightInBlocks(1)
    /\ ScanSizes' = ScanSizes
  BY DEF comps, MaxH, MaxV, MCUsPerRow, IMCURows, WidthInBlocks, HeightInBlocks, ScanSizes

LEMMA ScanInitially == ScanInit => ScanInv
  <1> SUFFICES ASSUME ScanInit
               PROVE  ScanInv
    OBVIOUS
  <1>1. ScanSizes
    BY ScanOrderAssumption DEF ScanInit, ScanSizes, comps, Comps
  <1>2. /\ comps[1].h \in 1..4 /\ comps[1].v \in 1..4
        /\ MCUsPerRow \in Nat /\ IMCURows \in Nat /\ IMCURows >= 1
    BY <1>1, SizesAre DEF ScanSizes
  <1>3. DOMAIN placed = {}
    BY DEF ScanInit, ScanFresh
  <1>4. saved.ctr = 0 /\ saved.vert_offset = 0 /\ input_iMCU_row = 0 /\ mcu = 0
    BY DEF ScanInit, ScanFresh
  <1>5. Placed(0, 0)
    <2> SUFFICES ASSUME NEW j \in Nat, NEW b \in 0..(WidthInBlocks(1) - 1),
                        j < 0 \/ (j = 0 /\ b < 0 * comps[1].h)
                 PROVE  FALSE
      BY DEF Placed
    <2>1. 0 * comps[1].h = 0
      BY <1>2
    <2>2. b >= 0
      OBVIOUS
    <2> QED BY <2>1, <2>2
  <1>6. Standing(saved.ctr)
    <2>1. 0 * MCUsPerRow + 0 = 0
      BY <1>2
    <2> QED BY <1>2, <1>4, <1>5, <2>1 DEF Standing
  <1> QED BY <1>1, <1>3, <1>4, <1>6 DEF ScanInit, ScanFresh, ScanInv

\* The places that one MCU fills.
LEMMA PlacesAre ==
  ASSUME ScanInv, scanPc = "loop", MCU_col_num < MCUsPerRow
  PROVE  /\ \A p \in PlacesOf(1) :
              /\ p[1] = 1 /\ p[2] = input_iMCU_row /\ p[3] \in 0..(comps[1].v - 1)
              /\ p[4] \in 0..(WidthInBlocks(1) - 1)
              /\ p[2] * comps[1].v + p[3] < HeightInBlocks(1)
              /\ BlockFor(p) = <<mcu, p[3] * comps[1].h + (p[4] % comps[1].h)>>
              /\ p[4] \div comps[1].h = MCU_col_num
         /\ \A y \in 0..(comps[1].v - 1), b \in 0..(WidthInBlocks(1) - 1) :
              /\ input_iMCU_row * comps[1].v + y < HeightInBlocks(1)
              /\ b >= MCU_col_num * comps[1].h
              /\ b < (MCU_col_num + 1) * comps[1].h
              => <<1, input_iMCU_row, y, b>> \in PlacesOf(1)
  <1> DEFINE h == comps[1].h
             v == comps[1].v
             M == MCUsPerRow
             R == IMCURows
             wide == WidthInBlocks(1)
             high == HeightInBlocks(1)
             line == input_iMCU_row
             col == MCU_col_num
  <1>1. /\ h \in 1..4 /\ v \in 1..4 /\ M \in Nat /\ M >= 1 /\ R \in Nat /\ R >= 1
        /\ wide \in Nat /\ (M - 1) * h < wide /\ wide <= M * h
        /\ high \in Nat /\ (R - 1) * v < high /\ high <= R * v
        /\ LastColWidth(1) = wide - (M - 1) * h
        /\ LastRowHeight(1) = high - (R - 1) * v
    BY SizesAre DEF ScanInv, ScanSizes
  <1>2. line \in 0..(R - 1) /\ col \in 0..(M - 1) /\ yoffset = 0
    BY <1>1 DEF ScanInv, Standing
  <1>3. /\ UsefulWidth(1) = (IF col < M - 1 THEN h ELSE wide - (M - 1) * h)
        /\ \A y : RowIsUseful(1, y) <=> (line < R - 1 \/ 0 + y < high - (R - 1) * v)
    BY <1>1, <1>2 DEF UsefulWidth, RowIsUseful
  <1>4. BlocksBefore(1) = 0
    BY BlocksBeforeFirst DEF ScanInv, ScanSizes
  <1>5. /\ (line + 1) * v = line * v + v /\ (col + 1) * h = col * h + h
        /\ (M - 1) * h = M * h - h /\ (R - 1) * v = R * v - v
        /\ line * v \in Nat /\ col * h \in Nat
    <2>1. \A a, b \in Int : (a + 1) * b = a * b + b /\ (a - 1) * b = a * b - b
      OBVIOUS
    <2>2. \A a, b \in Nat : a * b \in Nat
      OBVIOUS
    <2>3. line \in Nat /\ col \in Nat
      BY <1>1, <1>2
    <2> HIDE DEF h, v, M, R, line, col
    <2> QED BY <1>1, <2>1, <2>2, <2>3
  <1>6. line < R - 1 => (line + 1) * v <= (R - 1) * v
    BY <1>1, <1>2
  <1>7. col < M - 1 => (col + 1) * h <= (M - 1) * h
    BY <1>1, <1>2
  <1>8. ASSUME NEW y \in 0..(v - 1)
        PROVE  RowIsUseful(1, y) <=> line * v + y < high
    <2> HIDE DEF h, v, M, R, wide, high, line, col
    <2>1. CASE line < R - 1
      <3>1. line * v + v < high
        BY <1>1, <1>5, <1>6, <2>1
      <3> QED BY <1>1, <1>3, <1>5, <2>1, <3>1
    <2>2. CASE line = R - 1
      BY <1>1, <1>2, <1>3, <2>2
    <2> QED BY <1>1, <1>2, <2>1, <2>2
  <1>9. ASSUME NEW u \in 0..(h - 1)
        PROVE  u \in 0..(UsefulWidth(1) - 1) <=> col * h + u < wide
    <2> HIDE DEF h, v, M, R, wide, high, line, col
    <2>1. CASE col < M - 1
      <3>1. col * h + h < wide
        BY <1>1, <1>5, <1>7, <2>1
      <3> QED BY <1>1, <1>3, <1>5, <2>1, <3>1
    <2>2. CASE col = M - 1
      BY <1>1, <1>2, <1>3, <2>2
    <2> QED BY <1>1, <1>2, <2>1, <2>2
  <1>10. UsefulWidth(1) \in 1..h
    BY <1>1, <1>2, <1>3, <1>5
  <1>11. PlacesOf(1) = {<<1, line, 0 + y, col * h + u>> :
                          y \in {y \in 0..(v - 1) : RowIsUseful(1, y)},
                          u \in 0..(UsefulWidth(1) - 1)}
    BY <1>2 DEF PlacesOf
  <1> HIDE DEF h, v, M, R, wide, high, line, col
  <1>12. ASSUME NEW p \in PlacesOf(1)
         PROVE  /\ p[1] = 1 /\ p[2] = line /\ p[3] \in 0..(v - 1)
                /\ p[4] \in 0..(wide - 1)
                /\ p[2] * v + p[3] < high
                /\ BlockFor(p) = <<mcu, p[3] * h + (p[4] % h)>>
                /\ p[4] \div h = col
    <2>1. PICK y \in 0..(v - 1), u \in 0..(UsefulWidth(1) - 1) :
            p = <<1, line, 0 + y, col * h + u>> /\ RowIsUseful(1, y)
      BY <1>11
    <2>2. u \in 0..(h - 1) /\ u \in Nat /\ y \in Nat /\ 0 + y = y
      BY <1>1, <1>10
    <2>3. p[1] = 1 /\ p[2] = line /\ p[3] = y /\ p[4] = col * h + u
      BY <2>1, <2>2
    <2>4. line * v + y < high /\ col * h + u < wide
      BY <1>8, <1>9, <2>1, <2>2
    <2>5. (col * h + u) \div h = col /\ (col * h + u) % h = u
      BY <1>1, <1>2, <2>2, RowAndColumn
    <2>6. BlockFor(p) = <<mcu, 0 + (y - 0) * h + (col * h + u) - col * h>>
      BY <1>2, <1>4, <2>3 DEF BlockFor, h, col
    <2>7. 0 + (y - 0) * h + (col * h + u) - col * h = y * h + u
      <3>1. y * h \in Int /\ (y - 0) * h = y * h
        BY <1>1, <2>2
      <3> QED BY <1>5, <2>2, <3>1
    <2>8. col * h + u \in 0..(wide - 1)
      BY <1>1, <1>5, <2>2, <2>4
    <2> QED BY <2>3, <2>4, <2>5, <2>6, <2>7, <2>8
  <1>13. ASSUME NEW y \in 0..(v - 1), NEW b \in 0..(wide - 1),
                line * v + y < high, b >= col * h, b < (col + 1) * h
         PROVE  <<1, line, y, b>> \in PlacesOf(1)
    <2> DEFINE u == b - col * h
    <2>1. b \in Nat /\ b < wide
      BY <1>1
    <2>2. u \in 0..(h - 1) /\ col * h + u = b /\ 0 + y = y
      BY <1>1, <1>5, <1>13, <2>1
    <2> HIDE DEF u
    <2>3. RowIsUseful(1, y) /\ u \in 0..(UsefulWidth(1) - 1)
      BY <1>8, <1>9, <1>13, <2>1, <2>2
    <2> QED BY <1>11, <2>2, <2>3
  <1> QED BY <1>12, <1>13 DEF h, v, wide, high, line, col

LEMMA DecodeKeeps == ScanInv /\ DecodeMCU => ScanInv'
  <1> SUFFICES ASSUME ScanInv, DecodeMCU
               PROVE  ScanInv'
    OBVIOUS
  <1>1. /\ scanPc = "loop" /\ MCU_col_num < MCUsPerRow /\ image' = image
        /\ scanPc' = "loop" /\ input_iMCU_row' = input_iMCU_row
        /\ yoffset' = yoffset /\ saved' = saved
        /\ mcu' = mcu + 1 /\ MCU_col_num' = MCU_col_num + 1
    BY DEF DecodeMCU
  <1>2. /\ ScanSizes /\ Standing(MCU_col_num) /\ yoffset = 0 /\ saved.vert_offset = 0
        /\ \A p \in DOMAIN placed : Right(p)
    BY <1>1 DEF ScanInv
  <1>3. placed' = [p \in (DOMAIN placed) \cup PlacesOf(1) |->
                     IF p \in PlacesOf(1) THEN BlockFor(p) ELSE placed[p]]
    <2>1. 1 \in DOMAIN comps
      BY <1>2, FactorsAre DEF ScanSizes
    <2> DEFINE all == UNION {PlacesOf(c) : c \in {c \in DOMAIN comps :
                                                  ComponentNeeded(c)}}
    <2>2. all = PlacesOf(1)
      <3>1. {c \in DOMAIN comps : ComponentNeeded(c)} = {1}
        BY <2>1 DEF ComponentNeeded
      <3> QED BY <3>1
    <2>3. placed' = [p \in (DOMAIN placed) \cup all |->
                       IF p \in all THEN BlockFor(p) ELSE placed[p]]
      BY DEF DecodeMCU
    <2> QED BY <2>2, <2>3
  <1> DEFINE h == comps[1].h
             M == MCUsPerRow
  <1>4. /\ h \in 1..4 /\ M \in Nat /\ IMCURows \in Nat /\ WidthInBlocks(1) \in Nat
        /\ comps[1].v \in 1..4
    BY <1>2, SizesAre DEF ScanSizes
  <1>5. /\ input_iMCU_row \in 0..(IMCURows - 1) /\ MCU_col_num \in 0..(M - 1)
        /\ mcu = input_iMCU_row * M + MCU_col_num
        /\ Placed(input_iMCU_row, MCU_col_num)
    BY <1>1, <1>2, <1>4 DEF Standing
  <1>6. \A p \in (DOMAIN placed)' : Right(p)'
    <2> SUFFICES ASSUME NEW p \in (DOMAIN placed) \cup PlacesOf(1)
                 PROVE  Right(p)'
      BY <1>3
    <2>1. CASE p \in PlacesOf(1)
      <3>1. placed'[p] = <<mcu, p[3] * h + (p[4] % h)>> /\ p[4] \div h = MCU_col_num
            /\ p[2] = input_iMCU_row
        BY <1>1, <1>3, <2>1, PlacesAre
      <3>2. mcu = p[2] * M + p[4] \div h
        BY <1>5, <3>1
      <3>3. placed'[p] = <<p[2] * M + p[4] \div h, p[3] * h + (p[4] % h)>>
        BY <3>1, <3>2
      <3>4. /\ p[1] = 1 /\ p[2] \in 0..(IMCURows - 1) /\ p[3] \in 0..(comps[1].v - 1)
            /\ p[4] \in 0..(WidthInBlocks(1) - 1)
            /\ p[2] * comps[1].v + p[3] < HeightInBlocks(1)
        BY <1>1, <1>5, <2>1, PlacesAre
      <3> QED BY <1>1, <3>3, <3>4, SameImage DEF Right
    <2>2. CASE p \notin PlacesOf(1)
      <3>1. placed'[p] = placed[p] /\ Right(p)
        BY <1>2, <1>3, <2>2
      <3> QED BY <1>1, <3>1, SameImage DEF Right
    <2> QED BY <2>1, <2>2
  <1>7. Placed(input_iMCU_row, MCU_col_num)'
    <2> SUFFICES ASSUME NEW j \in Nat, NEW y \in 0..(comps[1].v - 1),
                        NEW b \in 0..(WidthInBlocks(1) - 1),
                        j * comps[1].v + y < HeightInBlocks(1),
                        j < input_iMCU_row
                          \/ (j = input_iMCU_row /\ b < (MCU_col_num + 1) * h)
                 PROVE  <<1, j, y, b>> \in (DOMAIN placed) \cup PlacesOf(1)
      <3>1. DOMAIN placed' = (DOMAIN placed) \cup PlacesOf(1)
        BY <1>3
      <3> QED BY <1>1, <3>1, SameImage DEF Placed
    <2>1. CASE j < input_iMCU_row \/ b < MCU_col_num * h
      BY <1>5, <2>1 DEF Placed
    <2>2. CASE ~(j < input_iMCU_row) /\ ~(b < MCU_col_num * h)
      <3>1. b >= MCU_col_num * h /\ j = input_iMCU_row
        BY <1>4, <1>5, <2>2
      <3> QED BY <1>1, <3>1, PlacesAre
    <2> QED BY <2>1, <2>2
  <1>8. Standing(MCU_col_num)'
    <2>1. MCU_col_num + 1 \in 0..M /\ mcu + 1 = input_iMCU_row * M + (MCU_col_num + 1)
      BY <1>4, <1>5
    <2> QED BY <1>1, <1>5, <1>7, <2>1, SameImage DEF Standing
  <1> QED BY <1>1, <1>2, <1>6, <1>8, SameImage DEF ScanInv

LEMMA EndRowKeeps == ScanInv /\ EndRow => ScanInv'
  <1> SUFFICES ASSUME ScanInv, EndRow
               PROVE  ScanInv'
    OBVIOUS
  <1> DEFINE h == comps[1].h
             M == MCUsPerRow
             R == IMCURows
  <1>1. /\ ScanSizes /\ yoffset = 0 /\ scanPc = "loop" /\ MCU_col_num = M
        /\ Standing(M) /\ \A p \in DOMAIN placed : Right(p)
    BY DEF ScanInv, EndRow
  <1>2. /\ input_iMCU_row' = input_iMCU_row + 1
        /\ saved' = [vert_offset |-> 0, ctr |-> 0]
        /\ scanPc' = (IF input_iMCU_row + 1 < R THEN "call" ELSE "completed")
        /\ yoffset' = 0 /\ image' = image /\ mcu' = mcu /\ placed' = placed
    BY <1>1 DEF EndRow, MCURowsPerIMCURow
  <1>3. /\ h \in 1..4 /\ comps[1].v \in 1..4 /\ M \in Nat /\ R \in Nat
        /\ WidthInBlocks(1) \in Nat /\ WidthInBlocks(1) <= M * h
    BY <1>1, SizesAre DEF ScanSizes
  <1>4. /\ input_iMCU_row \in 0..(R - 1) /\ mcu = input_iMCU_row * M + M
        /\ Placed(input_iMCU_row, M)
    BY <1>1 DEF Standing
  <1>5. Placed(input_iMCU_row + 1, 0)
    <2> SUFFICES ASSUME NEW j \in Nat, NEW y \in 0..(comps[1].v - 1),
                        NEW b \in 0..(WidthInBlocks(1) - 1),
                        j * comps[1].v + y < HeightInBlocks(1),
                        j < input_iMCU_row + 1
                          \/ (j = input_iMCU_row + 1 /\ b < 0 * h)
                 PROVE  <<1, j, y, b>> \in DOMAIN placed
      BY DEF Placed
    <2>1. 0 * h = 0 /\ b \in Nat /\ b < WidthInBlocks(1) /\ M * h \in Nat
      BY <1>3
    <2>2. j < input_iMCU_row \/ (j = input_iMCU_row /\ b < M * h)
      BY <1>3, <1>4, <2>1
    <2> QED BY <1>4, <2>2 DEF Placed
  <1>6. (\A p \in DOMAIN placed : Right(p))'
    BY <1>1, <1>2, SameImage DEF Right
  <1>7. Placed(input_iMCU_row + 1, 0)'
        <=> Placed(input_iMCU_row' + 1, 0)
    BY <1>2, SameImage DEF Placed
  <1>8. input_iMCU_row * M + M = (input_iMCU_row + 1) * M + 0
    BY <1>3, <1>4
  <1>9. CASE input_iMCU_row + 1 < R
    <2>1. Placed(input_iMCU_row, saved.ctr)'
      BY <1>2, <1>5, SameImage DEF Placed
    <2>2. input_iMCU_row + 1 \in 0..(R - 1) /\ 0 \in 0..M
      BY <1>3, <1>4, <1>9
    <2>3. Standing(saved.ctr)'
      BY <1>2, <1>4, <1>8, <2>1, <2>2, SameImage DEF Standing
    <2> QED BY <1>1, <1>2, <1>6, <1>9, <2>3, SameImage DEF ScanInv
  <1>10. CASE ~(input_iMCU_row + 1 < R)
    <2>1. input_iMCU_row + 1 = R
      BY <1>3, <1>4, <1>10
    <2>2. Placed(IMCURows, 0)'
      BY <1>2, <1>5, <2>1, SameImage DEF Placed
    <2>3. mcu = M * R
      BY <1>3, <1>4, <1>8, <2>1
    <2> QED BY <1>1, <1>2, <1>6, <1>10, <2>2, <2>3, SameImage DEF ScanInv
  <1> QED BY <1>9, <1>10

LEMMA OtherKeeps ==
  ScanInv /\ (Setup \/ Enter \/ Suspend \/ UNCHANGED scanVars) => ScanInv'
  <1> SUFFICES ASSUME ScanInv, Setup \/ Enter \/ Suspend \/ UNCHANGED scanVars
               PROVE  ScanInv'
    OBVIOUS
  <1>1. image' = image /\ placed' = placed /\ mcu' = mcu
        /\ input_iMCU_row' = input_iMCU_row
    BY DEF Setup, Enter, Suspend, scanVars
  <1>2. /\ (\A p \in DOMAIN placed : Right(p))' /\ ScanSizes'
        /\ \A c : Standing(c) => /\ (c = saved'.ctr => Standing(saved.ctr)')
                                 /\ (c = MCU_col_num' => Standing(MCU_col_num)')
        /\ Placed(IMCURows, 0) => Placed(IMCURows, 0)'
    BY <1>1, SameImage DEF ScanInv, Right, Standing, Placed
  <1>3. CASE Setup
    BY <1>1, <1>2, <1>3 DEF ScanInv, Setup
  <1>4. CASE Enter
    BY <1>1, <1>2, <1>4 DEF ScanInv, Enter
  <1>5. CASE Suspend
    BY <1>1, <1>2, <1>5 DEF ScanInv, Suspend
  <1>6. CASE UNCHANGED scanVars
    BY <1>1, <1>2, <1>6, SameImage DEF ScanInv, scanVars
  <1> QED BY <1>3, <1>4, <1>5, <1>6

LEMMA ScanHolds == ScanSpec => []ScanInv
  <1>1. ScanInv /\ [ScanNext]_scanVars => ScanInv'
    BY OtherKeeps, DecodeKeeps, EndRowKeeps DEF ScanNext
  <1> QED BY <1>1, ScanInitially, PTL DEF ScanSpec

\* For images of every size, every sampling of the components, and wherever the
\* data source runs dry: the blocks of the gray image lie inside the buffer of
\* one iMCU row, each comes from the tile of the coded image that covers it,
\* and when the scan is complete none is missing.
THEOREM BlocksLieRight == ScanSpec => []BlocksInPlace
  <1>1. ScanInv => BlocksInPlace
    <2> SUFFICES ASSUME ScanInv
                 PROVE  BlocksInPlace
      OBVIOUS
    <2> DEFINE v == comps[1].v
               high == HeightInBlocks(1)
               R == IMCURows
    <2>1. /\ v \in 1..4 /\ MCUsPerRow \in Nat /\ R \in Nat /\ high \in Nat
          /\ high <= R * v /\ WidthInBlocks(1) \in Nat
      BY SizesAre DEF ScanInv, ScanSizes
    <2>2. \A p \in DOMAIN placed : Right(p)
      BY DEF ScanInv
    <2>3. InsideBuffer
      BY <2>1, <2>2 DEF InsideBuffer, Right
    <2>4. TilesInOrder
      <3> SUFFICES ASSUME NEW p \in DOMAIN placed
                   PROVE  placed[p] = <<p[2] * MCUsPerRow + p[4] \div comps[p[1]].h,
                                        BlocksBefore(p[1]) + p[3] * comps[p[1]].h
                                          + (p[4] % comps[p[1]].h)>>
        BY DEF TilesInOrder, MCUsPerRow
      <3>1. p[1] = 1 /\ BlocksBefore(1) = 0
        BY <2>2, BlocksBeforeFirst DEF Right, ScanInv, ScanSizes
      <3>2. 0 + p[3] * comps[1].h = p[3] * comps[1].h
        <4>1. p[3] \in 0..(comps[1].v - 1)
          BY <2>2 DEF Right
        <4>2. comps[1].h \in 1..4 /\ comps[1].v \in 1..4
          BY FactorsAre DEF ScanInv, ScanSizes
        <4> QED BY <4>1, <4>2
      <3> QED BY <2>2, <3>1, <3>2 DEF Right
    <2>5. ScanIsComplete
      <3> SUFFICES ASSUME scanPc = "completed",
                          NEW y \in 0..(high - 1), NEW u \in 0..(WidthInBlocks(1) - 1)
                   PROVE  /\ mcu = MCUsPerRow * R
                          /\ <<1, y \div v, y % v, u>> \in DOMAIN placed
        <4>1. ScanInv /\ scanPc = "completed" => mcu = MCUsPerRow * R
          BY DEF ScanInv
        <4> QED BY <4>1 DEF ScanIsComplete, MCUsPerRow
      <3>1. mcu = MCUsPerRow * R /\ Placed(R, 0)
        BY DEF ScanInv
      <3>2. y \in Nat /\ y < high /\ y < R * v
        BY <2>1
      <3> HIDE DEF v, R, high
      <3>3. y \div v \in 0..(R - 1) /\ y % v \in 0..(v - 1) /\ (y \div v) * v + (y % v) = y
        <4>1. CASE v = 1 BY <2>1, <3>2, <4>1
        <4>2. CASE v = 2 BY <2>1, <3>2, <4>2
        <4>3. CASE v = 3 BY <2>1, <3>2, <4>3
        <4>4. CASE v = 4 BY <2>1, <3>2, <4>4
        <4> QED BY <2>1, <4>1, <4>2, <4>3, <4>4
      <3> DEFINE q == y \div v
                 m == y % v
      <3>4. q \in Nat /\ q < R /\ m \in 0..(v - 1) /\ q * v + m < high
        BY <2>1, <3>2, <3>3
      <3> HIDE DEF q, m
      <3>5. <<1, q, m, u>> \in DOMAIN placed
        BY <3>1, <3>4 DEF Placed, v, high
      <3> QED BY <3>1, <3>5 DEF q, m
    <2> QED BY <2>3, <2>4, <2>5 DEF BlocksInPlace
  <1> QED BY <1>1, ScanHolds, PTL

-----------------------------------------------------------------------------
(* The scan and the deblocking. *)

\* In JP4 images of every size in whole blocks, the four colours of a block of
\* pixels are the four coded blocks of one MCU.
THEOREM ColoursTogether == ScanSpec => []OneColourPerBlock
  <1>1. ScanInv /\ BlocksInPlace => OneColourPerBlock
    <2> SUFFICES ASSUME ScanInv, BlocksInPlace, scanPc = "completed",
                        comps = <<[h |-> 2, v |-> 2]>>,
                        image.width % Block = 0, image.height % Block = 0,
                        NEW p \in 0..(Block - 1), NEW q \in 0..(Block - 1),
                        NEW m \in 0..(image.width \div Block - 1),
                        NEW k \in 0..(image.height \div Block - 1)
                 PROVE  LET blockX == (m * Block + index1[p]) \div DCTSIZE
                            blockY == (k * Block + index1[q]) \div DCTSIZE
                        IN  placed[<<1, blockY \div 2, blockY % 2, blockX>>]
                              = <<k * (image.width \div Block) + m,
                                  2 * (q % 2) + (p % 2)>>
      BY DEF OneColourPerBlock
    <2> DEFINE w == image.width
               h == image.height
    <2>1. /\ comps[1].h = 2 /\ comps[1].v = 2 /\ DOMAIN comps = {1}
          /\ w \in Nat /\ h \in Nat /\ w > 0 /\ h > 0 /\ w % 16 = 0 /\ h % 16 = 0
      BY DEF ScanInv, ScanSizes, Block
    <2>2. MaxH = 2 /\ MaxV = 2
      <3>1. {comps[c].h : c \in DOMAIN comps} = {2} /\ {comps[c].v : c \in DOMAIN comps} = {2}
        BY <2>1
      <3>2. Max({2}) = 2
        BY MostOf
      <3> QED BY <3>1, <3>2 DEF MaxH, MaxV
    <2>3. /\ RoundUp(w, MaxH * DCTSIZE) = w \div 16
          /\ WidthInBlocks(1) = 2 * (w \div 16) /\ HeightInBlocks(1) = 2 * (h \div 16)
      BY <2>1, <2>2 DEF RoundUp, DCTSIZE, WidthInBlocks, HeightInBlocks
    <2>4. BlocksBefore(1) = 0
      BY BlocksBeforeFirst DEF ScanInv, ScanSizes
    <2> DEFINE X == (m * Block + index1[p]) \div DCTSIZE
               Y == (k * Block + index1[q]) \div DCTSIZE
    <2>5. X = 2 * m + (p % 2) /\ Y = 2 * k + (q % 2)
      <3>1. Whole(0)
        BY DEF Whole, Block
      <3>2. ASSUME NEW j \in 0..(Block - 1), NEW n \in Nat
            PROVE  (n * Block + index1[j]) \div DCTSIZE = 2 * n + (j % 2)
        <4>1. index1[j] = IF j % 2 = 0 THEN j \div 2 ELSE 8 + j \div 2
          <5>1. Block \div 2 = 8 /\ Block = 16
            BY DEF Block
          <5> QED BY <5>1 DEF index1
        <4> QED BY <4>1 DEF Block, DCTSIZE
      <3>3. m \in Nat /\ k \in Nat
        OBVIOUS
      <3> QED BY <3>2, <3>3
    <2> HIDE DEF X, Y, w, h
    <2>6. /\ m \in 0..(w \div 16 - 1) /\ k \in 0..(h \div 16 - 1)
          /\ p % 2 \in 0..1 /\ q % 2 \in 0..1
      BY DEF Block, w, h
    <2>7. X \in 0..(WidthInBlocks(1) - 1) /\ Y \in 0..(HeightInBlocks(1) - 1)
      BY <2>1, <2>3, <2>5, <2>6
    <2>8. <<1, Y \div 2, Y % 2, X>> \in DOMAIN placed
      BY <2>1, <2>7 DEF BlocksInPlace, ScanIsComplete
    <2>9. placed[<<1, Y \div 2, Y % 2, X>>]
            = <<(Y \div 2) * (w \div 16) + X \div 2, 0 + (Y % 2) * 2 + (X % 2)>>
      BY <2>1, <2>3, <2>4, <2>8 DEF BlocksInPlace, TilesInOrder, w
    <2>10. Y \div 2 = k /\ Y % 2 = q % 2 /\ X \div 2 = m /\ X % 2 = p % 2
      BY <2>5, <2>6
    <2>11. 0 + (q % 2) * 2 + (p % 2) = 2 * (q % 2) + (p % 2)
      BY <2>6
    <2> QED BY <2>9, <2>10, <2>11 DEF X, Y, w, Block
  <1> QED BY <1>1, ScanHolds, BlocksLieRight, PTL

-----------------------------------------------------------------------------
(* The gamma table of the camera. *)

LEMMA TableSizes ==
  /\ N \in Nat /\ N > 0 /\ Step \in Nat /\ Step > 2 /\ One \in Nat /\ One > 0
  /\ Top \in Nat /\ Top = N * Step - 1 /\ Step <= Top + 1
  /\ \A n \in 0..(N - 1) : /\ OutValue(n) \in Nat /\ 0 < OutValue(n)
                           /\ OutValue(n) < Top
                           /\ OutValue(n) < OutValue(n + 1)
  <1>1. /\ N \in Nat /\ N > 0 /\ Step \in Nat /\ Step > 2 /\ One \in Nat /\ One > 0
    BY ReverseTableAssumption
  <1>2. PICK k \in Nat : N = 1 + k
    <2>1. N - 1 \in Nat /\ N = 1 + (N - 1)
      BY <1>1
    <2> QED BY <2>1
  <1>3. N * Step = Step + k * Step /\ k * Step \in Nat
    BY <1>1, <1>2
  <1>4. Top \in Nat /\ Top = N * Step - 1 /\ Step <= Top + 1
    BY <1>1, <1>3 DEF Top
  <1>5. ASSUME NEW n \in 0..(N - 1)
        PROVE  /\ OutValue(n) \in Nat /\ 0 < OutValue(n) /\ OutValue(n) < Top
               /\ OutValue(n) < OutValue(n + 1)
    <2>1. PICK m \in Nat : N = n + 1 + m
      <3>1. N - 1 - n \in Nat /\ N = n + 1 + (N - 1 - n)
        BY <1>1
      <3> QED BY <3>1
    <2>2. n \in Nat
      BY <1>1
    <2>3. /\ N * Step = n * Step + Step + m * Step
          /\ (n + 1) * Step = n * Step + Step
          /\ n * Step \in Nat /\ m * Step \in Nat
      BY <1>1, <2>1, <2>2
    <2>4. Step \div 2 \in Nat /\ 0 < Step \div 2 /\ Step \div 2 < Step - 1
      BY <1>1
    <2> QED BY <1>1, <1>4, <2>2, <2>3, <2>4 DEF OutValue
  <1> QED BY <1>1, <1>4, <1>5

LEMMA Divided ==
  ASSUME NEW d \in Nat, d > 0, NEW a \in Nat
  PROVE  /\ a \div d \in Nat
         /\ d * (a \div d) <= a /\ a < d * (a \div d) + d
  <1> DEFINE q == a \div d
             m == a % d
  <1>1. q \in Int /\ m \in 0..(d - 1) /\ a = d * q + m
    OBVIOUS
  <1> HIDE DEF q, m
  <1>2. q >= 0
    <2> SUFFICES ASSUME q < 0
                 PROVE  FALSE
      BY <1>1
    <2>1. PICK k \in Nat : q = -1 - k
      <3>1. -1 - q \in Nat /\ q = -1 - (-1 - q)
        BY <1>1
      <3> QED BY <3>1
    <2>2. d * q = -d - d * k /\ d * k >= 0
      BY <2>1
    <2> QED BY <1>1, <2>2
  <1>3. d * q \in Nat
    BY <1>1, <1>2
  <1> QED BY <1>1, <1>2, <1>3 DEF q

LEMMA DividedRises ==
  ASSUME NEW d \in Nat, d > 0, NEW a \in Nat, NEW b \in Nat, a <= b
  PROVE  a \div d <= b \div d
  <1> DEFINE p == a \div d
             q == b \div d
  <1>1. p \in Nat /\ q \in Nat /\ d * p <= a /\ b < d * q + d
    BY Divided
  <1> HIDE DEF p, q
  <1>2. ~(q < p)
    <2> SUFFICES ASSUME q < p
                 PROVE  FALSE
      OBVIOUS
    <2>1. PICK k \in Nat : p = q + 1 + k
      <3>1. p - q - 1 \in Nat /\ p = q + 1 + (p - q - 1)
        BY <1>1
      <3> QED BY <3>1
    <2>2. d * p = d * q + d + d * k /\ d * k >= 0
      BY <1>1, <2>1
    <2> QED BY <1>1, <2>2
  <1> QED BY <1>1, <1>2 DEF p, q

LEMMA TruncIs ==
  ASSUME NEW a \in Nat, NEW b \in Nat, b > 0
  PROVE  Trunc(a, b) = a \div b
  BY DEF Trunc

LEMMA WrapIs ==
  ASSUME NEW a \in Nat, a < IntSpan \div 2
  PROVE  Wrap(a) = a
  <1>1. IntSpan \in Nat /\ IntSpan > 0
    BY ReverseTableAssumption
  <1> DEFINE half == IntSpan \div 2
  <1>2. half \in Nat /\ 2 * half <= IntSpan
    BY <1>1
  <1> HIDE DEF half
  <1>3. a + half \in Nat /\ a + half < IntSpan
    BY <1>1, <1>2 DEF half
  <1>4. (a + half) % IntSpan = a + half
    BY <1>1, <1>3
  <1>5. (a + half) - half = a
    BY <1>2
  <1>6. Wrap(a) = ((a + half) % IntSpan) - half
    BY DEF Wrap, half
  <1> QED BY <1>4, <1>5, <1>6

ArgumentsFit ==
  /\ curve \in Curves /\ gamma_scale \in Scales
  /\ Fits

\* What the table holds, when the product fits: it rises and ends at white.
LEMMA TableIs ==
  ASSUME ArgumentsFit
  PROVE  /\ \A n \in 0..N : /\ gtable[n] \in 0..Top
                            /\ gtable[n] = Clip((curve[n] * gamma_scale) \div One)
         /\ \A n \in 0..(N - 1) : gtable[n] <= gtable[n + 1]
         /\ gtable[N] = Top
         /\ Dark => gtable[0] = 0
  <1>1. /\ N \in Nat /\ N > 0 /\ One \in Nat /\ One > 0 /\ Top \in Nat
    BY TableSizes
  <1>2. /\ \A n \in 0..N : curve[n] \in 0..Top
        /\ \A n \in 0..(N - 1) : curve[n] <= curve[n + 1]
        /\ curve[N] = Top
    <2>1. \A n \in 1..N : curve[n - 1] <= curve[n]
      BY ReverseTableAssumption DEF ArgumentsFit
    <2>2. ASSUME NEW n \in 0..(N - 1)
          PROVE  curve[n] <= curve[n + 1]
      <3>1. n + 1 \in 1..N /\ (n + 1) - 1 = n
        BY <1>1
      <3> QED BY <2>1, <3>1
    <2> QED BY <2>2, ReverseTableAssumption DEF ArgumentsFit
  <1>3. gamma_scale \in Nat /\ One <= gamma_scale /\ gamma_scale * Top < IntSpan \div 2
    BY <1>1, ReverseTableAssumption DEF ArgumentsFit, Fits
  <1>4. IntSpan \div 2 \in Nat
    BY ReverseTableAssumption
  <1> DEFINE product(n) == curve[n] * gamma_scale
  <1>5. ASSUME NEW n \in 0..N
        PROVE  /\ product(n) \in Nat
               /\ gtable[n] = Clip(product(n) \div One)
               /\ gtable[n] \in 0..Top
    <2>1. PICK k \in Nat : Top = curve[n] + k
      <3>1. Top - curve[n] \in Nat /\ Top = curve[n] + (Top - curve[n])
        BY <1>1, <1>2
      <3> QED BY <3>1
    <2>2. curve[n] \in Nat
      BY <1>1, <1>2
    <2>3. gamma_scale * Top = product(n) + k * gamma_scale /\ k * gamma_scale \in Nat
          /\ product(n) \in Nat
      BY <1>3, <2>1, <2>2
    <2> HIDE DEF product
    <2>4. product(n) < IntSpan \div 2
      BY <1>1, <1>3, <1>4, <2>3
    <2>5. Wrap(product(n)) = product(n) /\ Trunc(product(n), One) = product(n) \div One
      BY <1>1, <2>3, <2>4, WrapIs, TruncIs
    <2>6. gtable[n] = Clip(Trunc(Wrap(product(n)), One))
      BY DEF gtable, product
    <2>7. product(n) \div One \in Nat
      BY <1>1, <2>3, Divided
    <2> QED BY <1>1, <2>3, <2>5, <2>6, <2>7 DEF Clip
  <1>6. ASSUME NEW n \in 0..(N - 1)
        PROVE  gtable[n] <= gtable[n + 1]
    <2>1. n \in 0..N /\ n + 1 \in 0..N
      BY <1>1
    <2>2. product(n) <= product(n + 1)
      <3>1. PICK k \in Nat : curve[n + 1] = curve[n] + k
        <4>1. curve[n + 1] - curve[n] \in Nat
              /\ curve[n + 1] = curve[n] + (curve[n + 1] - curve[n])
          BY <1>1, <1>2, <2>1
        <4> QED BY <4>1
      <3>2. curve[n] \in Nat
        BY <1>1, <1>2, <2>1
      <3>3. product(n + 1) = product(n) + k * gamma_scale /\ k * gamma_scale \in Nat
            /\ product(n) \in Nat
        BY <1>3, <3>1, <3>2
      <3> HIDE DEF product
      <3> QED BY <3>3
    <2>3. product(n) \in Nat /\ product(n + 1) \in Nat
      BY <1>5, <2>1
    <2>4. gtable[n] = Clip(product(n) \div One) /\ gtable[n + 1] = Clip(product(n + 1) \div One)
      BY <1>5, <2>1
    <2> HIDE DEF product
    <2>5. product(n) \div One <= product(n + 1) \div One
      BY <1>1, <2>2, <2>3, DividedRises
    <2>6. product(n) \div One \in Nat /\ product(n + 1) \div One \in Nat
      BY <1>1, <2>3, Divided
    <2> QED BY <1>1, <2>4, <2>5, <2>6 DEF Clip
  <1>7. gtable[N] = Top
    <2>1. N \in 0..N
      BY <1>1
    <2>2. PICK k \in Nat : gamma_scale = One + k
      <3>1. gamma_scale - One \in Nat /\ gamma_scale = One + (gamma_scale - One)
        BY <1>1, <1>3
      <3> QED BY <3>1
    <2>3. product(N) = One * Top + Top * k /\ Top * k \in Nat /\ One * Top \in Nat
      BY <1>1, <1>2, <2>2
    <2>4. product(N) \in Nat /\ gtable[N] = Clip(product(N) \div One)
      BY <1>5, <2>1
    <2> HIDE DEF product
    <2>5. (One * Top) \div One <= product(N) \div One
      BY <1>1, <2>3, <2>4, DividedRises
    <2>6. (One * Top) \div One = Top
      <3>1. 0 \in 0..(One - 1) /\ Top * One + 0 = One * Top
        BY <1>1
      <3> QED BY <1>1, <3>1, RowAndColumn
    <2>7. product(N) \div One \in Nat
      BY <1>1, <2>4, Divided
    <2> QED BY <1>1, <2>4, <2>5, <2>6, <2>7 DEF Clip
  <1>8. Dark => gtable[0] = 0
    <2> SUFFICES ASSUME Dark
                 PROVE  gtable[0] = 0
      OBVIOUS
    <2>1. 0 \in 0..N /\ product(0) = 0
      BY <1>1, <1>3 DEF Dark
    <2>2. gtable[0] = Clip(product(0) \div One)
      BY <1>5, <2>1
    <2> HIDE DEF product
    <2>3. 0 \div One = 0
      BY <1>1
    <2> QED BY <1>1, <2>1, <2>2, <2>3 DEF Clip
  <1> QED BY <1>5, <1>6, <1>7, <1>8

\* res is where the camera's interpolation gives value, up to a unit.
InverseOf(res, value) ==
  LET k == res \div Step
      f == res % Step
      Camera(u) == Step * gtable[k] + u * (gtable[k + 1] - gtable[k])
  IN  Camera(f) <= Step * value /\ Step * value <= Camera(f + 1)

\* A place inside one step of the table, split into the step and the rest.
LEMMA Places ==
  ASSUME NEW k \in 0..(N - 1), NEW f \in 0..(Step - 1)
  PROVE  /\ k * Step + f \in 0..Top
         /\ (k * Step + f) % (Top + 1) = k * Step + f
         /\ (k * Step + f) \div Step = k
         /\ (k * Step + f) % Step = f
  <1>1. /\ N \in Nat /\ Step \in Nat /\ Step > 0 /\ Top \in Nat
        /\ Top = N * Step - 1
    BY TableSizes
  <1>2. PICK m \in Nat : N = k + 1 + m
    <2>1. N - 1 - k \in Nat /\ N = k + 1 + (N - 1 - k)
      BY <1>1
    <2> QED BY <2>1
  <1>3. k \in Nat /\ f \in Nat /\ f < Step
    BY <1>1
  <1>4. /\ N * Step = k * Step + Step + m * Step
        /\ k * Step \in Nat /\ m * Step \in Nat
    BY <1>1, <1>2, <1>3
  <1>5. (k * Step + f) \div Step = k /\ (k * Step + f) % Step = f
    BY <1>1, <1>3, RowAndColumn
  <1> DEFINE p == k * Step
             q == m * Step
  <1>6. /\ p \in Nat /\ q \in Nat /\ Top = p + Step + q - 1
    BY <1>1, <1>4
  <1> HIDE DEF p, q
  <1>7. p + f \in 0..Top /\ (p + f) % (Top + 1) = p + f
    BY <1>1, <1>3, <1>6
  <1> QED BY <1>5, <1>7 DEF p

LEMMA Interpolated ==
  ASSUME ArgumentsFit,
         NEW k \in 0..(N - 1), NEW value \in Nat,
         value < Top, gtable[k] < value, value <= gtable[k + 1]
  PROVE  Interpolate(k, value) \in 0..Top /\ InverseOf(Interpolate(k, value), value)
  <1>1. /\ N \in Nat /\ Step \in Nat /\ Step > 0 /\ Top \in Nat
    BY TableSizes
  <1>2. k \in Nat /\ k \in 0..N /\ k + 1 \in 0..N /\ k + 1 \in Nat
    BY <1>1
  <1>3. gtable[k] \in Nat /\ gtable[k + 1] \in Nat
    BY <1>1, <1>2, TableIs
  <1> DEFINE D == gtable[k + 1] - gtable[k]
             e == value - gtable[k]
             t == (Step * e) \div D
  <1>4. D \in Nat /\ e \in Nat /\ D > 0 /\ 0 < e /\ e <= D /\ Step * e \in Nat
    BY <1>1, <1>3
  <1>5. t \in Nat /\ D * t <= Step * e /\ Step * e < D * t + D
    <2>1. Step * e \in Nat /\ D \in Nat /\ D > 0
      BY <1>4
    <2> HIDE DEF D, e
    <2> QED BY <2>1, Divided
  <1>6. Interpolate(k, value) = (k * Step + t) % (Top + 1)
    <2>1. Interpolate(k, value) = Trunc(Step * (k * D + e), D) % (Top + 1)
      BY DEF Interpolate
    <2> HIDE DEF D, e, t
    <2>2. PICK m \in 0..(D - 1) : Step * e = D * t + m
      <3>1. D * t \in Nat
        BY <1>4, <1>5
      <3>2. Step * e - D * t \in 0..(D - 1) /\ Step * e = D * t + (Step * e - D * t)
        BY <1>4, <1>5, <3>1
      <3> QED BY <3>2
    <2>3. /\ Step * (k * D + e) = (k * Step) * D + Step * e
          /\ (k * Step + t) * D = (k * Step) * D + D * t
          /\ Step * (k * D + e) \in Nat /\ k * Step + t \in Nat
          /\ (k * Step) * D \in Nat /\ D * t \in Nat
      BY <1>1, <1>2, <1>4, <1>5
    <2>4. Step * (k * D + e) = (k * Step + t) * D + m
      BY <1>4, <2>2, <2>3
    <2>5. Trunc(Step * (k * D + e), D) = (Step * (k * D + e)) \div D
      BY <1>4, <2>3, TruncIs
    <2>6. ((k * Step + t) * D + m) \div D = k * Step + t
      BY <1>4, <2>2, <2>3, RowAndColumn
    <2> QED BY <2>1, <2>4, <2>5, <2>6
  <1>7. Step * value = Step * gtable[k] + Step * e
    BY <1>1, <1>3, <1>4
  <1>8. Step * gtable[k] \in Nat /\ D * t \in Nat
    <2>1. Step * gtable[k] \in Nat
      BY <1>1, <1>3
    <2> HIDE DEF D, e, t
    <2>2. D * t \in Nat
      BY <1>4, <1>5
    <2> QED BY <2>1, <2>2
  <1>9. ASSUME t < Step
        PROVE  Interpolate(k, value) \in 0..Top /\ InverseOf(Interpolate(k, value), value)
    <2> DEFINE res == k * Step + t
    <2>1. t \in 0..(Step - 1)
      BY <1>1, <1>5, <1>9
    <2> HIDE DEF t
    <2>2. /\ res \in 0..Top /\ Interpolate(k, value) = res
          /\ res \div Step = k /\ res % Step = t
      BY <1>6, <2>1, Places
    <2>3. (t + 1) * D = D * t + D /\ t * D = D * t
      <3> HIDE DEF D
      <3> QED BY <1>4, <1>5
    <2>4. /\ Step * gtable[k] + t * D <= Step * value
          /\ Step * value <= Step * gtable[k] + (t + 1) * D
      <3> HIDE DEF D, e
      <3> QED BY <1>4, <1>5, <1>7, <1>8, <2>3
    <2> QED BY <2>2, <2>4 DEF InverseOf
  <1>10. ASSUME ~(t < Step)
         PROVE  Interpolate(k, value) \in 0..Top /\ InverseOf(Interpolate(k, value), value)
    <2>1. t = Step /\ e = D
      <3> HIDE DEF D, e, t
      <3>1. PICK a \in Nat : t = Step + a
        <4>1. t - Step \in Nat /\ t = Step + (t - Step)
          BY <1>1, <1>5, <1>10
        <4> QED BY <4>1
      <3>2. PICK b \in Nat : D = e + b
        <4>1. D - e \in Nat /\ D = e + (D - e)
          BY <1>4
        <4> QED BY <4>1
      <3>3. D * t = Step * e + Step * b + D * a /\ Step * b \in Nat /\ D * a \in Nat
        BY <1>1, <1>4, <3>1, <3>2
      <3>4. Step * b = 0 /\ D * a = 0
        <4> DEFINE p == Step * e
                   q == Step * b
                   res == D * a
                   s == D * t
        <4>1. p \in Nat /\ q \in Nat /\ res \in Nat /\ s = p + q + res /\ s <= p
          BY <1>4, <1>5, <3>3
        <4> HIDE DEF p, q, res, s
        <4>2. q = 0 /\ res = 0
          BY <4>1
        <4> QED BY <4>2 DEF q, res
      <3>5. b = 0
        BY <1>1, <3>4
      <3>6. a = 0
        BY <1>4, <3>4
      <3> QED BY <1>1, <1>4, <3>1, <3>2, <3>5, <3>6
    <2>2. value = gtable[k + 1]
      BY <1>3, <2>1
    <2>3. k + 1 \in 0..(N - 1)
      <3>1. k + 1 # N
        BY <1>1, <2>2, TableIs
      <3> QED BY <1>1, <1>2, <3>1
    <2>4. 0 \in 0..(Step - 1) /\ (k + 1) * Step + 0 = k * Step + Step
      BY <1>1, <1>2
    <2> DEFINE res == (k + 1) * Step + 0
    <2>5. /\ res \in 0..Top /\ res % (Top + 1) = res
          /\ res \div Step = k + 1 /\ res % Step = 0
      BY <2>3, <2>4, Places
    <2>6. Interpolate(k, value) = res
      <3> HIDE DEF t
      <3> QED BY <1>6, <2>1, <2>4, <2>5
    <2>7. gtable[k + 1] <= gtable[k + 1 + 1] /\ gtable[k + 1 + 1] \in Nat
      <3>1. k + 1 + 1 \in 0..N
        BY <1>1, <2>3
      <3> QED BY <1>1, <2>3, <3>1, TableIs
    <2> DEFINE E == gtable[k + 1 + 1] - gtable[k + 1]
    <2>8. 0 * E = 0 /\ (0 + 1) * E = E /\ E >= 0 /\ E \in Int
      BY <1>3, <2>7
    <2>9. /\ Step * gtable[k + 1] + 0 * E <= Step * value
          /\ Step * value <= Step * gtable[k + 1] + (0 + 1) * E
      <3>1. Step * gtable[k + 1] \in Nat
        BY <1>1, <1>3
      <3> HIDE DEF E
      <3> QED BY <2>2, <2>8, <3>1
    <2> HIDE DEF res
    <2> QED BY <2>5, <2>6, <2>9 DEF InverseOf
  <1> QED BY <1>9, <1>10

\* The walk has found the step of the table that holds the next value.
WalkFound ==
  /\ i < N => gtable[indx] < OutValue(i)
  /\ rgTable \in [0..(N - 1) -> Int]
  /\ \A n \in 0..(i - 1) : ReversedAt(n)

\* The walk never needs the bound of its loop: the last entry of the table is
\* white, which is more than any value it looks for.
TableInv ==
  /\ curve \in Curves /\ gamma_scale \in Scales
  /\ Fits => /\ indx \in 0..(N - 1) /\ i \in 0..N
             /\ ~tableBeyond
             /\ Dark => WalkFound

LEMMA ReversedIs ==
  \A n : ReversedAt(n) <=> InverseOf(rgTable[n], OutValue(n))
  BY DEF ReversedAt, InverseOf

LEMMA TableStarts == TableInit => TableInv
  <1> SUFFICES ASSUME TableInit, Fits
               PROVE  TableInv
    BY DEF TableInit, TableInv
  <1>1. N \in Nat /\ N > 0
    BY TableSizes
  <1>2. curve \in Curves /\ gamma_scale \in Scales
    BY DEF TableInit
  <1>3. i = 0 /\ indx = 0 /\ tableBeyond = FALSE
        /\ rgTable = [n \in 0..(N - 1) |-> Unset]
    BY DEF TableInit, TableFresh
  <1>4. ASSUME Dark
        PROVE  WalkFound
    <2>1. gtable[0] = 0
      BY <1>2, <1>4, TableIs DEF ArgumentsFit
    <2>2. 0 \in 0..(N - 1)
      BY <1>1
    <2>3. OutValue(0) > 0 /\ OutValue(0) \in Nat
      BY <2>2, TableSizes
    <2>4. rgTable \in [0..(N - 1) -> Int]
      BY <1>3 DEF Unset
    <2>5. 0..(i - 1) = {}
      BY <1>3
    <2> QED BY <1>3, <2>1, <2>3, <2>4, <2>5 DEF WalkFound
  <1> QED BY <1>1, <1>2, <1>3, <1>4 DEF TableInv

\* Neither step changes the arguments, nor the table made of them.
LEMMA TableStays ==
  ASSUME UNCHANGED <<curve, gamma_scale>>
  PROVE  /\ gtable' = gtable
         /\ Fits' <=> Fits
         /\ Dark' <=> Dark
         /\ \A res, value : InverseOf(res, value)' <=> InverseOf(res, value)
  <1>1. gtable' = gtable
    BY DEF gtable
  <1> QED BY <1>1 DEF Fits, Dark, InverseOf

LEMMA AdvanceKeeps ==
  ASSUME TableInv, Advance
  PROVE  TableInv'
  <1>1. /\ UNCHANGED <<curve, gamma_scale>>
        /\ UNCHANGED <<i, rgTable, tableBeyond>>
        /\ indx' = indx + 1 /\ i < N /\ indx < N
        /\ gtable[indx + 1] < OutValue(i)
    BY DEF Advance
  <1>2. N \in Nat /\ N > 0 /\ Top \in Nat
    BY TableSizes
  <1>3. /\ gtable' = gtable /\ (Fits' <=> Fits) /\ (Dark' <=> Dark)
        /\ \A res, value : InverseOf(res, value)' <=> InverseOf(res, value)
    BY <1>1, TableStays
  <1>4. ASSUME Fits
        PROVE  /\ indx' \in 0..(N - 1) /\ i' \in 0..N
               /\ ~tableBeyond'
               /\ Dark' => WalkFound'
    <2>1. indx \in 0..(N - 1) /\ i \in 0..(N - 1) /\ ~tableBeyond
      BY <1>1, <1>2, <1>4 DEF TableInv
    <2>2. indx + 1 # N
      <3>1. OutValue(i) < Top /\ OutValue(i) \in Nat
        BY <2>1, TableSizes
      <3>2. gtable[N] = Top
        BY <1>4, TableIs DEF ArgumentsFit, TableInv
      <3> QED BY <1>1, <1>2, <3>1, <3>2
    <2>3. indx' \in 0..(N - 1) /\ i' \in 0..N /\ ~tableBeyond'
      BY <1>1, <1>2, <2>1, <2>2
    <2>4. ASSUME Dark
          PROVE  WalkFound'
      <3>1. WalkFound
        BY <1>4, <2>4 DEF TableInv
      <3>2. gtable'[indx'] < OutValue(i)'
        BY <1>1, <1>3 DEF OutValue
      <3>3. \A n \in 0..(i - 1) : ReversedAt(n)'
        <4>1. \A n : OutValue(n)' = OutValue(n)
          BY DEF OutValue
        <4> QED BY <1>1, <1>3, <3>1, <4>1 DEF WalkFound, ReversedAt, InverseOf
      <3>4. 0..(i' - 1) = 0..(i - 1)
        BY <1>1
      <3>5. rgTable' \in [0..(N - 1) -> Int]
        BY <1>1, <3>1 DEF WalkFound
      <3> QED BY <3>2, <3>3, <3>4, <3>5 DEF WalkFound
    <2> QED BY <1>3, <2>3, <2>4
  <1> QED BY <1>1, <1>3, <1>4 DEF TableInv

LEMMA StoreKeeps ==
  ASSUME TableInv, Store
  PROVE  TableInv'
  <1>1. /\ UNCHANGED <<curve, gamma_scale>> /\ indx' = indx
        /\ i < N /\ i' = i + 1
        /\ indx < N => gtable[indx + 1] >= OutValue(i)
        /\ tableBeyond' = (tableBeyond \/ indx = N)
        /\ rgTable' = [rgTable EXCEPT ![i] = Reversed]
    BY DEF Store
  <1>2. N \in Nat /\ N > 0 /\ Top \in Nat
    BY TableSizes
  <1>3. /\ gtable' = gtable /\ (Fits' <=> Fits) /\ (Dark' <=> Dark)
        /\ \A res, value : InverseOf(res, value)' <=> InverseOf(res, value)
    BY <1>1, TableStays
  <1>4. ASSUME Fits
        PROVE  /\ indx' \in 0..(N - 1) /\ i' \in 0..N
               /\ ~tableBeyond'
               /\ Dark' => WalkFound'
    <2>1. indx \in 0..(N - 1) /\ i \in 0..(N - 1) /\ ~tableBeyond
      BY <1>1, <1>2, <1>4 DEF TableInv
    <2>2. indx # N /\ indx < N
      BY <1>2, <2>1
    <2>3. indx' \in 0..(N - 1) /\ i' \in 0..N /\ ~tableBeyond'
      <3>1. indx' \in 0..(N - 1)
        BY <1>1, <2>1
      <3>2. i' \in 0..N
        BY <1>1, <1>2, <2>1
      <3>3. ~tableBeyond'
        BY <1>1, <2>1, <2>2
      <3> QED BY <3>1, <3>2, <3>3
    <2>4. ASSUME Dark
          PROVE  WalkFound'
      <3>1. WalkFound
        BY <1>4, <2>4 DEF TableInv
      <3>2. OutValue(i) \in Nat /\ OutValue(i) < Top /\ OutValue(i) < OutValue(i + 1)
        BY <2>1, TableSizes
      <3>3. gtable[indx] < OutValue(i)
        BY <1>1, <3>1 DEF WalkFound
      <3>4. /\ gtable[indx] \in Nat /\ gtable[indx + 1] \in Nat
        <4>1. indx \in 0..N /\ indx + 1 \in 0..N
          BY <1>2, <2>1
        <4> QED BY <1>2, <1>4, <4>1, TableIs DEF ArgumentsFit, TableInv
      <3>5. OutValue(i) <= gtable[indx + 1]
        BY <1>1, <2>2, <3>2, <3>4
      <3>6. Reversed = Interpolate(indx, OutValue(i))
        <4>1. gtable[indx + 1] # gtable[indx]
          BY <3>2, <3>3, <3>4, <3>5
        <4>2. ~(indx >= N)
          BY <1>2, <2>1
        <4> QED BY <4>1, <4>2 DEF Reversed
      <3>7. Reversed \in 0..Top /\ InverseOf(Reversed, OutValue(i))
        <4>1. ArgumentsFit
          BY <1>4 DEF ArgumentsFit, TableInv
        <4> QED BY <2>1, <3>2, <3>3, <3>5, <3>6, <4>1, Interpolated
      <3>8. rgTable' \in [0..(N - 1) -> Int]
        <4>1. Reversed \in Int
          BY <1>2, <3>7
        <4>2. rgTable \in [0..(N - 1) -> Int]
          BY <3>1 DEF WalkFound
        <4> QED BY <1>1, <4>1, <4>2
      <3>9. i' < N => gtable'[indx'] < OutValue(i')
        <4> SUFFICES ASSUME i' < N
                     PROVE  gtable'[indx'] < OutValue(i')
          OBVIOUS
        <4>1. i + 1 \in 0..(N - 1)
          BY <1>1, <1>2, <2>1
        <4>2. OutValue(i + 1) \in Nat
          BY <4>1, TableSizes
        <4>3. gtable[indx] < OutValue(i + 1)
          BY <3>2, <3>3, <3>4, <4>2
        <4> QED BY <1>1, <1>3, <4>3
      <3>10. ASSUME NEW n \in 0..(i - 1)
             PROVE  InverseOf(rgTable'[n], OutValue(n))
        <4>1. n # i /\ n \in 0..(N - 1)
          BY <1>2, <2>1
        <4>2. rgTable'[n] = rgTable[n]
          BY <1>1, <3>1, <4>1 DEF WalkFound
        <4> QED BY <3>1, <4>2, ReversedIs DEF WalkFound
      <3>11. InverseOf(rgTable'[i], OutValue(i))
        <4>1. rgTable'[i] = Reversed
          BY <1>1, <2>1, <3>1 DEF WalkFound
        <4> QED BY <3>7, <4>1
      <3>12. \A n \in 0..(i' - 1) : InverseOf(rgTable'[n], OutValue(n))
        <4>1. \A n \in 0..(i' - 1) : n \in 0..(i - 1) \/ n = i
          BY <1>1, <2>1
        <4> QED BY <3>10, <3>11, <4>1
      <3>13. \A n \in 0..(i' - 1) : ReversedAt(n)'
        BY <1>3, <3>12 DEF ReversedAt, InverseOf, OutValue
      <3> QED BY <3>8, <3>9, <3>13 DEF WalkFound, OutValue
    <2> QED BY <1>3, <2>3, <2>4
  <1> QED BY <1>1, <1>3, <1>4 DEF TableInv

\* For every gamma table that rises to white, whatever its number of steps
\* and their width, and every scale from 1.0 on whose product fits an int: the
\* walk never reads beyond the table, and when the table starts at black,
\* every value goes back to where the camera's interpolation gives it.
THEOREM TableReverses == TableSpec => []ReversesCamera
  <1>1. TableInit => TableInv
    BY TableStarts
  <1>2. TableInv /\ [TableNext]_tableVars => TableInv'
    <2> SUFFICES ASSUME TableInv, [TableNext]_tableVars
                 PROVE  TableInv'
      OBVIOUS
    <2>1. CASE Advance
      BY <2>1, AdvanceKeeps
    <2>2. CASE Store
      BY <2>2, StoreKeeps
    <2>3. CASE UNCHANGED tableVars
      BY <2>3 DEF TableInv, tableVars, Fits, Dark, WalkFound, gtable, OutValue,
                  ReversedAt
    <2> QED BY <2>1, <2>2, <2>3 DEF TableNext
  <1>3. TableInv => ReversesCamera
    BY DEF TableInv, ReversesCamera, WalkFound
  <1> QED BY <1>1, <1>2, <1>3, PTL DEF TableSpec
=============================================================================
