------------------------------ MODULE RawDigest ------------------------------
(* The digest of the image in a DNG file (dng_negative::FindRawImageDigest), *)
(* which the writer stores as RawImageDigest and builds RawDataUniqueID      *)
(* from: the image is read through a buffer of some rows, tile by tile, and  *)
(* given to an MD5 printer.  A byte of the image is its row and its place in *)
(* the row.                                                                  *)
EXTENDS MD5Printer, TileIterator

CONSTANTS ImageHeights, ImageWidths,  \* sizes of the image in pixels
          PixelSizes,   \* bytes in a pixel of the image (1: read as 2)
          kBufferRows   \* kBufferRows (16 in the code)

ASSUME RawDigestAssumption ==
  /\ ImageHeights \subseteq Nat /\ ImageWidths \subseteq Nat \ {0}
  /\ PixelSizes \subseteq Nat \ {0} /\ kBufferRows \in Nat \ {0}

VARIABLES imageHeight, imageWidth, pixelSize,   \* the image; never change
          iter,      \* the tile iterator
          printer    \* the MD5 printer

digestVars == <<imageHeight, imageWidth, pixelSize, iter, printer>>

Bounds == Rect(0, 0, imageHeight, imageWidth)

(* Eight-bit data is always digested as 16 bits. *)
BufferPixelSize == IF pixelSize = 1 THEN 2 ELSE pixelSize
PixelRowBytes == imageWidth * BufferPixelSize

DigestFresh ==
  /\ iter = InitializeSize(kBufferRows, imageWidth, Bounds)
  /\ printer = NewPrinter

DigestInit ==
  /\ imageHeight \in ImageHeights /\ imageWidth \in ImageWidths
  /\ pixelSize \in PixelSizes
  /\ DigestFresh

Byte(n) == <<(n - 1) \div PixelRowBytes, (n - 1) % PixelRowBytes>>

(* image.Get fills the buffer from its start with the rows of the tile. *)
Get(tile) == [n \in 1 .. Height(tile) * PixelRowBytes |->
                Byte(tile.t * PixelRowBytes + n)]

DigestTile ==
  /\ HasTile(iter)
  /\ printer' = Process(printer, Get(OneTile(iter)))
  /\ iter' = Advance(iter)
  /\ UNCHANGED <<imageHeight, imageWidth, pixelSize>>

Finish ==
  /\ ~HasTile(iter) /\ ~printer.final
  /\ printer' = Result(printer)
  /\ UNCHANGED <<imageHeight, imageWidth, pixelSize, iter>>

DigestNext == DigestTile \/ Finish

DigestSpec == DigestInit /\ [][DigestNext]_digestVars

-----------------------------------------------------------------------------

ImageBytes == [n \in 1 .. imageHeight * PixelRowBytes |-> Byte(n)]

Collected == [i \in 1 .. Index(printer) |-> printer.buffer[i - 1]]

(* Until the padding, what has been transformed and what waits in the buffer *)
(* are together the rows read so far, each byte once and in order, however   *)
(* the tiles' sizes and the blocks meet.                                     *)
BytesInOrder ==
  ~printer.final =>
    LET rows == IF HasTile(iter) THEN OneTile(iter).t ELSE imageHeight
    IN  printer.hashed \o Collected
          = SubSeq(ImageBytes, 1, rows * PixelRowBytes)

(* The bytes of a number, least byte first. *)
Digits(number) ==
  LET rest[k \in 0 .. LengthBytes - 1] ==
        IF k = 0 THEN number ELSE rest[k - 1] \div 256
  IN  [j \in 1 .. LengthBytes |-> <<"length", rest[j - 1] % 256>>]

(* The definition of the padded message: a one, as few zeros as lead to a    *)
(* whole block, and the number of bits of the message.                       *)
Padded(message) ==
  LET zeros == CHOOSE z \in 0 .. MD5Block - 1 :
                 (Len(message) + 1 + z + LengthBytes) % MD5Block = 0
  IN  message \o <<(<<"pad", 128>>)>> \o [i \in 1..zeros |-> <<"pad", 0>>]
        \o Digits(8 * Len(message))

(* The digest is that of the whole image: two images of the same pixels have *)
(* the same digest whatever the buffer's size, and a reader that computes    *)
(* MD5 of the pixels finds the digest of the file.                           *)
DigestOfImage ==
  /\ BytesInOrder
  /\ printer.final => printer.hashed = Padded(ImageBytes)
=============================================================================
