------------------------------- MODULE DNGFile --------------------------------
(***************************************************************************)
(* WriteDNG of src/Movie2DNG/extra/dng_sdk/dng_image_writer.cpp as the     *)
(* DNGWriter of movie2dng calls it: one thumbnail, a raw image in a single *)
(* uncompressed strip, no further previews.  The directories are collected *)
(* first; then every offset is computed from their sizes, the images are   *)
(* written behind the room left for them, and the header and directories   *)
(* come last.  The file is the set of the pieces written to it.            *)
(***************************************************************************)
EXTENDS TIFFDirectory, FiniteSets

CONSTANTS
  OtherCodes,  \* codes of the tags that are not links
  Lengths,     \* lengths of what those tags hold
  MaxAdds,     \* bound on those tags
  Heights,     \* rows an image can have
  RowBytes,    \* RowBytes[image]: bytes written per row
  BufferRows,  \* rows that fit kImageBufferSize, by the width of the image
  Limit        \* 2^32, the first offset a tag cannot hold

Images == {"main", "raw"}             \* the main directory is the thumbnail's
InFile == <<"main", "raw", "exif", "gps">>
Directories == {"main", "raw", "exif", "gps"}

StripOffsets == 273
StripByteCounts == 279
SubIFDs == 330
ExifIFD == 34665
GPSInfo == 34853
LinkCodes == {StripOffsets, StripByteCounts, SubIFDs, ExifIFD, GPSInfo}

ASSUME DNGFileAssumption ==
  /\ OtherCodes \subseteq Nat \ LinkCodes
  /\ Lengths \subseteq Nat /\ MaxAdds \in Nat /\ Limit \in Nat \ {0}
  /\ Heights \subseteq Nat \ {0} /\ BufferRows \subseteq Nat
  /\ RowBytes \in [Images -> Nat \ {0}]

VARIABLES
  filePc,
  height,    \* rows of each image
  fit,       \* rows of each image that fit the buffer
  dirs,      \* the tags of each directory
  adds,      \* tags added that are not links
  value,     \* value[<<d, c>>]: the 32-bit value of link c of directory d
  position,  \* where the stream writes next
  file,      \* the pieces of the file: where they are and what they hold
  says,      \* the offsets and counts in the entries written so far
  image, row \* the image being written and its next row

fileInputs == <<height, fit>>
fileVars == <<fileInputs, filePc, dirs, adds, value, position, file, says,
              image, row>>

Links == {<<d, c>> : d \in Images, c \in {StripOffsets, StripByteCounts}}
         \cup {<<"main", c>> : c \in {SubIFDs, ExifIFD, GPSInfo}}
Link(code) == Tag(code, "data", 4)
Piece(at, size, dir, part, n) ==
  [at |-> at, size |-> size, dir |-> dir, part |-> part, n |-> n]
Header == Piece(0, 8, "main", "header", 0)
Word32(n) == n % Limit

\* The tags of dng_basic_tag_set that take part in the layout are there.
FileFresh ==
  /\ filePc = "tags"
  /\ dirs = [d \in Directories |->
               IF d \notin Images THEN <<>>
               ELSE <<Link(StripOffsets), Link(StripByteCounts)>>]
  /\ adds = 0
  /\ value = [l \in Links |-> 0]
  /\ position = 0 /\ file = {} /\ says = {}
  /\ image = "main" /\ row = 0

FileInit ==
  /\ height \in [Images -> Heights]
  /\ fit \in [Images -> BufferRows]
  /\ FileFresh

Goto(label) == filePc' = label

-----------------------------------------------------------------------------
(* Collecting the tags.  What a guard on sizes rules out ends in Fail. *)

AddTag(d, tag) ==
  /\ filePc = "tags" \/ (filePc = "more" /\ d \in Images)
  /\ adds < MaxAdds
  /\ tag.code \notin Codes(dirs[d])
  /\ ~Full(dirs[d])
  /\ dirs' = [dirs EXCEPT ![d] = Add(@, tag)]
  /\ adds' = adds + 1
  /\ UNCHANGED <<fileInputs, filePc, value, position, file, says, image, row>>

\* Links to the directories that exist, at the end of exif_tag_set ().
AddLinks ==
  /\ filePc = "tags"
  /\ LET exif == IF dirs["exif"] = <<>> THEN dirs["main"]
                 ELSE Add(dirs["main"], Link(ExifIFD))
         gps == IF dirs["gps"] = <<>> THEN exif ELSE Add(exif, Link(GPSInfo))
     IN  Len(gps) <= MaxEntries /\ dirs' = [dirs EXCEPT !["main"] = gps]
  /\ Goto("more")
  /\ UNCHANGED <<fileInputs, adds, value, position, file, says, image, row>>

AddSubIFDs ==
  /\ filePc = "more"
  /\ ~Full(dirs["main"])
  /\ dirs' = [dirs EXCEPT !["main"] = Add(@, Link(SubIFDs))]
  /\ Goto("layout")
  /\ UNCHANGED <<fileInputs, adds, value, position, file, says, image, row>>

-----------------------------------------------------------------------------
(* Layout and images. *)

\* Mutant: exifSet.Locate () gives both directories the same place.
GPSOffsetOfExif(exifAt) == exifAt

GPSOffset(exifAt) == exifAt + DirectorySize(dirs["exif"])

\* "Skip past the header and IFDs for now."
Layout ==
  LET rawAt == 8 + DirectorySize(dirs["main"])
      exifAt == rawAt + DirectorySize(dirs["raw"])
      gpsAt == GPSOffset(exifAt)
  IN  /\ filePc = "layout"
      /\ value' = [value EXCEPT ![<<"main", SubIFDs>>] = rawAt,
                                ![<<"main", ExifIFD>>] = exifAt,
                                ![<<"main", GPSInfo>>] = gpsAt]
      /\ position' = gpsAt + DirectorySize(dirs["gps"])
      /\ Goto("strip")
      /\ UNCHANGED <<fileInputs, dirs, adds, file, says, image, row>>

\* "Remember this offset."
BeginStrip ==
  /\ filePc = "strip"
  /\ value' = [value EXCEPT ![<<image, StripOffsets>>] = Word32(position)]
  /\ row' = 0
  /\ Goto("rows")
  /\ UNCHANGED <<fileInputs, dirs, adds, position, file, says, image>>

\* Pin_uint32 (1, kImageBufferSize / tileRowBytes, ifd.fTileLength)
SubTileLength ==
  LET rows == IF fit[image] < height[image] THEN fit[image] ELSE height[image]
  IN  IF rows < 1 THEN 1 ELSE rows

\* Mutant: the last part of a strip is as long as the others.
SubTileEndUncut == row + SubTileLength

SubTileEnd == IF row + SubTileLength < height[image]
              THEN row + SubTileLength ELSE height[image]

WriteSubTile ==
  /\ filePc = "rows"
  /\ row < height[image]
  /\ LET bytes == (SubTileEnd - row) * RowBytes[image]
     IN  /\ file' = file \cup {Piece(position, bytes, image, "rows", row)}
         /\ position' = position + bytes
  /\ row' = SubTileEnd
  /\ UNCHANGED <<fileInputs, filePc, dirs, adds, value, says, image>>

AfterStrip == IF image = "main" THEN "strip" ELSE "trim"

\* "Keep the tiles on even byte offsets."
EndStrip ==
  /\ filePc = "rows"
  /\ row >= height[image]
  /\ LET count == Word32(position - value[<<image, StripOffsets>>])
     IN  /\ value' = [value EXCEPT ![<<image, StripByteCounts>>] = count]
         /\ position' = position + (count % 2)
  /\ image' = "raw"
  /\ Goto(AfterStrip)
  /\ UNCHANGED <<fileInputs, dirs, adds, file, says, row>>

-----------------------------------------------------------------------------
(* Header and directories. *)

\* "DNG has a 4G size limit."
Trim ==
  /\ filePc = "trim"
  /\ position < Limit
  /\ Goto("header")
  /\ UNCHANGED <<fileInputs, dirs, adds, value, position, file, says, image,
                 row>>

WriteHeader ==
  /\ filePc = "header"
  /\ file' = file \cup {Header}
  /\ position' = 8
  /\ Goto("main")
  /\ UNCHANGED <<fileInputs, dirs, adds, value, says, image, row>>

After(d) == CASE d = "main" -> "raw" [] d = "raw" -> "exif"
              [] d = "exif" -> "gps" [] d = "gps" -> "done"

\* The value an entry holds: that of a link, or the offset of large data.
Said(d, base, i) ==
  LET tag == dirs[d][i]
  IN  [dir |-> d, code |-> tag.code,
       value |-> IF <<d, tag.code>> \in Links THEN value[<<d, tag.code>>]
                 ELSE EntryOffset(dirs[d], base, i)]

PutDirectory(d) ==
  /\ filePc = d
  /\ LET dir == dirs[d]
         large == {i \in DOMAIN dir : Large(dir[i])}
         links == {i \in DOMAIN dir : <<d, dir[i].code>> \in Links}
     IN  IF dir = <<>> THEN UNCHANGED <<position, file, says>>
         ELSE /\ file' = file
                   \cup {Piece(position, Entries(dir), d, "entries", 0)}
                   \cup {Piece(DataOffset(dir, position, i), Written(dir[i]),
                               d, "data", dir[i].code) : i \in large}
              /\ says' = says
                   \cup {Said(d, position, i) : i \in large \cup links}
              /\ position' = position + BytesPut(dir)
  /\ Goto(After(d))
  /\ UNCHANGED <<fileInputs, dirs, adds, value, image, row>>

\* An exception: a directory or the file is too large, the disk or memory is
\* full; or a signal.  None of them removes the file.
Fail ==
  /\ filePc \notin {"done", "failed"}
  /\ Goto("failed")
  /\ UNCHANGED <<fileInputs, dirs, adds, value, position, file, says, image,
                 row>>

FileNext ==
  \/ \E d \in Directories, c \in OtherCodes, k \in Kinds, n \in Lengths :
       AddTag(d, Tag(c, k, n))
  \/ AddLinks \/ AddSubIFDs \/ Layout
  \/ BeginStrip \/ WriteSubTile \/ EndStrip \/ Trim \/ WriteHeader
  \/ \E d \in Directories : PutDirectory(d)
  \/ Fail

FileSpec == FileInit /\ [][FileNext]_fileVars

-----------------------------------------------------------------------------
(* Properties. *)

\* What the entry of that code in directory d is meant to lead to.
Target(d, code) ==
  CASE code = StripOffsets -> [dir |-> d, part |-> "rows", n |-> 0]
    [] code = SubIFDs -> [dir |-> "raw", part |-> "entries", n |-> 0]
    [] code = ExifIFD -> [dir |-> "exif", part |-> "entries", n |-> 0]
    [] code = GPSInfo -> [dir |-> "gps", part |-> "entries", n |-> 0]
    [] OTHER -> [dir |-> d, part |-> "data", n |-> code]

Holds(at, what) == \E p \in file : /\ p.at = at /\ p.dir = what.dir
                                  /\ p.part = what.part /\ p.n = what.n

\* The offsets in a complete file, computed before the directories were
\* written and in some cases before they were all collected, lead to what they
\* stand for, on even places, and to every directory that is not empty; the
\* tags are sorted (line 551), however the calls that add them are ordered.
LinksHold ==
  filePc = "done" =>
    /\ \A d \in Directories : \A i, k \in DOMAIN dirs[d] :
         i < k => dirs[d][i].code < dirs[d][k].code
    /\ Holds(8, [dir |-> "main", part |-> "entries", n |-> 0])
    /\ \A s \in says : s.code # StripByteCounts =>
         s.value % 2 = 0 /\ Holds(s.value, Target(s.dir, s.code))
    /\ \A d \in Directories \ {"main"} : dirs[d] # <<>> =>
         \E s \in says : Target(s.dir, s.code).dir = d /\ s.dir = "main"

\* The rows of each image lie one after the other from its strip's offset, and
\* the byte count of the strip covers just these, whatever parts the buffer
\* makes it be written in.  So it is as soon as there is a header: a file that
\* a full disk or a signal cut short cannot be taken for a whole one.
RowsInPlace ==
  Header \in file => \A i \in Images :
    LET from == value[<<i, StripOffsets>>] IN
      /\ value[<<i, StripByteCounts>>] = height[i] * RowBytes[i]
      /\ \A r \in 0..height[i] - 1 : \E p \in file :
           /\ p.dir = i /\ p.part = "rows" /\ r >= p.n
           /\ from + r * RowBytes[i] = p.at + (r - p.n) * RowBytes[i]
           /\ (r - p.n + 1) * RowBytes[i] <= p.size

\* No piece is written over another: the room left in front of the images is
\* enough for the directories as they are written.
NothingOverlaps ==
  \A p, q \in file : p # q => p.at + p.size <= q.at \/ q.at + q.size <= p.at
=============================================================================
