---------------------------- MODULE TIFFDirectory -----------------------------
(***************************************************************************)
(* dng_tiff_directory of src/Movie2DNG/extra/dng_sdk/dng_image_writer.cpp: *)
(* a sorted list of tags that is measured by Size() before the file's      *)
(* layout is decided, and written by Put() when the images are in place.   *)
(* The data of a tag are abstracted to the number of bytes they take.      *)
(***************************************************************************)
EXTENDS Integers, Sequences, SequencesExt

CONSTANT MaxEntries  \* kMaxEntries

ASSUME TIFFDirectoryAssumption == MaxEntries \in Nat

\* A tag: its code, the class it is of, and the length of what it holds:
\* bytes of data, characters of a string, or characters of an encoded text.
Kinds == {"data", "string", "text", "utf16"}
Tag(code, kind, length) == [code |-> code, kind |-> kind, length |-> length]

\* TagTypeSize (Type ()) * Count (), with the count of the class.
Size(tag) == CASE tag.kind = "data"   -> tag.length
               [] tag.kind = "string" -> tag.length + 1
               [] tag.kind = "text"   -> 8 + tag.length
               [] tag.kind = "utf16"  -> 8 + 2 * tag.length

\* The bytes Put() of the class writes.
Written(tag) == CASE tag.kind \in {"data", "string"} -> Size(tag)
                  [] tag.kind = "text"  -> 8 + (Size(tag) - 8)
                  [] tag.kind = "utf16" -> 8 + 2 * ((Size(tag) - 8) \div 2)

Large(tag) == Size(tag) > 4
Even(n) == n + (n % 2)

Codes(dir) == {dir[i].code : i \in DOMAIN dir}
Full(dir) == Len(dir) >= MaxEntries

\* "Tags must be sorted in increasing order of tag code."
Add(dir, tag) ==
  LET after == {i \in DOMAIN dir : tag.code < dir[i].code}
  IN  InsertAt(dir, IF after = {} THEN Len(dir) + 1
                    ELSE CHOOSE i \in after : \A k \in after : i <= k, tag)

\* The bytes of each tag's data, as measured and as written.
Measures(dir) == [i \in DOMAIN dir |-> Size(dir[i])]
Writes(dir)   == [i \in DOMAIN dir |-> Written(dir[i])]

\* The bytes that the tags before the i-th need outside of the entries.
LargeBefore(dir, bytes) ==
  LET sum[i \in 1..Len(dir) + 1] ==
        IF i = 1 THEN 0
        ELSE sum[i-1] + IF Large(dir[i-1]) THEN Even(bytes[i-1]) ELSE 0
  IN  sum

Entries(dir) == Len(dir) * 12 + 6

\* Mutant: data of an odd size are not padded.
SizeUnpadded(dir) ==
  LET sum[i \in 0..Len(dir)] ==
        IF i = 0 THEN 0
        ELSE sum[i-1] + IF Large(dir[i]) THEN Size(dir[i]) ELSE 0
  IN  IF dir = <<>> THEN 0 ELSE Entries(dir) + sum[Len(dir)]

\* Size (): nothing for an empty directory, which is not written.
DirectorySize(dir) ==
  IF dir = <<>> THEN 0
  ELSE Entries(dir) + LargeBefore(dir, Measures(dir))[Len(dir) + 1]

\* Put (): the offset that the i-th entry gives for its data, ...
EntryOffset(dir, base, i) ==
  base + Entries(dir) + LargeBefore(dir, Measures(dir))[i]

\* ... and the place at which the second loop writes them.
DataOffset(dir, base, i) ==
  base + Entries(dir) + LargeBefore(dir, Writes(dir))[i]

BytesPut(dir) ==
  IF dir = <<>> THEN 0
  ELSE Entries(dir) + LargeBefore(dir, Writes(dir))[Len(dir) + 1]
=============================================================================
