----------------------------- MODULE DNGStream -----------------------------
(***************************************************************************)
(* dng_stream of src/Movie2DNG/extra/dng_sdk/dng_stream.cpp, through which *)
(* images and DNG files pass: one buffer serves reads and writes in front  *)
(* of a store, here the pages of dng_memory_stream, which movie2dng puts   *)
(* an image in and reads it from.  Get is a loop, one step for each round. *)
(***************************************************************************)
EXTENDS StreamData

CONSTANTS
  Bytes, Counts, MaxLength,
  BufferSizes,  \* values of fBufferSize
  Alignment     \* 4096: a buffer of this size or more is aligned to it

ASSUME DNGStreamAssumption ==
  /\ Counts \subseteq Nat \ {0}
  /\ BufferSizes \subseteq Nat \ {0} /\ Alignment \in Nat \ {0}
  /\ MaxLength \in Nat

VARIABLES
  store,           \* bytes of the pages
  fPosition,
  fLength,         \* Unknown until Length() has asked for it
  fBuffer,         \* bytes 0..fBufferSize - 1 of the buffer
  fBufferSize, fBufferStart, fBufferEnd, fBufferLimit, fBufferDirty,
  streamPc,        \* "ready", in the loop of "get", or "thrown"
  count, got,      \* of a Get: bytes still wanted, bytes delivered
  answer,          \* data of a Get that has just returned
  careless         \* history: data a Get had buffered was overwritten or cut
                   \* off, or the stream was used after an exception

rangeVars == <<fBufferStart, fBufferEnd, fBufferLimit, fBufferDirty>>
callVars  == <<streamPc, count, got, answer>>
streamVars == <<store, fPosition, fLength, fBuffer, fBufferSize, rangeVars,
                callVars, careless>>

Unknown == -1
Junk    == -1

Lower(a, b) == IF a < b THEN a ELSE b
Higher(a, b) == IF a > b THEN a ELSE b

Length == IF fLength = Unknown THEN Len(store) ELSE fLength

\* count bytes of the buffer from a position of the stream.
Buffered(from, n) == [i \in 1..n |-> fBuffer[from - fBufferStart + i - 1]]

\* What the store holds after a Flush.
Flushed ==
  IF fBufferDirty
  THEN Overlay(store, fBufferStart,
               Buffered(fBufferStart, fBufferEnd - fBufferStart))
  ELSE store

\* fBuffer with d copied to it at an offset.
Filled(offset, d) ==
  [i \in DOMAIN fBuffer |->
     IF i \in offset..(offset + Len(d) - 1) THEN d[i - offset + 1]
                                            ELSE fBuffer[i]]

StreamFresh ==
  /\ store = << >> /\ fPosition = 0 /\ fLength = Unknown
  /\ fBuffer = [i \in 0..(fBufferSize - 1) |-> Junk]
  /\ fBufferStart = 0 /\ fBufferEnd = 0 /\ fBufferLimit = fBufferSize
  /\ fBufferDirty = FALSE
  /\ streamPc = "ready" /\ count = 0 /\ got = << >> /\ answer = << >>
  /\ careless = FALSE

StreamInit == fBufferSize \in BufferSizes /\ StreamFresh

Throw  == streamPc' = "thrown" /\ answer' = << >> /\ UNCHANGED <<count, got>>
NoCall == answer' = << >> /\ UNCHANGED <<streamPc, count, got>>

-----------------------------------------------------------------------------
(* Positions and the length. *)

SetWritePosition ==
  /\ streamPc = "ready"
  /\ fPosition' \in 0..MaxLength
  /\ NoCall
  /\ UNCHANGED <<store, fLength, fBuffer, fBufferSize, rangeVars, careless>>

\* The position moves before it is compared with the length.
SetReadPosition ==
  /\ streamPc = "ready"
  /\ fPosition' \in 0..MaxLength
  /\ fLength' = Length
  /\ IF fPosition' > Length THEN Throw ELSE NoCall
  /\ UNCHANGED <<store, fBuffer, fBufferSize, rangeVars, careless>>

\* A Flush resets the range of the buffer only when there was data in it.
ResetRange ==
  IF fBufferDirty
  THEN /\ fBufferStart' = 0 /\ fBufferEnd' = 0
       /\ fBufferLimit' = fBufferSize /\ fBufferDirty' = FALSE
  ELSE UNCHANGED rangeVars

WriteBuffer == store' = Flushed

Flush ==
  /\ streamPc = "ready"
  /\ WriteBuffer
  /\ ResetRange /\ NoCall
  /\ UNCHANGED <<fPosition, fLength, fBuffer, fBufferSize, careless>>

SetLength ==
  /\ streamPc = "ready"
  /\ \E n \in 0..MaxLength :
       /\ careless' = (careless \/ (~fBufferDirty /\ n < fBufferEnd))
       /\ store' = Resized(Flushed, n)
       /\ fLength' = n
  /\ ResetRange /\ NoCall
  /\ UNCHANGED <<fPosition, fBuffer, fBufferSize>>

-----------------------------------------------------------------------------
(* Put. *)

Reaches(length, end) == Higher(length, end)

\* Mutant: put into a buffer that was only read, too.
FitsClean(n) ==
  /\ fBufferStart <= fPosition /\ fPosition <= fBufferEnd
  /\ fPosition + n <= fBufferLimit

\* The new data continues or replaces what the buffer is about to write.
Fits(n) ==
  /\ fBufferDirty
  /\ fBufferStart <= fPosition /\ fPosition <= fBufferEnd
  /\ fPosition + n <= fBufferLimit

PutBuffered(d) ==
  /\ Fits(Len(d))
  /\ fBuffer' = Filled(fPosition - fBufferStart, d)
  /\ fBufferEnd' = Higher(fBufferEnd, fPosition + Len(d))
  /\ UNCHANGED <<store, fBufferStart, fBufferLimit, fBufferDirty>>

PutUnbuffered(d) ==
  /\ ~Fits(Len(d)) /\ Len(d) >= fBufferSize
  /\ store' = Overlay(Flushed, fPosition, d)
  /\ ResetRange
  /\ UNCHANGED fBuffer

PutNewBuffer(d) ==
  /\ ~Fits(Len(d)) /\ Len(d) < fBufferSize
  /\ WriteBuffer
  /\ fBufferDirty' = TRUE
  /\ fBufferStart' = fPosition /\ fBufferEnd' = fPosition + Len(d)
  /\ fBufferLimit' = fPosition + fBufferSize
  /\ fBuffer' = Filled(0, d)

Put ==
  /\ streamPc = "ready"
  /\ \E byte \in Bytes, n \in Counts :
       /\ fPosition + n <= MaxLength
       /\ careless' = \/ careless
                       \/ (~fBufferDirty /\ fBufferEnd > 0 /\ n >= fBufferSize)
       /\ \/ PutBuffered(Copies(byte, n))
          \/ PutUnbuffered(Copies(byte, n))
          \/ PutNewBuffer(Copies(byte, n))
       /\ fPosition' = fPosition + n
       /\ fLength' = Reaches(IF fLength = Unknown THEN Len(store')
                                                 ELSE fLength, fPosition + n)
  /\ NoCall
  /\ UNCHANGED fBufferSize

-----------------------------------------------------------------------------
(* Get. *)

CallGet ==
  /\ streamPc = "ready"
  /\ streamPc' = "get" /\ count' \in Counts /\ got' = << >> /\ answer' = << >>
  /\ UNCHANGED <<store, fPosition, fLength, fBuffer, fBufferSize, rangeVars,
                 careless>>

InBuffer == fBufferStart <= fPosition /\ fPosition + count <= fBufferEnd

Return(d) ==
  /\ answer' = d
  /\ streamPc' = "ready" /\ count' = 0 /\ got' = << >>

GetBuffered ==
  /\ streamPc = "get" /\ InBuffer
  /\ Return(got \o Buffered(fPosition, count))
  /\ fPosition' = fPosition + count
  /\ UNCHANGED <<store, fLength, fBuffer, fBufferSize, rangeVars, careless>>

\* The part of a request that lies at the end of the buffer.
Part ==
  IF fBufferStart <= fPosition /\ fPosition < fBufferEnd
  THEN fBufferEnd - fPosition ELSE 0
Rest == count - Part

Aligned(position) ==
  IF fBufferSize >= Alignment THEN (position \div Alignment) * Alignment
                              ELSE position

GetUnbuffered ==
  /\ streamPc = "get" /\ ~InBuffer /\ Rest > fBufferSize
  /\ WriteBuffer
  /\ ResetRange
  /\ fLength' = IF fLength = Unknown THEN Len(store') ELSE fLength
  /\ IF fPosition + count > fLength'
     THEN /\ fPosition' = fPosition + Part
          /\ got' = got \o Buffered(fPosition, Part)
          /\ streamPc' = "thrown" /\ count' = Rest /\ UNCHANGED answer
     ELSE /\ fPosition' = fPosition + count
          /\ Return(got \o Buffered(fPosition, Part)
                        \o Slice(store', fPosition + Part, Rest))
  /\ UNCHANGED <<fBuffer, fBufferSize, careless>>

\* The new range is set before anything is read into it, and stays when the
\* end of the data throws.
Refill ==
  /\ streamPc = "get" /\ ~InBuffer /\ Rest <= fBufferSize
  /\ WriteBuffer
  /\ fLength' = IF fLength = Unknown THEN Len(store') ELSE fLength
  /\ fPosition' = fPosition + Part
  /\ got' = got \o Buffered(fPosition, Part)
  /\ count' = Rest
  /\ fBufferStart' = Aligned(fPosition')
  /\ fBufferEnd' = Lower(fBufferStart' + fBufferSize, fLength')
  /\ fBufferLimit' = IF fBufferDirty THEN fBufferSize ELSE fBufferLimit
  /\ fBufferDirty' = FALSE
  /\ IF fBufferEnd' <= fPosition'
     THEN streamPc' = "thrown" /\ UNCHANGED fBuffer
     ELSE /\ fBuffer' = Filled(0, Slice(store', fBufferStart',
                                        fBufferEnd' - fBufferStart'))
          /\ UNCHANGED streamPc
  /\ UNCHANGED <<fBufferSize, answer, careless>>

\* A caller that catches the exception and goes on with the stream.
Catch ==
  /\ streamPc = "thrown"
  /\ careless' = TRUE
  /\ streamPc' = "ready" /\ count' = 0 /\ got' = << >>
  /\ UNCHANGED <<store, fPosition, fLength, fBuffer, fBufferSize, rangeVars,
                 answer>>

StreamNext ==
  \/ SetWritePosition \/ SetReadPosition \/ Flush \/ SetLength
  \/ Put
  \/ CallGet \/ GetBuffered \/ GetUnbuffered \/ Refill \/ Catch

StreamSpec == StreamInit /\ [][StreamNext]_streamVars

-----------------------------------------------------------------------------
(* Properties. *)

Abstract == INSTANCE ByteStream WITH
  contents <- Flushed,
  position <- fPosition - Len(got),
  thrown   <- streamPc = "thrown"

\* Until data is cut off or put unbuffered behind a buffer that was read, or
\* the stream is used after an exception, it is the sequence of bytes
\* dng_stream.h describes: buffered, aligned and direct accesses mix freely,
\* what was put is what is got, and a Get throws only when its data is not
\* there.
IsByteStream ==
  Abstract!Init /\ [][~careless' => Abstract!Next]_(Abstract!vars)
=============================================================================
