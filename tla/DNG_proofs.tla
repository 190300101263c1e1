----------------------------- MODULE DNG_proofs ------------------------------
(***************************************************************************)
(* Proofs about the parts of the DNG SDK that write an image: dng_stream   *)
(* is a sequence of bytes, for every size of its buffer, every alignment   *)
(* and every length of the requests; a raw image keeps its colours and its *)
(* tag however it is mirrored and turned, for images of every even size;   *)
(* and a task that is performed tile by tile meets every pixel of its area *)
(* once, in tiles it can take, for every pattern of repeating tiles.       *)
(***************************************************************************)
EXTENDS DNGStream, DNGMosaic, AreaTask, SequenceTheorems, TLAPS

-----------------------------------------------------------------------------
(* The bytes. *)

Data == Bytes \cup {Gap, Junk}

\* A sequence is made of its length and its elements.
LEMMA IsSeq ==
  ASSUME NEW n \in Nat, NEW s, s = [i \in 1..n |-> s[i]],
         \A i \in 1..n : s[i] \in Data
  PROVE  s \in Seq(Data) /\ Len(s) = n
  OBVIOUS

LEMMA OverlayIs ==
  ASSUME NEW s \in Seq(Data), NEW d \in Seq(Data), NEW offset \in Nat
  PROVE  /\ Overlay(s, offset, d) \in Seq(Data)
         /\ Len(Overlay(s, offset, d)) = Higher(Len(s), offset + Len(d))
         /\ \A i \in 1..Higher(Len(s), offset + Len(d)) :
              Overlay(s, offset, d)[i] =
                IF i \in (offset + 1)..(offset + Len(d)) THEN d[i - offset]
                ELSE IF i <= Len(s) THEN s[i] ELSE Gap
  <1> DEFINE end == offset + Len(d)
             top == Higher(Len(s), end)
             o == Overlay(s, offset, d)
             e(i) == IF i \in (offset + 1)..end THEN d[i - offset]
                     ELSE IF i <= Len(s) THEN s[i] ELSE Gap
  <1>1. Len(s) \in Nat /\ Len(d) \in Nat /\ end \in Nat /\ top \in Nat
    BY DEF Higher
  <1>2. o = [i \in 1..top |-> IF i \in (offset + 1)..end THEN d[i - offset]
                              ELSE Resized(s, i)[i]]
    <2>1. top = IF end > Len(s) THEN end ELSE Len(s)
      BY <1>1 DEF Higher
    <2> QED BY <2>1 DEF Overlay
  <1>3. ASSUME NEW i \in 1..top
        PROVE  o[i] = e(i) /\ e(i) \in Data
    <2>1. i \in Nat /\ i > 0
      BY <1>1
    <2>2. Resized(s, i)[i] = IF i <= Len(s) THEN s[i] ELSE Gap
      BY <2>1 DEF Resized
    <2>3. i \in (offset + 1)..end => d[i - offset] \in Data
      <3>1. ASSUME i \in (offset + 1)..end
            PROVE  i - offset \in 1..Len(d)
        BY <1>1, <2>1, <3>1
      <3> QED BY <3>1, ElementOfSeq
    <2>4. i <= Len(s) => s[i] \in Data
      BY <2>1, <1>1, ElementOfSeq
    <2> QED BY <1>2, <2>2, <2>3, <2>4 DEF Data
  <1> HIDE DEF o, e, top, end
  <1>4. o = [i \in 1..top |-> o[i]]
    BY <1>2
  <1>5. \A i \in 1..top : o[i] \in Data
    BY <1>3
  <1>6. o \in Seq(Data) /\ Len(o) = top
    BY <1>1, <1>4, <1>5, IsSeq
  <1> QED BY <1>3, <1>6 DEF o, e, top, end

LEMMA ResizedIs ==
  ASSUME NEW s \in Seq(Data), NEW n \in Nat
  PROVE  /\ Resized(s, n) \in Seq(Data) /\ Len(Resized(s, n)) = n
         /\ \A i \in 1..n :
              Resized(s, n)[i] = IF i <= Len(s) THEN s[i] ELSE Gap
  <1>1. Resized(s, n) = [i \in 1..n |-> IF i <= Len(s) THEN s[i] ELSE Gap]
    BY DEF Resized
  <1>2. \A i \in 1..n : Resized(s, n)[i] \in Data
    BY <1>1, ElementOfSeq DEF Data
  <1>3. Resized(s, n) = [i \in 1..n |-> Resized(s, n)[i]]
    BY <1>1
  <1>4. Resized(s, n) \in Seq(Data) /\ Len(Resized(s, n)) = n
    BY <1>2, <1>3, IsSeq
  <1> QED BY <1>1, <1>4

LEMMA CopiesIs ==
  ASSUME NEW byte \in Bytes, NEW n \in Nat
  PROVE  /\ Copies(byte, n) \in Seq(Data) /\ Len(Copies(byte, n)) = n
         /\ \A i \in 1..n : Copies(byte, n)[i] = byte
  BY DEF Copies, Data

LEMMA SliceIs ==
  ASSUME NEW s \in Seq(Data), NEW offset \in Nat, NEW n \in Nat,
         offset + n <= Len(s)
  PROVE  /\ Slice(s, offset, n) \in Seq(Data) /\ Len(Slice(s, offset, n)) = n
         /\ \A i \in 1..n : Slice(s, offset, n)[i] = s[offset + i]
  <1>1. \A i \in (offset + 1)..(offset + n) : s[i] \in Data
    <2>1. ASSUME NEW i \in (offset + 1)..(offset + n)
          PROVE  i \in 1..Len(s)
      OBVIOUS
    <2> QED BY <2>1, ElementOfSeq
  <1> DEFINE f == offset + 1
             l == offset + n
  <1>t. f \in Int /\ l \in Int
    OBVIOUS
  <1>2. /\ SubSeq(s, f, l) \in Seq(Data)
        /\ Len(SubSeq(s, f, l)) = IF f <= l THEN l - f + 1 ELSE 0
        /\ \A i \in 1..(l - f + 1) : SubSeq(s, f, l)[i] = s[f + i - 1]
    <2>1. \A i \in f..l : s[i] \in Data
      BY <1>1
    <2> HIDE DEF f, l
    <2> QED BY <1>t, <2>1, SubSeqProperties
  <1>3. (IF f <= l THEN l - f + 1 ELSE 0) = n /\ l - f + 1 = n
    OBVIOUS
  <1>4. \A i \in 1..n : f + i - 1 = offset + i
    OBVIOUS
  <1> QED BY <1>2, <1>3, <1>4 DEF Slice

-----------------------------------------------------------------------------
(* The buffer in front of the store. *)

BufferTypes ==
  /\ fBufferSize \in Nat \ {0}
  /\ store \in Seq(Data) /\ Len(store) <= MaxLength
  /\ fBuffer \in [0..(fBufferSize - 1) -> Data]
  /\ fPosition \in Nat /\ fPosition <= MaxLength
  /\ fBufferStart \in Nat /\ fBufferEnd \in Nat /\ fBufferEnd <= MaxLength
  /\ fBufferStart <= fBufferEnd /\ fBufferEnd <= fBufferStart + fBufferSize
  /\ fBufferDirty \in BOOLEAN

\* Length and bytes of the stream.
End == IF fBufferDirty THEN Higher(Len(store), fBufferEnd) ELSE Len(store)

Content(i) ==
  IF fBufferDirty /\ i \in (fBufferStart + 1)..fBufferEnd
  THEN fBuffer[i - 1 - fBufferStart]
  ELSE IF i <= Len(store) THEN store[i] ELSE Gap

LEMMA BufferedIs ==
  ASSUME BufferTypes, NEW from \in Nat, NEW n \in Nat,
         fBufferStart <= from, from + n <= fBufferStart + fBufferSize
  PROVE  /\ Buffered(from, n) \in Seq(Data) /\ Len(Buffered(from, n)) = n
         /\ \A i \in 1..n :
              Buffered(from, n)[i] = fBuffer[from - fBufferStart + i - 1]
  <1> DEFINE b == Buffered(from, n)
  <1>1. b = [i \in 1..n |-> fBuffer[from - fBufferStart + i - 1]]
    BY DEF Buffered
  <1>2. ASSUME NEW i \in 1..n
        PROVE  b[i] \in Data
    <2>1. from - fBufferStart + i - 1 \in 0..(fBufferSize - 1)
      BY DEF BufferTypes
    <2> QED BY <1>1, <2>1 DEF BufferTypes
  <1> HIDE DEF b
  <1>3. b = [i \in 1..n |-> b[i]]
    BY <1>1
  <1>4. b \in Seq(Data) /\ Len(b) = n
    BY <1>2, <1>3, IsSeq
  <1> QED BY <1>1, <1>4 DEF b

FlushedFacts ==
  /\ Flushed \in Seq(Data) /\ Len(Flushed) = End
  /\ End \in Nat /\ End <= MaxLength
  /\ \A i \in 1..End : Flushed[i] = Content(i)

LEMMA FlushedIs == BufferTypes => FlushedFacts
  <1> SUFFICES ASSUME BufferTypes PROVE FlushedFacts
    OBVIOUS
  <1>1. Len(store) \in Nat /\ End \in Nat /\ End <= MaxLength
    BY DEF BufferTypes, End, Higher
  <1>2. CASE fBufferDirty
    <2> DEFINE n == fBufferEnd - fBufferStart
               d == Buffered(fBufferStart, n)
    <2>1. /\ fBufferStart \in Nat /\ n \in Nat /\ fBufferStart + n = fBufferEnd
          /\ fBufferStart + n <= fBufferStart + fBufferSize
      BY DEF BufferTypes
    <2>2. /\ d \in Seq(Data) /\ Len(d) = n
          /\ \A i \in 1..n : d[i] = fBuffer[fBufferStart - fBufferStart + i - 1]
      <3> HIDE DEF n
      <3> QED BY <2>1, BufferedIs
    <2>3. store \in Seq(Data)
      BY DEF BufferTypes
    <2> HIDE DEF d
    <2>4. /\ Overlay(store, fBufferStart, d) \in Seq(Data)
          /\ Len(Overlay(store, fBufferStart, d)) = End
          /\ \A i \in 1..End :
               Overlay(store, fBufferStart, d)[i] =
                 IF i \in (fBufferStart + 1)..fBufferEnd THEN d[i - fBufferStart]
                 ELSE IF i <= Len(store) THEN store[i] ELSE Gap
      <3>1. /\ Overlay(store, fBufferStart, d) \in Seq(Data)
            /\ Len(Overlay(store, fBufferStart, d))
                 = Higher(Len(store), fBufferStart + Len(d))
            /\ \A i \in 1..Higher(Len(store), fBufferStart + Len(d)) :
                 Overlay(store, fBufferStart, d)[i] =
                   IF i \in (fBufferStart + 1)..(fBufferStart + Len(d))
                   THEN d[i - fBufferStart]
                   ELSE IF i <= Len(store) THEN store[i] ELSE Gap
        BY <2>1, <2>2, <2>3, OverlayIs
      <3>2. fBufferStart + Len(d) = fBufferEnd
        BY <2>1, <2>2
      <3>3. Higher(Len(store), fBufferEnd) = End
        BY <1>2 DEF End
      <3> QED BY <3>1, <3>2, <3>3
    <2>5. ASSUME NEW i \in (fBufferStart + 1)..fBufferEnd
          PROVE  d[i - fBufferStart] = fBuffer[i - 1 - fBufferStart]
      <3>1. i - fBufferStart \in 1..n
        BY <2>1, <2>5
      <3>2. fBufferStart - fBufferStart + (i - fBufferStart) - 1
              = i - 1 - fBufferStart
        BY <2>1
      <3> QED BY <2>2, <3>1, <3>2
    <2>6. Flushed = Overlay(store, fBufferStart, d)
      BY <1>2 DEF Flushed, d
    <2> QED BY <1>1, <1>2, <2>4, <2>5, <2>6 DEF FlushedFacts, Content
  <1>3. CASE ~fBufferDirty
    <2>1. Flushed = store /\ End = Len(store)
      BY <1>3 DEF Flushed, End
    <2> QED BY <1>1, <1>3, <2>1 DEF FlushedFacts, Content, BufferTypes
  <1> QED BY <1>2, <1>3

LEMMA FlushedIsNext == (BufferTypes => FlushedFacts)'
  <1>1. BufferTypes => FlushedFacts
    BY FlushedIs
  <1> QED BY <1>1, PTL

-----------------------------------------------------------------------------
(* What holds until data is lost or an exception is thrown. *)

LengthKnown == fLength = End \/ (fLength = Unknown /\ ~fBufferDirty)

\* The buffer is to be written, or what it holds is what the store holds.
BufferTrue ==
  /\ fBufferDirty => fBufferLimit = fBufferStart + fBufferSize
  /\ ~fBufferDirty =>
       /\ fBufferEnd <= Len(store)
       /\ \A i \in (fBufferStart + 1)..fBufferEnd :
            fBuffer[i - 1 - fBufferStart] = store[i]

\* A Get has delivered the bytes before the position.
GetOnTheWay ==
  /\ count \in Nat \ {0} /\ got \in Seq(Data)
  /\ Len(got) + count \in Counts /\ Len(got) <= fPosition
  /\ Len(got) > 0 => fPosition <= End
  /\ \A i \in 1..Len(got) : got[i] = Flushed[fPosition - Len(got) + i]
  /\ answer = << >>

StreamGood ==
  /\ BufferTypes /\ LengthKnown /\ BufferTrue
  /\ streamPc \in {"ready", "get"}
  /\ streamPc = "ready" => got = << >>
  /\ streamPc = "get" => GetOnTheWay

StreamInv == ~careless /\ streamPc # "thrown" => StreamGood

\* What the buffer holds is part of the stream.
LEMMA InTheBuffer ==
  ASSUME StreamGood, NEW i \in (fBufferStart + 1)..fBufferEnd
  PROVE  i \in 1..End /\ Flushed[i] = fBuffer[i - 1 - fBufferStart]
  <1>1. FlushedFacts /\ BufferTypes /\ BufferTrue
    BY FlushedIs DEF StreamGood
  <1>2. i \in Nat /\ i > 0 /\ i <= fBufferEnd /\ Len(store) \in Nat
    BY <1>1 DEF BufferTypes
  <1>3. CASE fBufferDirty
    <2>1. i \in 1..End
      BY <1>1, <1>2, <1>3 DEF End, Higher, BufferTypes
    <2> QED BY <1>1, <1>3, <2>1 DEF FlushedFacts, Content
  <1>4. CASE ~fBufferDirty
    <2>1. i \in 1..Len(store) /\ store[i] = fBuffer[i - 1 - fBufferStart]
      <3>1. fBufferEnd <= Len(store) /\ fBufferEnd \in Nat
        BY <1>1, <1>4 DEF BufferTrue, BufferTypes
      <3>2. i \in 1..Len(store)
        BY <1>2, <3>1
      <3> QED BY <1>1, <1>4, <3>2 DEF BufferTrue
    <2>2. i \in 1..End /\ Content(i) = store[i]
      BY <1>1, <1>2, <1>4, <2>1 DEF End, Content
    <2> QED BY <1>1, <2>1, <2>2 DEF FlushedFacts
  <1> QED BY <1>3, <1>4, <1>1 DEF BufferTypes

LEMMA LengthIsEnd == StreamGood => Length = End
  <1> SUFFICES ASSUME StreamGood PROVE Length = End
    OBVIOUS
  <1>1. End \in Nat /\ LengthKnown
    BY FlushedIs DEF StreamGood, FlushedFacts
  <1>2. CASE fLength = Unknown
    <2>1. ~fBufferDirty
      BY <1>1, <1>2 DEF LengthKnown, Unknown
    <2> QED BY <1>2, <2>1 DEF Length, End
  <1>3. CASE fLength # Unknown
    BY <1>1, <1>3 DEF LengthKnown, Length
  <1> QED BY <1>2, <1>3

-----------------------------------------------------------------------------
(* The steps: what holds goes on, and the stream makes a step of a ByteStream *)
(* or none.                                                                   *)

Stays == /\ Flushed' = Flushed /\ fPosition' - Len(got') = fPosition - Len(got)
         /\ answer' = answer /\ (streamPc' = "thrown") = (streamPc = "thrown")

Refines == Abstract!Next \/ Stays

Holds == (streamPc' # "thrown" => StreamGood') /\ Refines

LEMMA InitIsAbstract == StreamInit => StreamInv /\ Abstract!Init
  <1> SUFFICES ASSUME StreamInit PROVE StreamInv /\ Abstract!Init
    OBVIOUS
  <1>1. fBufferSize \in Nat \ {0} /\ MaxLength \in Nat
    BY DNGStreamAssumption DEF StreamInit
  <1>2. BufferTypes
    <2>1. fBuffer \in [0..(fBufferSize - 1) -> Data]
      BY DEF StreamInit, StreamFresh, Data
    <2>2. /\ store = << >> /\ fPosition = 0 /\ fBufferStart = 0 /\ fBufferEnd = 0
          /\ fBufferDirty = FALSE
      BY DEF StreamInit, StreamFresh
    <2>3. << >> \in Seq(Data) /\ Len(<< >>) = 0
      BY EmptySeq
    <2>4. store \in Seq(Data) /\ Len(store) = 0
      BY <2>2, <2>3
    <2>5. /\ fPosition = 0 /\ fBufferStart = 0 /\ fBufferEnd = 0
          /\ fBufferDirty \in BOOLEAN
      BY <2>2
    <2>6. /\ fPosition \in Nat /\ fPosition <= MaxLength
          /\ fBufferStart \in Nat /\ fBufferEnd \in Nat /\ fBufferEnd <= MaxLength
          /\ fBufferStart <= fBufferEnd
          /\ fBufferEnd <= fBufferStart + fBufferSize /\ Len(store) <= MaxLength
      BY <1>1, <2>4, <2>5
    <2> QED BY <1>1, <2>1, <2>4, <2>5, <2>6 DEF BufferTypes
  <1>3. StreamGood
    BY <1>1, <1>2
    DEF StreamInit, StreamFresh, StreamGood, LengthKnown, BufferTrue, End
  <1>4. Abstract!Init
    <2>1. /\ Flushed = << >> /\ answer = << >> /\ got = << >> /\ fPosition = 0
          /\ streamPc = "ready"
      BY DEF StreamInit, StreamFresh, Flushed
    <2>2. Len(got) = 0 /\ fPosition - Len(got) = 0
      <3>1. Len(got) = 0
        BY <2>1, EmptySeq
      <3>2. fPosition = 0
        BY <2>1
      <3> QED BY <3>1, <3>2
    <2>3. (streamPc = "thrown") = FALSE
      BY <2>1
    <2> QED BY <2>1, <2>2, <2>3 DEF Abstract!Init
  <1> QED BY <1>3, <1>4 DEF StreamInv

\* The store and the buffer are left alone, the position may move.
LEMMA SameBytes ==
  ASSUME BufferTypes, BufferTrue,
         UNCHANGED <<store, fBuffer, fBufferSize, rangeVars>>,
         fPosition' \in Nat, fPosition' <= MaxLength
  PROVE  /\ BufferTypes' /\ BufferTrue' /\ Flushed' = Flushed /\ End' = End
         /\ fBufferDirty' = fBufferDirty
  <1>1. Flushed' = Flushed
    BY DEF rangeVars, Flushed, Buffered
  <1>2. BufferTypes' /\ BufferTrue'
    BY DEF rangeVars, BufferTypes, BufferTrue
  <1>3. End' = End /\ fBufferDirty' = fBufferDirty
    BY DEF rangeVars, End
  <1> QED BY <1>1, <1>2, <1>3

LEMMA SeekSteps ==
  ASSUME StreamGood, SetWritePosition \/ SetReadPosition
  PROVE  Holds
  <1>1. /\ streamPc = "ready" /\ fPosition' \in 0..MaxLength
        /\ UNCHANGED <<store, fBuffer, fBufferSize, rangeVars>>
        /\ answer' = << >> /\ got' = got /\ got = << >>
        /\ fLength' = fLength \/ fLength' = Length
    BY DEF SetWritePosition, SetReadPosition, Throw, NoCall, StreamGood
  <1>2. fPosition' \in Nat /\ fPosition' <= MaxLength
    BY <1>1, DNGStreamAssumption
  <1>3. /\ BufferTypes' /\ BufferTrue' /\ Flushed' = Flushed /\ End' = End
        /\ fBufferDirty' = fBufferDirty
    BY <1>1, <1>2, SameBytes DEF StreamGood
  <1>4. LengthKnown'
    BY <1>1, <1>3, LengthIsEnd DEF StreamGood, LengthKnown
  <1>5. /\ fPosition' - Len(got') = fPosition'
        /\ fPosition - Len(got) = fPosition
    BY <1>1, <1>2 DEF StreamGood, BufferTypes
  <1>6. CASE streamPc' = "ready"
    <2>1. StreamGood'
      BY <1>1, <1>3, <1>4, <1>6 DEF StreamGood
    <2>2. Abstract!Seek
      BY <1>1, <1>3, <1>5, <1>6 DEF Abstract!Seek
    <2> QED BY <1>1, <2>1, <2>2 DEF Holds, Refines, Abstract!Next
  <1>7. CASE streamPc' = "thrown"
    <2>1. fPosition' > End
      BY <1>1, <1>7, LengthIsEnd DEF SetWritePosition, SetReadPosition, NoCall
    <2>2. Len(Flushed) = End /\ End \in Nat
      BY FlushedIs DEF StreamGood, FlushedFacts
    <2>3. fPosition' - Len(got') \in (Len(Flushed) + 1)..MaxLength
      <3>1. fPosition' \in (End + 1)..MaxLength
        BY <1>2, <2>1, <2>2, DNGStreamAssumption
      <3> QED BY <1>5, <2>2, <3>1
    <2>4. Abstract!SeekBeyondEnd
      BY <1>1, <1>3, <1>7, <2>3 DEF Abstract!SeekBeyondEnd, Abstract!Throw
    <2> QED BY <1>1, <1>7, <2>4 DEF Holds, Refines, Abstract!Next
  <1> QED
    BY <1>1, <1>6, <1>7 DEF SetWritePosition, SetReadPosition, Throw, NoCall

\* The buffer is written and, if there was data in it, starts anew.
LEMMA FlushStep ==
  ASSUME BufferTypes, BufferTrue, store' = Flushed, ResetRange,
         UNCHANGED <<fBuffer, fBufferSize>>,
         fPosition' \in Nat, fPosition' <= MaxLength
  PROVE  /\ BufferTypes' /\ BufferTrue' /\ Flushed' = Flushed /\ End' = End
         /\ fBufferDirty' = FALSE
  <1>1. FlushedFacts
    BY FlushedIs
  <1>2. CASE fBufferDirty
    <2>1. /\ fBufferStart' = 0 /\ fBufferEnd' = 0 /\ fBufferDirty' = FALSE
          /\ store' \in Seq(Data) /\ Len(store') = End /\ End <= MaxLength
          /\ End \in Nat
      BY <1>1, <1>2 DEF ResetRange, FlushedFacts
    <2>2. Flushed' = Flushed /\ End' = End
      BY <2>1 DEF Flushed, End
    <2>3. BufferTypes'
      <3>1. /\ fBufferStart' \in Nat /\ fBufferEnd' \in Nat
            /\ fBufferDirty' \in BOOLEAN
            /\ fBufferSize' \in Nat \ {0}
            /\ fBuffer' \in [0..(fBufferSize' - 1) -> Data]
        BY <2>1 DEF BufferTypes
      <3>2. /\ fBufferEnd' <= MaxLength /\ fBufferStart' <= fBufferEnd'
            /\ fBufferEnd' <= fBufferStart' + fBufferSize'
        BY <2>1, <3>1, DNGStreamAssumption
      <3> QED BY <2>1, <3>1, <3>2 DEF BufferTypes
    <2>4. BufferTrue'
      <3>1. 0 <= End /\ \A i \in (0 + 1)..0 : FALSE
        BY <2>1
      <3> QED BY <2>1, <3>1 DEF BufferTrue
    <2> QED BY <2>1, <2>2, <2>3, <2>4
  <1>3. CASE ~fBufferDirty
    <2>1. store' = store /\ UNCHANGED rangeVars
      BY <1>3 DEF ResetRange, Flushed
    <2>2. fBufferDirty' = FALSE
      BY <2>1, <1>3 DEF rangeVars, BufferTypes
    <2> QED BY <2>1, <2>2, SameBytes
  <1> QED BY <1>2, <1>3

LEMMA FlushSteps ==
  ASSUME StreamGood, Flush
  PROVE  Holds
  <1>1. /\ streamPc = "ready" /\ got = << >> /\ store' = Flushed /\ ResetRange
        /\ answer' = << >> /\ UNCHANGED <<streamPc, got, fLength, fPosition>>
        /\ UNCHANGED <<fBuffer, fBufferSize>>
    BY DEF Flush, WriteBuffer, NoCall, StreamGood
  <1>2. fPosition \in Nat /\ fPosition <= MaxLength
    BY DEF StreamGood, BufferTypes
  <1>3. /\ BufferTypes' /\ BufferTrue' /\ Flushed' = Flushed /\ End' = End
        /\ fBufferDirty' = FALSE
    BY <1>1, <1>2, FlushStep DEF StreamGood
  <1>4. StreamGood'
    BY <1>1, <1>3 DEF StreamGood, LengthKnown
  <1>5. fPosition' - Len(got') \in 0..MaxLength
    <2>1. Len(got) = 0
      BY <1>1, EmptySeq
    <2>2. fPosition - 0 \in 0..MaxLength
      BY <1>2, DNGStreamAssumption
    <2> QED BY <1>1, <2>1, <2>2
  <1>6. Abstract!Seek
    BY <1>1, <1>3, <1>5 DEF Abstract!Seek
  <1> QED BY <1>1, <1>4, <1>6 DEF Holds, Refines, Abstract!Next

LEMMA SetLengthSteps ==
  ASSUME StreamGood, SetLength, ~careless'
  PROVE  Holds
  <1>1. PICK n \in 0..MaxLength :
          /\ fBufferDirty \/ fBufferEnd <= n
          /\ store' = Resized(Flushed, n) /\ fLength' = n
    <2>1. PICK n \in 0..MaxLength :
            /\ careless' = (careless \/ (~fBufferDirty /\ n < fBufferEnd))
            /\ store' = Resized(Flushed, n) /\ fLength' = n
      BY DEF SetLength
    <2>2. fBufferEnd \in Nat /\ n \in Nat
      BY DNGStreamAssumption DEF StreamGood, BufferTypes
    <2>3. fBufferDirty \/ ~(n < fBufferEnd)
      BY <2>1
    <2>4. fBufferDirty \/ fBufferEnd <= n
      BY <2>2, <2>3
    <2> QED BY <2>1, <2>4
  <1>2. /\ streamPc = "ready" /\ got = << >> /\ ResetRange
        /\ answer' = << >> /\ UNCHANGED <<streamPc, got, fPosition>>
        /\ UNCHANGED <<fBuffer, fBufferSize>>
    BY DEF SetLength, NoCall, StreamGood
  <1>t. n \in Nat /\ n <= MaxLength /\ BufferTypes /\ BufferTrue /\ FlushedFacts
    BY DNGStreamAssumption, FlushedIs DEF StreamGood
  <1>3. /\ store' \in Seq(Data) /\ Len(store') = n
        /\ \A i \in 1..n : store'[i] = IF i <= End THEN Flushed[i] ELSE Gap
    BY <1>1, <1>t, ResizedIs DEF FlushedFacts
  <1>4. fBufferDirty' = FALSE
    BY <1>2, <1>t DEF ResetRange, rangeVars, BufferTypes
  <1>5. Flushed' = store' /\ End' = n
    BY <1>3, <1>4 DEF Flushed, End
  <1>6. BufferTypes' /\ BufferTrue'
    <2>1. /\ fPosition' \in Nat /\ fPosition' <= MaxLength
          /\ fBufferSize' \in Nat \ {0}
          /\ fBuffer' \in [0..(fBufferSize' - 1) -> Data]
      BY <1>2, <1>t DEF BufferTypes
    <2>2. CASE fBufferDirty
      <3>1. fBufferStart' = 0 /\ fBufferEnd' = 0
        BY <1>2, <2>2 DEF ResetRange
      <3>2. /\ fBufferStart' \in Nat /\ fBufferEnd' \in Nat
            /\ fBufferEnd' <= MaxLength /\ fBufferStart' <= fBufferEnd'
            /\ fBufferEnd' <= fBufferStart' + fBufferSize' /\ fBufferEnd' <= n
            /\ \A i \in (fBufferStart' + 1)..fBufferEnd' : FALSE
        <4>1. fBufferSize' \in Nat /\ n \in Nat /\ MaxLength \in Nat
          BY <2>1, <1>t, DNGStreamAssumption
        <4>2. \A i \in (fBufferStart' + 1)..fBufferEnd' : FALSE
          BY <3>1
        <4>3. \A x \in Nat : 0 <= 0 + x /\ 0 <= x
          OBVIOUS
        <4>4. 0 <= 0 + fBufferSize' /\ 0 <= 0 /\ 0 <= MaxLength /\ 0 <= n
          BY <4>1, <4>3
        <4> QED BY <3>1, <4>2, <4>4
      <3> QED BY <1>3, <1>4, <1>t, <2>1, <3>2 DEF BufferTypes, BufferTrue
    <2>3. CASE ~fBufferDirty
      <3>1. fBufferStart' = fBufferStart /\ fBufferEnd' = fBufferEnd
        BY <1>2, <2>3 DEF ResetRange, rangeVars
      <3>2. ASSUME NEW i \in (fBufferStart + 1)..fBufferEnd
            PROVE  fBuffer[i - 1 - fBufferStart] = store'[i]
        <4>1. i \in 1..End /\ Flushed[i] = fBuffer[i - 1 - fBufferStart]
          BY InTheBuffer
        <4>2. i \in 1..n
          BY <1>1, <1>t, <2>3 DEF BufferTypes
        <4> QED BY <1>3, <1>t, <4>1, <4>2 DEF FlushedFacts
      <3>3. BufferTrue'
        BY <1>1, <1>2, <1>3, <1>4, <2>3, <3>1, <3>2 DEF BufferTrue
      <3> QED BY <1>3, <1>4, <1>t, <2>1, <3>1, <3>3, <1>2 DEF BufferTypes
    <2> QED BY <2>2, <2>3
  <1>7. StreamGood'
    BY <1>1, <1>2, <1>5, <1>6 DEF StreamGood, LengthKnown
  <1>8. Abstract!SetLength
    <2>1. Abstract!Resized(Flushed, n) = Resized(Flushed, n)
      BY DEF Abstract!Resized, Resized, Abstract!Gap, Gap
    <2> QED BY <1>1, <1>2, <1>5, <2>1 DEF Abstract!SetLength
  <1> QED BY <1>2, <1>7, <1>8 DEF Holds, Refines, Abstract!Next

LEMMA SameData ==
  /\ \A s, n : Abstract!Resized(s, n) = Resized(s, n)
  /\ \A s, offset, d : Abstract!Overlay(s, offset, d) = Overlay(s, offset, d)
  /\ \A s, offset, n : Abstract!Slice(s, offset, n) = Slice(s, offset, n)
  /\ \A byte, n : Abstract!Copies(byte, n) = Copies(byte, n)
  BY DEF Abstract!Resized, Resized, Abstract!Overlay, Overlay, Abstract!Slice,
         Slice, Abstract!Copies, Copies, Abstract!Gap, Gap

\* The data is put over what the buffer already has to write.
LEMMA PutInBuffer ==
  ASSUME StreamGood, NEW d \in Seq(Data), PutBuffered(d),
         fPosition + Len(d) <= MaxLength, fBufferSize' = fBufferSize,
         fPosition' = fPosition + Len(d)
  PROVE  /\ BufferTypes' /\ BufferTrue'
         /\ Flushed' = Overlay(Flushed, fPosition, d)
  <1> DEFINE end == fPosition + Len(d)
             o == Overlay(Flushed, fPosition, d)
  <1>t. /\ BufferTypes /\ FlushedFacts /\ fBufferStart \in Nat
        /\ fBufferEnd \in Nat /\ Len(store) \in Nat /\ fPosition \in Nat
        /\ Len(d) \in Nat /\ end \in Nat
    BY FlushedIs DEF StreamGood, BufferTypes
  <1>1. /\ fBufferDirty /\ fBufferStart <= fPosition /\ fPosition <= fBufferEnd
        /\ end <= fBufferStart + fBufferSize
    BY DEF PutBuffered, Fits, StreamGood, BufferTrue
  <1>2. /\ fBuffer' = Filled(fPosition - fBufferStart, d)
        /\ fBufferEnd' = Higher(fBufferEnd, end)
        /\ UNCHANGED <<store, fBufferStart, fBufferLimit, fBufferDirty>>
    BY DEF PutBuffered
  <1>e. /\ fBufferEnd' \in Nat /\ fBufferEnd <= fBufferEnd' /\ end <= fBufferEnd'
        /\ fBufferEnd' = fBufferEnd \/ fBufferEnd' = end
    BY <1>2, <1>t DEF Higher
  <1>3. ASSUME NEW k \in 0..(fBufferSize - 1)
        PROVE  fBuffer'[k] =
                 IF k \in (fPosition - fBufferStart)..(end - fBufferStart - 1)
                 THEN d[k - (fPosition - fBufferStart) + 1] ELSE fBuffer[k]
    <2>1. DOMAIN fBuffer = 0..(fBufferSize - 1)
      BY <1>t DEF BufferTypes
    <2>2. fPosition - fBufferStart + Len(d) - 1 = end - fBufferStart - 1
      BY <1>t
    <2> QED BY <1>2, <2>1, <2>2 DEF Filled
  <1>4. fBuffer' \in [0..(fBufferSize - 1) -> Data]
    <2>1. ASSUME NEW k \in 0..(fBufferSize - 1)
          PROVE  fBuffer'[k] \in Data
      <3>1. CASE k \in (fPosition - fBufferStart)..(end - fBufferStart - 1)
        <4>1. k - (fPosition - fBufferStart) + 1 \in 1..Len(d)
          BY <3>1, <1>t
        <4>2. d[k - (fPosition - fBufferStart) + 1] \in Data
          BY <4>1, ElementOfSeq
        <4> QED BY <1>3, <3>1, <4>2
      <3>2. CASE ~(k \in (fPosition - fBufferStart)..(end - fBufferStart - 1))
        BY <1>3, <3>2, <1>t DEF BufferTypes
      <3> QED BY <3>1, <3>2
    <2>2. fBuffer' = [k \in 0..(fBufferSize - 1) |-> fBuffer'[k]]
      <3>1. DOMAIN fBuffer = 0..(fBufferSize - 1)
        BY <1>t DEF BufferTypes
      <3> QED BY <1>2, <3>1 DEF Filled
    <2> QED BY <2>1, <2>2
  <1>5. BufferTypes'
    <2>1. /\ fPosition' \in Nat /\ fPosition' <= MaxLength
          /\ fBufferEnd' <= MaxLength /\ fBufferStart <= fBufferEnd'
          /\ fBufferEnd' <= fBufferStart + fBufferSize
      BY <1>e, <1>1, <1>t DEF BufferTypes
    <2> QED BY <1>2, <1>4, <1>e, <1>t, <2>1 DEF BufferTypes
  <1>6. BufferTrue'
    BY <1>1, <1>2 DEF BufferTrue, StreamGood
  <1>7. FlushedFacts'
    BY <1>5, FlushedIsNext
  <1>8. /\ o \in Seq(Data) /\ Len(o) = Higher(End, end)
        /\ \A i \in 1..Higher(End, end) :
             o[i] = IF i \in (fPosition + 1)..end THEN d[i - fPosition]
                    ELSE IF i <= End THEN Flushed[i] ELSE Gap
    <2>1. Flushed \in Seq(Data) /\ Len(Flushed) = End
      BY <1>t DEF FlushedFacts
    <2>2. /\ o \in Seq(Data)
          /\ Len(o) = Higher(Len(Flushed), fPosition + Len(d))
          /\ \A i \in 1..Higher(Len(Flushed), fPosition + Len(d)) :
               o[i] = IF i \in (fPosition + 1)..(fPosition + Len(d))
                      THEN d[i - fPosition]
                      ELSE IF i <= Len(Flushed) THEN Flushed[i] ELSE Gap
      BY <2>1, <1>t, OverlayIs
    <2> QED BY <2>1, <2>2
  <1>9. End' = Higher(End, end)
    <2>1. End = Higher(Len(store), fBufferEnd) /\ End' = Higher(Len(store), fBufferEnd')
      BY <1>1, <1>2 DEF End
    <2> QED BY <2>1, <1>2, <1>t DEF Higher
  <1>10. ASSUME NEW i \in 1..End'
         PROVE  Content(i)' = o[i]
    <2>0. /\ i \in Nat /\ i > 0 /\ End \in Nat
          /\ o[i] = IF i \in (fPosition + 1)..end THEN d[i - fPosition]
                    ELSE IF i <= End THEN Flushed[i] ELSE Gap
          /\ Content(i)' = IF i \in (fBufferStart + 1)..fBufferEnd'
                           THEN fBuffer'[i - 1 - fBufferStart]
                           ELSE IF i <= Len(store) THEN store[i] ELSE Gap
      BY <1>1, <1>2, <1>8, <1>9, <1>t DEF Content, FlushedFacts
    <2>1. CASE i \in (fPosition + 1)..end
      <3>1. /\ i \in (fBufferStart + 1)..fBufferEnd'
            /\ i - 1 - fBufferStart \in 0..(fBufferSize - 1)
            /\ i - 1 - fBufferStart
                 \in (fPosition - fBufferStart)..(end - fBufferStart - 1)
            /\ i - 1 - fBufferStart - (fPosition - fBufferStart) + 1
                 = i - fPosition
        BY <2>0, <2>1, <1>1, <1>t, <1>e DEF BufferTypes
      <3> QED BY <2>0, <2>1, <3>1, <1>3
    <2>2. CASE i \notin (fPosition + 1)..end /\ i \in (fBufferStart + 1)..fBufferEnd
      <3>1. /\ i \in (fBufferStart + 1)..fBufferEnd'
            /\ i - 1 - fBufferStart \in 0..(fBufferSize - 1)
            /\ i - 1 - fBufferStart
                 \notin (fPosition - fBufferStart)..(end - fBufferStart - 1)
        BY <2>0, <2>2, <1>1, <1>t, <1>e DEF BufferTypes
      <3>2. i <= End /\ Flushed[i] = fBuffer[i - 1 - fBufferStart]
        <4>1. i \in 1..End /\ Flushed[i] = fBuffer[i - 1 - fBufferStart]
          BY <2>2, InTheBuffer
        <4> QED BY <4>1, <2>0
      <3> QED BY <2>0, <2>2, <3>1, <3>2, <1>3
    <2>3. CASE i \notin (fPosition + 1)..end /\ i \notin (fBufferStart + 1)..fBufferEnd
      <3>1. i \notin (fBufferStart + 1)..fBufferEnd'
        BY <2>0, <2>3, <1>1, <1>t, <1>e
      <3>2. i <= End => Flushed[i] = IF i <= Len(store) THEN store[i] ELSE Gap
        BY <2>0, <2>3, <1>t DEF FlushedFacts, Content
      <3>3. i <= Len(store) => i <= End
        BY <2>0, <1>t, <1>1 DEF End, Higher
      <3> QED BY <2>0, <2>3, <3>1, <3>2, <3>3
    <2> QED BY <2>1, <2>2, <2>3
  <1>11. Flushed' = o
    <2>1. /\ Flushed' \in Seq(Data) /\ o \in Seq(Data) /\ Len(Flushed') = Len(o)
          /\ Len(Flushed') = End'
          /\ \A i \in 1..End' : Flushed'[i] = Content(i)'
      BY <1>7, <1>8, <1>9 DEF FlushedFacts
    <2>2. \A i \in 1..Len(Flushed') : Flushed'[i] = o[i]
      BY <2>1, <1>10
    <2> HIDE DEF o
    <2> QED BY <2>1, <2>2, SeqEqual
  <1> QED BY <1>5, <1>6, <1>11

\* Much data goes past the buffer, which nobody has read into.
LEMMA PutPastBuffer ==
  ASSUME StreamGood, NEW d \in Seq(Data), PutUnbuffered(d),
         fBufferDirty \/ fBufferEnd = 0,
         fPosition + Len(d) <= MaxLength, fBufferSize' = fBufferSize,
         fPosition' = fPosition + Len(d)
  PROVE  /\ BufferTypes' /\ BufferTrue' /\ fBufferDirty' = FALSE
         /\ Flushed' = Overlay(Flushed, fPosition, d) /\ Flushed' = store'
  <1>t. /\ BufferTypes /\ FlushedFacts /\ fPosition \in Nat /\ Len(d) \in Nat
        /\ MaxLength \in Nat
    BY FlushedIs, DNGStreamAssumption DEF StreamGood, BufferTypes
  <1>1. /\ store' = Overlay(Flushed, fPosition, d) /\ ResetRange
        /\ fBuffer' = fBuffer
    BY DEF PutUnbuffered
  <1>2. fBufferDirty' = FALSE
    BY <1>1, <1>t DEF ResetRange, rangeVars, BufferTypes
  <1>3. Flushed' = store'
    BY <1>2 DEF Flushed
  <1>4. store' \in Seq(Data) /\ Len(store') <= MaxLength /\ Len(store') \in Nat
    <2>1. /\ store' \in Seq(Data)
          /\ Len(store') = Higher(Len(Flushed), fPosition + Len(d))
      BY <1>1, <1>t, OverlayIs DEF FlushedFacts
    <2> QED BY <2>1, <1>t DEF Higher, FlushedFacts
  <1>5. fBufferStart' = 0 /\ fBufferEnd' = 0
    <2>1. CASE fBufferDirty
      BY <1>1, <2>1 DEF ResetRange
    <2>2. CASE ~fBufferDirty
      BY <1>1, <2>2, <1>t DEF ResetRange, rangeVars, BufferTypes
    <2> QED BY <2>1, <2>2
  <1>6. fPosition' \in Nat /\ fPosition' <= MaxLength
    BY <1>t
  <1>7. /\ \A x \in Nat : 0 <= 0 + x /\ 0 <= x
        /\ \A i \in (0 + 1)..0 : FALSE
    OBVIOUS
  <1>8. BufferTypes'
    <2>1. /\ fBufferSize' \in Nat \ {0} /\ fBufferSize' \in Nat
          /\ fBuffer' \in [0..(fBufferSize' - 1) -> Data]
      BY <1>1, <1>t DEF BufferTypes
    <2>2. 0 <= 0 + fBufferSize' /\ 0 <= MaxLength /\ 0 <= 0
      BY <1>7, <1>t, <2>1
    <2> QED BY <1>2, <1>4, <1>5, <1>6, <2>1, <2>2 DEF BufferTypes
  <1>9. BufferTrue'
    BY <1>2, <1>4, <1>5, <1>7 DEF BufferTrue
  <1> QED BY <1>1, <1>2, <1>3, <1>8, <1>9

\* Little data begins a buffer of its own.
LEMMA PutInNewBuffer ==
  ASSUME StreamGood, NEW d \in Seq(Data), PutNewBuffer(d),
         fPosition + Len(d) <= MaxLength, fBufferSize' = fBufferSize,
         fPosition' = fPosition + Len(d)
  PROVE  /\ BufferTypes' /\ BufferTrue' /\ store' = Flushed
         /\ Flushed' = Overlay(Flushed, fPosition, d)
  <1>t. /\ BufferTypes /\ FlushedFacts /\ fPosition \in Nat /\ Len(d) \in Nat
        /\ MaxLength \in Nat /\ fBufferSize \in Nat \ {0}
    BY FlushedIs, DNGStreamAssumption DEF StreamGood, BufferTypes
  <1>1. /\ store' = Flushed /\ fBufferDirty' = TRUE
        /\ fBufferStart' = fPosition /\ fBufferEnd' = fPosition + Len(d)
        /\ fBufferLimit' = fPosition + fBufferSize
        /\ fBuffer' = Filled(0, d) /\ Len(d) < fBufferSize
    BY DEF PutNewBuffer, WriteBuffer
  <1>2. ASSUME NEW k \in 0..(fBufferSize - 1)
        PROVE  /\ k \in 0..(Len(d) - 1) => fBuffer'[k] = d[k + 1]
               /\ fBuffer'[k] \in Data
    <2>1. DOMAIN fBuffer = 0..(fBufferSize - 1)
      BY <1>t DEF BufferTypes
    <2>2. 0 + Len(d) - 1 = Len(d) - 1 /\ k - 0 + 1 = k + 1
      BY <1>t
    <2>3. fBuffer'[k] = IF k \in 0..(Len(d) - 1) THEN d[k + 1] ELSE fBuffer[k]
      BY <1>1, <2>1, <2>2 DEF Filled
    <2>4. k \in 0..(Len(d) - 1) => d[k + 1] \in Data
      <3>1. ASSUME k \in 0..(Len(d) - 1)
            PROVE  k + 1 \in 1..Len(d)
        BY <3>1, <1>t
      <3> QED BY <3>1, ElementOfSeq
    <2>5. fBuffer[k] \in Data
      BY <1>t DEF BufferTypes
    <2> QED BY <2>3, <2>4, <2>5
  <1>3. fBuffer' \in [0..(fBufferSize - 1) -> Data]
    <2>1. DOMAIN fBuffer = 0..(fBufferSize - 1)
      BY <1>t DEF BufferTypes
    <2>2. fBuffer' = [k \in 0..(fBufferSize - 1) |-> fBuffer'[k]]
      BY <1>1, <2>1 DEF Filled
    <2> QED BY <2>2, <1>2
  <1>4. BufferTypes'
    <2>1. /\ fBufferStart' \in Nat /\ fBufferEnd' \in Nat
          /\ fPosition' \in Nat /\ fPosition' <= MaxLength
          /\ fBufferEnd' <= MaxLength /\ fBufferStart' <= fBufferEnd'
          /\ fBufferEnd' <= fBufferStart' + fBufferSize
      BY <1>1, <1>t
    <2>2. store' \in Seq(Data) /\ Len(store') <= MaxLength
      BY <1>1, <1>t DEF FlushedFacts
    <2> QED BY <1>1, <1>3, <1>t, <2>1, <2>2 DEF BufferTypes
  <1>5. BufferTrue'
    BY <1>1 DEF BufferTrue
  <1>6. Buffered(fBufferStart, fBufferEnd - fBufferStart)' = d
    <2> DEFINE b == Buffered(fBufferStart, fBufferEnd - fBufferStart)'
    <2>1. b = [i \in 1..Len(d) |-> fBuffer'[fBufferStart' - fBufferStart' + i - 1]]
      <3>1. b = [i \in 1..(fBufferEnd' - fBufferStart') |->
                   fBuffer'[fBufferStart' - fBufferStart' + i - 1]]
        BY DEF Buffered
      <3>2. fBufferEnd' - fBufferStart' = Len(d)
        BY <1>1, <1>t
      <3> HIDE DEF b
      <3> QED BY <3>1, <3>2
    <2>2. \A i \in 1..Len(d) : b[i] = d[i]
      <3>1. ASSUME NEW i \in 1..Len(d)
            PROVE  b[i] = d[i]
        <4>1. /\ i - 1 \in 0..(fBufferSize - 1) /\ i - 1 \in 0..(Len(d) - 1)
              /\ i - 1 + 1 = i /\ fBufferStart' - fBufferStart' + i - 1 = i - 1
          BY <1>1, <1>t
        <4> HIDE DEF b
        <4> QED BY <2>1, <4>1, <1>2
      <3> QED BY <3>1
    <2>3. d = [i \in 1..Len(d) |-> d[i]]
      OBVIOUS
    <2> HIDE DEF b
    <2>4. b = [i \in 1..Len(d) |-> b[i]]
      BY <2>1
    <2>5. b = d
      BY <2>2, <2>3, <2>4
    <2> QED BY <2>5 DEF b
  <1>7. Flushed' = Overlay(Flushed, fPosition, d)
    BY <1>1, <1>6 DEF Flushed
  <1> QED BY <1>1, <1>4, <1>5, <1>7

LEMMA PutSteps ==
  ASSUME StreamGood, Put, ~careless'
  PROVE  Holds
  <1>1. PICK byte \in Bytes, n \in Counts :
          /\ fPosition + n <= MaxLength
          /\ careless' = \/ careless
                         \/ (~fBufferDirty /\ fBufferEnd > 0 /\ n >= fBufferSize)
          /\ \/ PutBuffered(Copies(byte, n))
             \/ PutUnbuffered(Copies(byte, n))
             \/ PutNewBuffer(Copies(byte, n))
          /\ fPosition' = fPosition + n
          /\ fLength' = Reaches(IF fLength = Unknown THEN Len(store')
                                                     ELSE fLength, fPosition + n)
    BY DEF Put
  <1> DEFINE d == Copies(byte, n)
             Effect ==
               /\ BufferTypes' /\ BufferTrue'
               /\ fLength' = Higher(End, fPosition + n)
               /\ Flushed' = Overlay(Flushed, fPosition, d)
  <1>2. /\ streamPc = "ready" /\ got = << >> /\ answer' = << >>
        /\ UNCHANGED <<streamPc, got>> /\ fBufferSize' = fBufferSize
    BY DEF Put, NoCall, StreamGood
  <1>t. /\ n \in Nat \ {0} /\ fPosition \in Nat /\ End \in Nat
        /\ fPosition + n \in Nat /\ BufferTypes /\ FlushedFacts /\ LengthKnown
    BY DNGStreamAssumption, FlushedIs DEF StreamGood, BufferTypes, FlushedFacts
  <1>d. d \in Seq(Data) /\ Len(d) = n
    BY <1>t, CopiesIs
  <1>o. Len(Overlay(Flushed, fPosition, d)) = Higher(End, fPosition + n)
    <2>1. Flushed \in Seq(Data) /\ Len(Flushed) = End
      BY <1>t DEF FlushedFacts
    <2> HIDE DEF d
    <2>2. Len(Overlay(Flushed, fPosition, d))
            = Higher(Len(Flushed), fPosition + Len(d))
      BY <1>d, <1>t, <2>1, OverlayIs
    <2> QED BY <1>d, <2>1, <2>2
  <1> HIDE DEF d
  <1>3. ASSUME PutBuffered(d)
        PROVE  Effect
    <2>1. /\ BufferTypes' /\ BufferTrue'
          /\ Flushed' = Overlay(Flushed, fPosition, d)
      BY <1>1, <1>2, <1>3, <1>d, PutInBuffer
    <2>2. fLength = End /\ fLength # Unknown
      BY <1>3, <1>t DEF PutBuffered, Fits, LengthKnown, Unknown
    <2>3. fLength' = Higher(End, fPosition + n)
      BY <1>1, <2>2 DEF Reaches
    <2> QED BY <2>1, <2>3
  <1>4. ASSUME PutUnbuffered(d)
        PROVE  Effect
    <2>1. fBufferDirty \/ fBufferEnd = 0
      <3>1. n >= fBufferSize
        BY <1>4, <1>d DEF PutUnbuffered
      <3>2. fBufferDirty \/ ~(fBufferEnd > 0)
        BY <1>1, <3>1
      <3> QED BY <3>2, <1>t DEF BufferTypes
    <2>2. /\ BufferTypes' /\ BufferTrue' /\ fBufferDirty' = FALSE
          /\ Flushed' = Overlay(Flushed, fPosition, d) /\ Flushed' = store'
      BY <1>1, <1>2, <1>4, <1>d, <2>1, PutPastBuffer
    <2>3. fLength' = Higher(End, fPosition + n)
      <3>1. CASE fLength = Unknown
        BY <1>1, <1>o, <1>t, <2>2, <3>1 DEF Reaches, Higher
      <3>2. CASE fLength # Unknown
        BY <1>1, <1>t, <3>2 DEF Reaches, LengthKnown
      <3> QED BY <3>1, <3>2
    <2> QED BY <2>2, <2>3
  <1>5. ASSUME PutNewBuffer(d)
        PROVE  Effect
    <2>1. /\ BufferTypes' /\ BufferTrue' /\ store' = Flushed
          /\ Flushed' = Overlay(Flushed, fPosition, d)
      BY <1>1, <1>2, <1>5, <1>d, PutInNewBuffer
    <2>2. fLength' = Higher(End, fPosition + n)
      BY <1>1, <1>t, <2>1 DEF Reaches, LengthKnown, FlushedFacts
    <2> QED BY <2>1, <2>2
  <1>6. Effect
    <2> HIDE DEF Effect
    <2> QED BY <1>1, <1>3, <1>4, <1>5 DEF d
  <1>7. LengthKnown'
    <2>1. Len(Flushed') = End'
      BY <1>6, FlushedIsNext DEF FlushedFacts
    <2> QED BY <1>6, <1>o, <2>1 DEF LengthKnown
  <1>8. StreamGood'
    BY <1>2, <1>6, <1>7 DEF StreamGood
  <1>9. Abstract!Put
    <2>1. /\ fPosition' - Len(got') = fPosition - Len(got) + n
          /\ fPosition - Len(got) = fPosition
      <3>1. Len(got) = 0 /\ Len(got') = 0
        BY <1>2, EmptySeq
      <3> QED BY <1>1, <1>t, <3>1
    <2>2. Flushed' = Abstract!Overlay(Flushed, fPosition, Abstract!Copies(byte, n))
      BY <1>6, SameData DEF d
    <2> QED BY <1>1, <1>2, <2>1, <2>2 DEF Abstract!Put
  <1> QED BY <1>2, <1>8, <1>9 DEF Holds, Refines, Abstract!Next

-----------------------------------------------------------------------------
(* Get. *)

LEMMA CallGetSteps ==
  ASSUME StreamGood, CallGet
  PROVE  Holds
  <1>1. /\ streamPc = "ready" /\ got = << >> /\ streamPc' = "get"
        /\ count' \in Counts /\ got' = << >> /\ answer' = << >>
        /\ UNCHANGED <<fPosition, fLength>>
        /\ UNCHANGED <<store, fBuffer, fBufferSize, rangeVars>>
    BY DEF CallGet, StreamGood
  <1>2. fPosition \in Nat /\ fPosition <= MaxLength /\ count' \in Nat \ {0}
    BY <1>1, DNGStreamAssumption DEF StreamGood, BufferTypes
  <1>3. /\ BufferTypes' /\ BufferTrue' /\ Flushed' = Flushed /\ End' = End
        /\ fBufferDirty' = fBufferDirty
    BY <1>1, <1>2, SameBytes DEF StreamGood
  <1>4. Len(got') = 0 /\ Len(got) = 0 /\ got' \in Seq(Data)
    BY <1>1, EmptySeq
  <1>5. GetOnTheWay'
    <2>1. Len(got') + count' = count' /\ Len(got') <= fPosition'
      <3>1. \A x \in Nat : 0 + x = x /\ 0 <= x
        OBVIOUS
      <3> QED BY <1>1, <1>2, <1>4, <3>1
    <2>2. ~(Len(got') > 0) /\ \A i \in 1..Len(got') : FALSE
      BY <1>4
    <2> QED BY <1>1, <1>2, <1>4, <2>1, <2>2 DEF GetOnTheWay
  <1>6. StreamGood'
    BY <1>1, <1>3, <1>5 DEF StreamGood, LengthKnown
  <1>7. fPosition' - Len(got') \in 0..MaxLength
    <2>1. fPosition - 0 \in 0..MaxLength
      BY <1>2, DNGStreamAssumption
    <2> QED BY <1>1, <1>4, <2>1
  <1>8. Abstract!Seek
    BY <1>1, <1>3, <1>7 DEF Abstract!Seek
  <1> QED BY <1>1, <1>6, <1>8 DEF Holds, Refines, Abstract!Next

LEMMA GetFacts ==
  ASSUME StreamGood, streamPc = "get"
  PROVE  /\ GetOnTheWay /\ BufferTypes /\ BufferTrue /\ FlushedFacts
         /\ got \in Seq(Data) /\ Len(got) \in Nat /\ Len(got) <= fPosition
         /\ count \in Nat \ {0} /\ Len(got) + count \in Counts
         /\ fPosition \in Nat /\ fPosition <= MaxLength
         /\ End \in Nat /\ End <= MaxLength /\ MaxLength \in Nat
         /\ fBufferSize \in Nat \ {0}
  <1>1. GetOnTheWay /\ BufferTypes /\ BufferTrue /\ FlushedFacts
    BY FlushedIs DEF StreamGood
  <1>2. /\ got \in Seq(Data) /\ Len(got) \in Nat /\ Len(got) <= fPosition
        /\ count \in Nat \ {0} /\ Len(got) + count \in Counts
    BY <1>1 DEF GetOnTheWay
  <1>3. /\ fPosition \in Nat /\ fPosition <= MaxLength
        /\ fBufferSize \in Nat \ {0}
    BY <1>1 DEF BufferTypes
  <1>4. End \in Nat /\ End <= MaxLength /\ MaxLength \in Nat
    BY <1>1, DNGStreamAssumption DEF FlushedFacts
  <1> QED BY <1>1, <1>2, <1>3, <1>4

\* Bytes of the buffer behind those already delivered.
LEMMA GotMore ==
  ASSUME StreamGood, streamPc = "get", NEW n \in Nat,
         n > 0 => fBufferStart <= fPosition /\ fPosition + n <= fBufferEnd
  PROVE  /\ got \o Buffered(fPosition, n) \in Seq(Data)
         /\ Len(got \o Buffered(fPosition, n)) = Len(got) + n
         /\ \A i \in 1..(Len(got) + n) :
              (got \o Buffered(fPosition, n))[i] = Flushed[fPosition - Len(got) + i]
         /\ Len(got) + n > 0 => fPosition + n <= End
  <1> DEFINE b == Buffered(fPosition, n)
  <1>t. /\ GetOnTheWay /\ BufferTypes /\ FlushedFacts
        /\ got \in Seq(Data) /\ Len(got) \in Nat /\ Len(got) <= fPosition
        /\ fPosition \in Nat /\ fBufferStart \in Nat /\ fBufferEnd \in Nat
        /\ End \in Nat
    BY FlushedIs DEF StreamGood, GetOnTheWay, BufferTypes, FlushedFacts
  <1>1. /\ b \in Seq(Data) /\ Len(b) = n
        /\ \A i \in 1..n : b[i] = Flushed[fPosition + i]
    <2>1. CASE n = 0
      <3>1. b = [i \in 1..n |-> b[i]]
        BY DEF Buffered
      <3>2. \A i \in 1..n : FALSE
        BY <2>1
      <3> HIDE DEF b
      <3> QED BY <3>1, <3>2, IsSeq
    <2>2. CASE n > 0
      <3>1. fPosition + n <= fBufferStart + fBufferSize
        BY <2>2, <1>t DEF BufferTypes
      <3>2. /\ b \in Seq(Data) /\ Len(b) = n
            /\ \A i \in 1..n : b[i] = fBuffer[fPosition - fBufferStart + i - 1]
        BY <2>2, <1>t, <3>1, BufferedIs
      <3> HIDE DEF b
      <3>3. ASSUME NEW i \in 1..n
            PROVE  b[i] = Flushed[fPosition + i]
        <4>1. PICK j \in Int : j = fPosition + i
          BY <1>t
        <4>2. /\ j \in (fBufferStart + 1)..fBufferEnd
              /\ j - 1 - fBufferStart = fPosition - fBufferStart + i - 1
          BY <2>2, <4>1, <1>t
        <4>3. Flushed[j] = fBuffer[j - 1 - fBufferStart]
          BY <4>2, InTheBuffer
        <4> QED BY <3>2, <4>1, <4>2, <4>3
      <3> QED BY <3>2, <3>3
    <2> QED BY <2>1, <2>2
  <1> HIDE DEF b
  <1>2. /\ got \o b \in Seq(Data) /\ Len(got \o b) = Len(got) + n
        /\ \A i \in 1..(Len(got) + n) :
             (got \o b)[i] = IF i <= Len(got) THEN got[i] ELSE b[i - Len(got)]
    <2>1. /\ got \o b \in Seq(Data) /\ Len(got \o b) = Len(got) + Len(b)
          /\ \A i \in 1..(Len(got) + Len(b)) :
               (got \o b)[i] = IF i <= Len(got) THEN got[i] ELSE b[i - Len(got)]
      BY <1>1, <1>t, ConcatProperties
    <2> QED BY <2>1, <1>1
  <1>3. ASSUME NEW i \in 1..(Len(got) + n)
        PROVE  (got \o b)[i] = Flushed[fPosition - Len(got) + i]
    <2>1. CASE i <= Len(got)
      <3>1. i \in 1..Len(got)
        BY <2>1, <1>t
      <3>2. got[i] = Flushed[fPosition - Len(got) + i]
        BY <3>1, <1>t DEF GetOnTheWay
      <3> QED BY <1>2, <2>1, <3>2
    <2>2. CASE ~(i <= Len(got))
      <3>1. /\ i - Len(got) \in 1..n
            /\ fPosition + (i - Len(got)) = fPosition - Len(got) + i
        BY <2>2, <1>t
      <3>2. b[i - Len(got)] = Flushed[fPosition - Len(got) + i]
        BY <1>1, <3>1
      <3> QED BY <1>2, <2>2, <3>2
    <2> QED BY <2>1, <2>2
  <1>4. Len(got) + n > 0 => fPosition + n <= End
    <2>1. CASE n = 0
      BY <2>1, <1>t DEF GetOnTheWay
    <2>2. CASE n > 0
      <3>1. fPosition + n \in (fBufferStart + 1)..fBufferEnd
        BY <2>2, <1>t
      <3>2. fPosition + n \in 1..End
        BY <3>1, InTheBuffer
      <3> QED BY <3>2, <1>t
    <2> QED BY <2>1, <2>2
  <1> QED BY <1>2, <1>3, <1>4 DEF b

LEMMA PartIs ==
  ASSUME StreamGood, streamPc = "get", ~InBuffer
  PROVE  /\ Part \in Nat /\ Rest \in Nat \ {0} /\ Part + Rest = count
         /\ Part > 0 => fBufferStart <= fPosition /\ fPosition + Part <= fBufferEnd
  <1>1. /\ fPosition \in Nat /\ fBufferStart \in Nat /\ fBufferEnd \in Nat
        /\ count \in Nat \ {0}
    BY DEF StreamGood, BufferTypes, GetOnTheWay
  <1> QED BY <1>1 DEF Part, Rest, InBuffer

LEMMA GetBufferedSteps ==
  ASSUME StreamGood, GetBuffered
  PROVE  Holds
  <1> DEFINE g == got \o Buffered(fPosition, count)
             n == Len(got) + count
             from == fPosition - Len(got)
  <1>1. /\ streamPc = "get" /\ fBufferStart <= fPosition
        /\ fPosition + count <= fBufferEnd
        /\ answer' = g /\ streamPc' = "ready" /\ got' = << >>
        /\ fPosition' = fPosition + count /\ fLength' = fLength
        /\ UNCHANGED <<store, fBuffer, fBufferSize, rangeVars>>
    BY DEF GetBuffered, Return, InBuffer
  <1>t. /\ GetOnTheWay /\ BufferTypes /\ FlushedFacts
        /\ got \in Seq(Data) /\ Len(got) \in Nat /\ Len(got) <= fPosition
        /\ fPosition \in Nat /\ count \in Nat \ {0} /\ n \in Counts
        /\ n \in Nat /\ n > 0 /\ from \in Nat /\ from + n = fPosition + count
        /\ End \in Nat /\ MaxLength \in Nat
    BY <1>1, GetFacts
  <1>2. /\ g \in Seq(Data) /\ Len(g) = n
        /\ \A i \in 1..n : g[i] = Flushed[from + i]
        /\ fPosition + count <= End
    BY <1>1, <1>t, GotMore
  <1> HIDE DEF g, n, from
  <1>3. g = Slice(Flushed, from, n)
    <2>1. Flushed \in Seq(Data) /\ from + n <= Len(Flushed)
      BY <1>2, <1>t DEF FlushedFacts
    <2>2. /\ Slice(Flushed, from, n) \in Seq(Data)
          /\ Len(Slice(Flushed, from, n)) = n
          /\ \A i \in 1..n : Slice(Flushed, from, n)[i] = Flushed[from + i]
      <3>1. from \in Nat /\ n \in Nat
        BY <1>t
      <3> QED BY <2>1, <3>1, SliceIs
    <2> QED BY <1>2, <2>2, SeqEqual
  <1>4. fPosition' \in Nat /\ fPosition' <= MaxLength
    <2>1. End <= MaxLength
      BY <1>t DEF FlushedFacts
    <2> QED BY <1>1, <1>2, <1>t, <2>1
  <1>5. /\ BufferTypes' /\ BufferTrue' /\ Flushed' = Flushed /\ End' = End
        /\ fBufferDirty' = fBufferDirty
    BY <1>1, <1>4, <1>t, SameBytes DEF StreamGood
  <1>6. StreamGood'
    BY <1>1, <1>5 DEF StreamGood, LengthKnown
  <1>7. fPosition' - Len(got') = from + n
    <2>1. Len(got') = 0
      BY <1>1, EmptySeq
    <2> QED BY <1>1, <1>t, <2>1
  <1>8. Abstract!Get
    <2>1. from + n <= Len(Flushed)
      BY <1>2, <1>t DEF FlushedFacts
    <2>2. answer' = Abstract!Slice(Flushed, from, n)
      BY <1>1, <1>3, SameData
    <2> QED BY <1>1, <1>t, <1>5, <1>7, <2>1, <2>2 DEF Abstract!Get, from
  <1> QED BY <1>1, <1>6, <1>8 DEF Holds, Refines, Abstract!Next

\* The rest of a long request comes from the store.
LEMMA GetUnbufferedSteps ==
  ASSUME StreamGood, GetUnbuffered
  PROVE  Holds
  <1> DEFINE g == got \o Buffered(fPosition, Part)
             n == Len(got) + count
             from == fPosition - Len(got)
             next == fPosition + Part
  <1>1. /\ streamPc = "get" /\ ~InBuffer /\ store' = Flushed /\ ResetRange
        /\ UNCHANGED <<fBuffer, fBufferSize>>
        /\ fLength' = IF fLength = Unknown THEN Len(store') ELSE fLength
    BY DEF GetUnbuffered, WriteBuffer
  <1>p. /\ Part \in Nat /\ Rest \in Nat \ {0} /\ Part + Rest = count
        /\ Part > 0 => fBufferStart <= fPosition /\ next <= fBufferEnd
    BY <1>1, PartIs
  <1>t. /\ GetOnTheWay /\ BufferTypes /\ BufferTrue /\ FlushedFacts
        /\ got \in Seq(Data) /\ Len(got) \in Nat /\ Len(got) <= fPosition
        /\ fPosition \in Nat /\ count \in Nat \ {0} /\ n \in Counts
        /\ n \in Nat /\ from \in Nat /\ next \in Nat
        /\ from + n = fPosition + count /\ next + Rest = fPosition + count
        /\ End \in Nat /\ End <= MaxLength /\ MaxLength \in Nat
        /\ fPosition <= MaxLength
    <2>1. /\ GetOnTheWay /\ BufferTypes /\ BufferTrue /\ FlushedFacts
          /\ got \in Seq(Data) /\ Len(got) \in Nat /\ Len(got) <= fPosition
          /\ count \in Nat \ {0} /\ Len(got) + count \in Counts
          /\ fPosition \in Nat /\ fPosition <= MaxLength
          /\ End \in Nat /\ End <= MaxLength /\ MaxLength \in Nat
          /\ fBufferSize \in Nat \ {0}
      BY <1>1, GetFacts
    <2>2. /\ n \in Nat /\ from \in Nat /\ next \in Nat
          /\ from + n = fPosition + count /\ next + Rest = fPosition + count
      <3>1. Part \in Nat /\ Rest \in Nat /\ Part + Rest = count
        BY <1>p
      <3> QED BY <2>1, <3>1
    <2> QED BY <2>1, <2>2
  <1>g. /\ g \in Seq(Data) /\ Len(g) = Len(got) + Part
        /\ \A i \in 1..(Len(got) + Part) : g[i] = Flushed[from + i]
    BY <1>1, <1>p, GotMore
  <1> HIDE DEF g, n, from, next
  <1>2. fLength' = End
    BY <1>1, <1>t DEF StreamGood, LengthKnown, FlushedFacts
  <1>3. CASE fPosition + count > End
    <2>1. /\ fPosition' = next /\ got' = g /\ streamPc' = "thrown"
          /\ answer' = answer
      BY <1>2, <1>3 DEF GetUnbuffered, g, next
    <2>2. fPosition' - Len(got') = from
      BY <2>1, <1>g, <1>t, <1>p DEF from, next
    <2>3. Flushed' = Flushed
      <3>1. fBufferDirty' = FALSE
        BY <1>1, <1>t DEF ResetRange, rangeVars, BufferTypes
      <3> QED BY <1>1, <3>1 DEF Flushed
    <2>4. Abstract!GetBeyondEnd
      <3>1. from + n > Len(Flushed)
        BY <1>3, <1>t DEF FlushedFacts
      <3>2. answer' = << >> /\ (streamPc' = "thrown") = TRUE
        BY <2>1, <1>t DEF GetOnTheWay
      <3> QED BY <1>t, <2>2, <2>3, <3>1, <3>2
        DEF Abstract!GetBeyondEnd, Abstract!Throw, from
    <2> QED BY <1>1, <2>1, <2>4 DEF Holds, Refines, Abstract!Next
  <1>4. CASE ~(fPosition + count > End)
    <2> DEFINE a == g \o Slice(store', next, Rest)
    <2>1. /\ fPosition' = fPosition + count /\ answer' = a
          /\ streamPc' = "ready" /\ got' = << >>
      BY <1>2, <1>4 DEF GetUnbuffered, Return, g, next
    <2>2. fPosition' \in Nat /\ fPosition' <= MaxLength
      BY <2>1, <1>4, <1>t
    <2>3. /\ BufferTypes' /\ BufferTrue' /\ Flushed' = Flushed /\ End' = End
          /\ fBufferDirty' = FALSE
      BY <1>1, <1>t, <2>2, FlushStep
    <2>4. StreamGood'
      BY <2>1, <2>3, <1>2 DEF StreamGood, LengthKnown
    <2>5. a = Slice(Flushed, from, n)
      <3>1. /\ Flushed \in Seq(Data) /\ from + n <= Len(Flushed)
            /\ next + Rest <= Len(Flushed)
        BY <1>4, <1>t DEF FlushedFacts
      <3>2. /\ Slice(Flushed, from, n) \in Seq(Data)
            /\ Len(Slice(Flushed, from, n)) = n
            /\ \A i \in 1..n : Slice(Flushed, from, n)[i] = Flushed[from + i]
        <4>1. from \in Nat /\ n \in Nat
          BY <1>t
        <4> QED BY <3>1, <4>1, SliceIs
      <3> DEFINE r == Slice(Flushed, next, Rest)
      <3>3. /\ r \in Seq(Data) /\ Len(r) = Rest
            /\ \A i \in 1..Rest : r[i] = Flushed[next + i]
        <4>1. next \in Nat /\ Rest \in Nat
          BY <1>p, <1>t
        <4>2. /\ Slice(Flushed, next, Rest) \in Seq(Data)
              /\ Len(Slice(Flushed, next, Rest)) = Rest
              /\ \A i \in 1..Rest :
                   Slice(Flushed, next, Rest)[i] = Flushed[next + i]
          BY <3>1, <4>1, SliceIs
        <4> QED BY <4>2
      <3>4. a = g \o r
        BY <1>1
      <3> HIDE DEF r, a
      <3>5. /\ a \in Seq(Data) /\ Len(a) = Len(g) + Len(r)
            /\ \A i \in 1..(Len(g) + Len(r)) :
                 a[i] = IF i <= Len(g) THEN g[i] ELSE r[i - Len(g)]
        BY <1>g, <3>3, <3>4, ConcatProperties
      <3>6. Len(g) \in Nat /\ Len(g) + Len(r) = n
        <4>1. Len(g) + Len(r) = Len(got) + Part + Rest
          BY <1>g, <1>p, <1>t, <3>3
        <4>2. Len(got) + Part + Rest = n /\ Len(got) + Part \in Nat
          BY <1>p, <1>t DEF n
        <4> QED BY <1>g, <4>1, <4>2
      <3>7. ASSUME NEW i \in 1..n
            PROVE  a[i] = Flushed[from + i]
        <4>1. CASE i <= Len(g)
          BY <4>1, <1>g, <3>5, <3>6, <1>t
        <4>2. CASE ~(i <= Len(g))
          <5>1. /\ i - Len(g) \in 1..Rest /\ next + (i - Len(g)) = from + i
            BY <4>2, <1>g, <1>p, <1>t, <3>3, <3>6 DEF next, from, n
          <5> QED BY <4>2, <3>3, <3>5, <3>6, <5>1
        <4> QED BY <4>1, <4>2
      <3> QED BY <3>2, <3>5, <3>6, <3>7, SeqEqual
    <2>6. fPosition' - Len(got') = from + n
      <3>1. Len(got') = 0
        BY <2>1, EmptySeq
      <3> QED BY <2>1, <1>t, <3>1
    <2>7. Abstract!Get
      <3>1. from + n <= Len(Flushed)
        BY <1>4, <1>t DEF FlushedFacts
      <3>2. answer' = Abstract!Slice(Flushed, from, n)
        BY <2>1, <2>5, SameData
      <3> QED BY <1>1, <2>1, <1>t, <2>3, <2>6, <3>1, <3>2 DEF Abstract!Get, from
    <2> QED BY <1>1, <2>1, <2>4, <2>7 DEF Holds, Refines, Abstract!Next
  <1> QED BY <1>3, <1>4

\* A buffer begins at the position or before it, and reaches behind it.
LEMMA AlignedIs ==
  ASSUME NEW p \in Nat, fBufferSize \in Nat \ {0}
  PROVE  /\ Aligned(p) \in Nat /\ Aligned(p) <= p
         /\ p < Aligned(p) + fBufferSize
  <1>1. Alignment \in Nat \ {0}
    BY DNGStreamAssumption
  <1>2. CASE fBufferSize >= Alignment
    <2>1. /\ (p \div Alignment) * Alignment \in Nat
          /\ (p \div Alignment) * Alignment <= p
          /\ p < (p \div Alignment) * Alignment + Alignment
      BY <1>1
    <2>2. Aligned(p) = (p \div Alignment) * Alignment
      BY <1>2 DEF Aligned
    <2> QED BY <1>1, <1>2, <2>1, <2>2
  <1>3. CASE ~(fBufferSize >= Alignment)
    BY <1>3 DEF Aligned
  <1> QED BY <1>2, <1>3

\* The buffer is filled behind the bytes it still had, where the store has data.
LEMMA RefillSteps ==
  ASSUME StreamGood, Refill
  PROVE  Holds
  <1> DEFINE g == got \o Buffered(fPosition, Part)
             n == Len(got) + count
             from == fPosition - Len(got)
             next == fPosition + Part
             m == fBufferEnd' - fBufferStart'
  <1>1. /\ streamPc = "get" /\ ~InBuffer /\ store' = Flushed
        /\ fBufferDirty' = FALSE /\ fBufferSize' = fBufferSize
        /\ fLength' = IF fLength = Unknown THEN Len(store') ELSE fLength
        /\ fPosition' = next /\ got' = g /\ count' = Rest /\ answer' = answer
        /\ fBufferStart' = Aligned(next)
        /\ fBufferEnd' = Lower(fBufferStart' + fBufferSize, fLength')
    BY DEF Refill, WriteBuffer
  <1>p. /\ Part \in Nat /\ Rest \in Nat \ {0} /\ Part + Rest = count
        /\ Part > 0 => fBufferStart <= fPosition /\ next <= fBufferEnd
    BY <1>1, PartIs
  <1>t. /\ GetOnTheWay /\ BufferTypes /\ FlushedFacts
        /\ got \in Seq(Data) /\ Len(got) \in Nat /\ Len(got) <= fPosition
        /\ fPosition \in Nat /\ count \in Nat \ {0} /\ n \in Counts
        /\ n \in Nat /\ from \in Nat /\ next \in Nat
        /\ from + n = fPosition + count /\ next + Rest = fPosition + count
        /\ End \in Nat /\ End <= MaxLength /\ MaxLength \in Nat
        /\ fBufferSize \in Nat \ {0}
    <2>1. /\ GetOnTheWay /\ BufferTypes /\ BufferTrue /\ FlushedFacts
          /\ got \in Seq(Data) /\ Len(got) \in Nat /\ Len(got) <= fPosition
          /\ count \in Nat \ {0} /\ Len(got) + count \in Counts
          /\ fPosition \in Nat /\ fPosition <= MaxLength
          /\ End \in Nat /\ End <= MaxLength /\ MaxLength \in Nat
          /\ fBufferSize \in Nat \ {0}
      BY <1>1, GetFacts
    <2>2. /\ n \in Nat /\ from \in Nat /\ next \in Nat
          /\ from + n = fPosition + count /\ next + Rest = fPosition + count
      <3>1. Part \in Nat /\ Rest \in Nat /\ Part + Rest = count
        BY <1>p
      <3> QED BY <2>1, <3>1
    <2> QED BY <2>1, <2>2
  <1>g. /\ g \in Seq(Data) /\ Len(g) = Len(got) + Part
        /\ \A i \in 1..(Len(got) + Part) : g[i] = Flushed[from + i]
        /\ Len(got) + Part > 0 => next <= End
    BY <1>1, <1>p, GotMore
  <1> HIDE DEF g, n, from, next
  <1>2. fLength' = End
    BY <1>1, <1>t DEF StreamGood, LengthKnown, FlushedFacts
  <1>3. Flushed' = Flushed /\ End' = End
    BY <1>1, <1>t DEF Flushed, End, FlushedFacts
  <1>4. fPosition' - Len(got') = from
    <2>1. fPosition' = next /\ Len(got') = Len(got) + Part
      BY <1>1, <1>g
    <2>2. next - (Len(got) + Part) = from
      BY <1>t, <1>p DEF from, next
    <2> QED BY <2>1, <2>2
  <1>5. /\ fBufferStart' \in Nat /\ fBufferStart' <= next
        /\ next < fBufferStart' + fBufferSize
        /\ fBufferEnd' = Lower(fBufferStart' + fBufferSize, End)
    BY <1>1, <1>2, <1>t, AlignedIs
  <1>6. CASE fBufferEnd' <= fPosition'
    <2>1. streamPc' = "thrown"
      BY <1>6 DEF Refill
    <2>2. End <= next
      BY <1>1, <1>5, <1>6, <1>t DEF Lower
    <2>3. Abstract!GetBeyondEnd
      <3>1. from + n > Len(Flushed)
        BY <2>2, <1>p, <1>t DEF FlushedFacts
      <3>2. answer' = << >> /\ (streamPc' = "thrown") = TRUE
        BY <2>1, <1>1, <1>t DEF GetOnTheWay
      <3> QED BY <1>3, <1>4, <1>t, <3>1, <3>2
        DEF Abstract!GetBeyondEnd, Abstract!Throw, from
    <2> QED BY <1>1, <2>1, <2>3 DEF Holds, Refines, Abstract!Next
  <1>7. CASE ~(fBufferEnd' <= fPosition')
    <2> DEFINE d == Slice(store', fBufferStart', m)
    <2>1. streamPc' = "get" /\ fBuffer' = Filled(0, d)
      BY <1>1, <1>7 DEF Refill
    <2>2. /\ fBufferEnd' \in Nat /\ m \in Nat /\ m <= fBufferSize
          /\ fBufferStart' + m = fBufferEnd' /\ fBufferEnd' <= End /\ next <= End
      <3>1. PICK x \in Nat : x = fBufferStart'
        BY <1>5
      <3>2. PICK y \in Nat : /\ y = fBufferEnd' /\ y <= End
                             /\ y <= x + fBufferSize
        <4>1. fBufferEnd' = Lower(x + fBufferSize, End)
          BY <1>5, <3>1
        <4>2. x + fBufferSize \in Nat /\ End \in Nat
          BY <1>t
        <4>3. \A a, b \in Nat : Lower(a, b) \in Nat /\ Lower(a, b) <= a /\ Lower(a, b) <= b
          BY DEF Lower
        <4> QED BY <4>1, <4>2, <4>3
      <3>3. next < y
        BY <1>1, <1>7, <1>t, <3>2
      <3>4. m = y - x
        BY <3>1, <3>2
      <3>5. x <= next
        BY <1>5, <3>1
      <3> HIDE DEF m
      <3>6. m \in Nat /\ m <= fBufferSize /\ x + m = y /\ next <= End
        <4>1. /\ fBufferSize \in Nat /\ End \in Nat /\ next \in Nat
              /\ y <= End /\ y <= x + fBufferSize
          BY <1>t, <3>2
        <4> QED BY <3>3, <3>4, <3>5, <4>1
      <3> QED BY <3>1, <3>2, <3>6
    <2>3. store' \in Seq(Data) /\ Len(store') = End
      BY <1>1, <1>t DEF FlushedFacts
    <2> HIDE DEF m
    <2>4. /\ d \in Seq(Data) /\ Len(d) = m
          /\ \A i \in 1..m : d[i] = store'[fBufferStart' + i]
      <3>1. fBufferStart' + m <= Len(store')
        BY <2>2, <2>3
      <3> QED BY <1>5, <2>2, <2>3, <3>1, SliceIs
    <2> HIDE DEF d
    <2>5. ASSUME NEW k \in 0..(fBufferSize - 1)
          PROVE  /\ k \in 0..(m - 1) => fBuffer'[k] = store'[fBufferStart' + (k + 1)]
                 /\ fBuffer'[k] \in Data
      <3>1. DOMAIN fBuffer = 0..(fBufferSize - 1) /\ fBuffer[k] \in Data
        BY <1>t DEF BufferTypes
      <3>2. 0 + Len(d) - 1 = m - 1 /\ k - 0 + 1 = k + 1
        <4>1. \A x \in Nat : 0 + x - 1 = x - 1
          OBVIOUS
        <4> QED BY <2>2, <2>4, <4>1
      <3>3. fBuffer'[k] = IF k \in 0..(m - 1) THEN d[k + 1] ELSE fBuffer[k]
        BY <2>1, <3>1, <3>2 DEF Filled
      <3>4. k \in 0..(m - 1) => /\ d[k + 1] \in Data
                                /\ d[k + 1] = store'[fBufferStart' + (k + 1)]
        <4>1. ASSUME k \in 0..(m - 1)
              PROVE  k + 1 \in 1..m
          BY <4>1, <2>2
        <4> QED BY <4>1, <2>4, ElementOfSeq
      <3> QED BY <3>1, <3>3, <3>4
    <2>6. fBuffer' \in [0..(fBufferSize - 1) -> Data]
      <3>1. DOMAIN fBuffer = 0..(fBufferSize - 1)
        BY <1>t DEF BufferTypes
      <3>2. fBuffer' = [k \in 0..(fBufferSize - 1) |-> fBuffer'[k]]
        BY <2>1, <3>1 DEF Filled
      <3> QED BY <3>2, <2>5
    <2>7. BufferTypes'
      <3>1. /\ fPosition' \in Nat /\ fPosition' <= MaxLength
            /\ fBufferEnd' <= MaxLength /\ fBufferStart' <= fBufferEnd'
            /\ fBufferEnd' <= fBufferStart' + fBufferSize
            /\ Len(store') <= MaxLength
        BY <1>1, <1>5, <1>t, <2>2, <2>3
      <3> QED BY <1>1, <1>5, <1>t, <2>2, <2>3, <2>6, <3>1 DEF BufferTypes
    <2>8. BufferTrue'
      <3>0. PICK x \in Nat, y \in Nat : x = fBufferStart' /\ y = fBufferEnd'
        BY <1>5, <2>2
      <3>1. ASSUME NEW i \in (x + 1)..y
            PROVE  fBuffer'[i - 1 - x] = store'[i]
        <4>1. x + m = y /\ m \in Nat /\ m <= fBufferSize /\ fBufferSize \in Nat
          BY <3>0, <2>2, <1>t
        <4>2. /\ i - 1 - x \in 0..(m - 1) /\ i - 1 - x \in 0..(fBufferSize - 1)
              /\ x + (i - 1 - x + 1) = i
          BY <4>1
        <4>3. fBuffer'[i - 1 - x] = store'[x + (i - 1 - x + 1)]
          BY <2>5, <3>0, <4>2
        <4> QED BY <4>2, <4>3
      <3>2. \A i \in (fBufferStart' + 1)..fBufferEnd' :
              fBuffer'[i - 1 - fBufferStart'] = store'[i]
        BY <3>0, <3>1
      <3> QED BY <1>1, <2>2, <2>3, <3>2 DEF BufferTrue
    <2>9. GetOnTheWay'
      <3>1. Len(g) \in Nat /\ Len(g) + Rest = n /\ Len(g) <= next
        <4>1. /\ Part \in Nat /\ Rest \in Nat /\ Part + Rest = count
              /\ Len(g) = Len(got) + Part
          BY <1>g, <1>p
        <4>2. Len(got) \in Nat /\ fPosition \in Nat /\ Len(got) <= fPosition
          BY <1>t
        <4> QED BY <4>1, <4>2 DEF n, next
      <3>2. \A i \in 1..Len(g) : g[i] = Flushed[from + i]
        BY <1>g
      <3>3. from = fPosition' - Len(got')
        BY <1>4
      <3> QED BY <1>1, <1>3, <1>g, <1>p, <1>t, <2>2, <3>1, <3>2, <3>3
        DEF GetOnTheWay
    <2>10. StreamGood'
      BY <1>2, <1>3, <2>1, <2>7, <2>8, <2>9 DEF StreamGood, LengthKnown
    <2>11. Stays
      BY <1>1, <1>3, <1>4, <2>1 DEF Stays, from
    <2> QED BY <2>10, <2>11 DEF Holds, Refines
  <1> QED BY <1>6, <1>7

-----------------------------------------------------------------------------

LEMMA NextIsAbstract ==
  StreamInv /\ [StreamNext]_streamVars
    => StreamInv' /\ [~careless' => Abstract!Next]_(Abstract!vars)
  <1> SUFFICES ASSUME StreamInv, [StreamNext]_streamVars
               PROVE  StreamInv' /\ [~careless' => Abstract!Next]_(Abstract!vars)
    OBVIOUS
  <1>1. CASE UNCHANGED streamVars
    <2>1. Flushed' = Flushed
      BY <1>1 DEF streamVars, rangeVars, callVars, Flushed, Buffered
    <2>2. UNCHANGED (Abstract!vars)
      BY <1>1, <2>1 DEF streamVars, rangeVars, callVars, Abstract!vars
    <2>3. StreamInv'
      BY <1>1, <2>1 DEF streamVars, rangeVars, callVars, StreamInv, StreamGood,
        BufferTypes, BufferTrue, LengthKnown, End, GetOnTheWay
    <2> QED BY <2>2, <2>3
  <1>2. CASE StreamNext /\ careless'
    BY <1>2 DEF StreamInv
  <1>3. CASE StreamNext /\ ~careless'
    <2>1. ~Catch
      BY <1>3 DEF Catch
    <2>2. ~careless
      BY <1>3, <2>1 DEF StreamNext, SetWritePosition, SetReadPosition, Flush,
        SetLength, Put, CallGet, GetBuffered, GetUnbuffered, Refill
    <2>3. streamPc # "thrown"
      BY <1>3, <2>1 DEF StreamNext, SetWritePosition, SetReadPosition, Flush,
        SetLength, Put, CallGet, GetBuffered, GetUnbuffered, Refill
    <2>4. StreamGood
      BY <2>2, <2>3 DEF StreamInv
    <2>5. Holds
      BY <1>3, <2>1, <2>4, SeekSteps, FlushSteps, SetLengthSteps, PutSteps,
         CallGetSteps, GetBufferedSteps, GetUnbufferedSteps, RefillSteps
      DEF StreamNext
    <2>6. Stays => UNCHANGED (Abstract!vars)
      BY DEF Stays, Abstract!vars
    <2> QED BY <2>5, <2>6 DEF Holds, Refines, StreamInv
  <1> QED BY <1>1, <1>2, <1>3

\* Whatever is put, got, sought, flushed and cut off, in any order: until a
\* Get has buffered data that is overwritten past the buffer or cut off, or
\* an exception was thrown, a stream with a buffer of any size and alignment is
\* the sequence of bytes with one position of ByteStream.
THEOREM StreamIsBytes == StreamSpec => IsByteStream
  <1>1. StreamInit => StreamInv /\ Abstract!Init
    BY InitIsAbstract
  <1>2. StreamInv /\ [StreamNext]_streamVars
          => StreamInv' /\ [~careless' => Abstract!Next]_(Abstract!vars)
    BY NextIsAbstract
  <1> QED BY <1>1, <1>2, PTL DEF StreamSpec, IsByteStream

-----------------------------------------------------------------------------
(* The orientations of an image. *)

LEMMA TagTable ==
  ASSUME NEW o \in Orientations
  PROVE  SetTIFF(GetTIFF(o)) = o
  <1>1. \E x \in 1..8 : TIFF[x] = o
    BY DEF Orientations, TIFF
  <1>2. DOMAIN TIFF = 1..8
    BY DEF TIFF
  <1>3. o \in Range(TIFF)
    BY <1>1, <1>2 DEF Range
  <1>4. GetTIFF(o) = CHOOSE x \in DOMAIN TIFF : o \in Range(TIFF) => TIFF[x] = o
    BY <1>3 DEF GetTIFF, AntiFunction, Inverse
  <1>5. GetTIFF(o) \in DOMAIN TIFF /\ TIFF[GetTIFF(o)] = o
    BY <1>1, <1>2, <1>3, <1>4
  <1> QED BY <1>5 DEF SetTIFF

Xor(p, q) == (p /\ ~q) \/ (~p /\ q)
Either(d, p, q) == (d /\ p) \/ (~d /\ q)

\* How two orientations add up.
LEMMA PlusFlips ==
  ASSUME NEW a \in Orientations, NEW b \in Orientations
  PROVE  /\ Plus(a, b) \in Orientations
         /\ FlipD(Plus(a, b)) <=> Xor(FlipD(a), FlipD(b))
         /\ FlipH(Plus(a, b)) <=> Xor(FlipH(a), Either(FlipD(a), FlipV(b), FlipH(b)))
         /\ FlipV(Plus(a, b)) <=> Xor(FlipV(a), Either(FlipD(a), FlipH(b), FlipV(b)))
  BY DEF Orientations, Plus, And4, Toggle, Bit, FlipD, FlipH, FlipV, Xor, Either

LEMMA MinusUndoes ==
  ASSUME NEW o \in Orientations
  PROVE  Minus(o) \in Orientations /\ Plus(o, Minus(o)) = Normal
  BY DEF Orientations, Minus, Plus, And4, Toggle, Bit, Normal

LEMMA NormalFlips == ~FlipD(Normal) /\ ~FlipH(Normal) /\ ~FlipV(Normal)
  BY DEF Normal, FlipD, FlipH, FlipV, Bit

\* What a rotation does to the steps of an image, and to the way from its first
\* row and column to its last.
Images == [fData : Int, fColStep : Int, fRowStep : Int, w : Int, h : Int]

Down(img) == (img.h - 1) * img.fRowStep
Across(img) == (img.w - 1) * img.fColStep

Signed(negative, x) == IF negative THEN -x ELSE x

LEMMA RotateIs ==
  ASSUME NEW img \in Images, NEW o \in Orientations
  PROVE  /\ Rotate(img, o) \in Images
         /\ Rotate(img, o).fData = img.fData + (IF FlipV(o) THEN Down(img) ELSE 0)
                                             + (IF FlipH(o) THEN Across(img) ELSE 0)
         /\ Rotate(img, o).fColStep = IF FlipD(o) THEN Signed(FlipV(o), img.fRowStep)
                                                  ELSE Signed(FlipH(o), img.fColStep)
         /\ Rotate(img, o).fRowStep = IF FlipD(o) THEN Signed(FlipH(o), img.fColStep)
                                                  ELSE Signed(FlipV(o), img.fRowStep)
         /\ Rotate(img, o).w = IF FlipD(o) THEN img.h ELSE img.w
         /\ Rotate(img, o).h = IF FlipD(o) THEN img.w ELSE img.h
         /\ Down(Rotate(img, o)) = IF FlipD(o) THEN Signed(FlipH(o), Across(img))
                                               ELSE Signed(FlipV(o), Down(img))
         /\ Across(Rotate(img, o)) = IF FlipD(o) THEN Signed(FlipV(o), Down(img))
                                                 ELSE Signed(FlipH(o), Across(img))
  <1> DEFINE r == Rotate(img, o)
             data == img.fData + (IF FlipV(o) THEN Down(img) ELSE 0)
                               + (IF FlipH(o) THEN Across(img) ELSE 0)
  <1>1. /\ img.fData \in Int /\ img.fColStep \in Int /\ img.fRowStep \in Int
        /\ img.w \in Int /\ img.h \in Int
    BY DEF Images
  <1>2. Pixel(img, IF FlipV(o) THEN img.h - 1 ELSE 0, IF FlipH(o) THEN img.w - 1 ELSE 0)
          = data
    <2>1. 0 * img.fRowStep = 0 /\ 0 * img.fColStep = 0
      BY <1>1
    <2> QED BY <1>1, <2>1 DEF Pixel, Down, Across
  <1>3. data \in Int
    BY <1>1 DEF Down, Across
  <1> HIDE DEF data
  <1>4. r = IF FlipD(o)
            THEN [fData |-> data, fColStep |-> Signed(FlipV(o), img.fRowStep),
                  fRowStep |-> Signed(FlipH(o), img.fColStep),
                  w |-> img.h, h |-> img.w]
            ELSE [fData |-> data, fColStep |-> Signed(FlipH(o), img.fColStep),
                  fRowStep |-> Signed(FlipV(o), img.fRowStep),
                  w |-> img.w, h |-> img.h]
    BY <1>2 DEF Rotate, Signed
  <1> HIDE DEF r
  <1>5. /\ r.fData = data
        /\ r.fColStep = IF FlipD(o) THEN Signed(FlipV(o), img.fRowStep)
                                    ELSE Signed(FlipH(o), img.fColStep)
        /\ r.fRowStep = IF FlipD(o) THEN Signed(FlipH(o), img.fColStep)
                                    ELSE Signed(FlipV(o), img.fRowStep)
        /\ r.w = IF FlipD(o) THEN img.h ELSE img.w
        /\ r.h = IF FlipD(o) THEN img.w ELSE img.h
    BY <1>4
  <1>6. r \in Images
    BY <1>1, <1>3, <1>4 DEF Images, Signed
  <1>7. \A x, y \in Int : x * (-y) = -(x * y)
    OBVIOUS
  <1>8. /\ Down(r) = IF FlipD(o) THEN Signed(FlipH(o), Across(img))
                                 ELSE Signed(FlipV(o), Down(img))
        /\ Across(r) = IF FlipD(o) THEN Signed(FlipV(o), Down(img))
                                   ELSE Signed(FlipH(o), Across(img))
    BY <1>1, <1>5, <1>7 DEF Down, Across, Signed, FlipD, FlipH, FlipV
  <1> QED BY <1>5, <1>6, <1>8 DEF r, data

LEMMA SameImage ==
  ASSUME NEW x \in Images, NEW y \in Images,
         /\ x.fData = y.fData /\ x.fColStep = y.fColStep
         /\ x.fRowStep = y.fRowStep /\ x.w = y.w /\ x.h = y.h
  PROVE  x = y
  BY DEF Images

\* Turning twice is turning once by the sum.
LEMMA RotateTwice ==
  ASSUME NEW img \in Images, NEW a \in Orientations, NEW b \in Orientations
  PROVE  Rotate(Rotate(img, a), b) = Rotate(img, Plus(a, b))
  <1> DEFINE r == Rotate(img, a)
             s == Rotate(r, b)
             t == Rotate(img, Plus(a, b))
  <1>1. /\ r \in Images /\ s \in Images /\ t \in Images
        /\ Plus(a, b) \in Orientations
    BY RotateIs, PlusFlips
  <1>2. /\ img.fData \in Int /\ img.fColStep \in Int /\ img.fRowStep \in Int
        /\ Down(img) \in Int /\ Across(img) \in Int
    BY DEF Images, Down, Across
  <1>3. s.fData = t.fData
    <2>1. s.fData = r.fData + (IF FlipV(b) THEN Down(r) ELSE 0)
                            + (IF FlipH(b) THEN Across(r) ELSE 0)
      BY <1>1, RotateIs
    <2>2. t.fData = img.fData + (IF FlipV(Plus(a, b)) THEN Down(img) ELSE 0)
                              + (IF FlipH(Plus(a, b)) THEN Across(img) ELSE 0)
      BY <1>1, RotateIs
    <2>3. /\ r.fData = img.fData + (IF FlipV(a) THEN Down(img) ELSE 0)
                                 + (IF FlipH(a) THEN Across(img) ELSE 0)
          /\ Down(r) = IF FlipD(a) THEN Signed(FlipH(a), Across(img))
                                   ELSE Signed(FlipV(a), Down(img))
          /\ Across(r) = IF FlipD(a) THEN Signed(FlipV(a), Down(img))
                                     ELSE Signed(FlipH(a), Across(img))
      BY RotateIs
    <2> HIDE DEF r, s, t
    <2>4. /\ FlipH(Plus(a, b)) <=> Xor(FlipH(a), Either(FlipD(a), FlipV(b), FlipH(b)))
          /\ FlipV(Plus(a, b)) <=> Xor(FlipV(a), Either(FlipD(a), FlipH(b), FlipV(b)))
      BY PlusFlips
    <2> QED BY <1>2, <2>1, <2>2, <2>3, <2>4 DEF Signed, Xor, Either
  <1>4. s.fColStep = t.fColStep /\ s.fRowStep = t.fRowStep
    <2>1. /\ s.fColStep = IF FlipD(b) THEN Signed(FlipV(b), r.fRowStep)
                                      ELSE Signed(FlipH(b), r.fColStep)
          /\ s.fRowStep = IF FlipD(b) THEN Signed(FlipH(b), r.fColStep)
                                      ELSE Signed(FlipV(b), r.fRowStep)
      BY <1>1, RotateIs
    <2>2. /\ t.fColStep = IF FlipD(Plus(a, b))
                          THEN Signed(FlipV(Plus(a, b)), img.fRowStep)
                          ELSE Signed(FlipH(Plus(a, b)), img.fColStep)
          /\ t.fRowStep = IF FlipD(Plus(a, b))
                          THEN Signed(FlipH(Plus(a, b)), img.fColStep)
                          ELSE Signed(FlipV(Plus(a, b)), img.fRowStep)
      BY <1>1, RotateIs
    <2>3. /\ r.fColStep = IF FlipD(a) THEN Signed(FlipV(a), img.fRowStep)
                                      ELSE Signed(FlipH(a), img.fColStep)
          /\ r.fRowStep = IF FlipD(a) THEN Signed(FlipH(a), img.fColStep)
                                      ELSE Signed(FlipV(a), img.fRowStep)
      BY RotateIs
    <2> HIDE DEF r, s, t
    <2>4. /\ FlipD(Plus(a, b)) <=> Xor(FlipD(a), FlipD(b))
          /\ FlipH(Plus(a, b)) <=> Xor(FlipH(a), Either(FlipD(a), FlipV(b), FlipH(b)))
          /\ FlipV(Plus(a, b)) <=> Xor(FlipV(a), Either(FlipD(a), FlipH(b), FlipV(b)))
      BY PlusFlips
    <2> QED BY <1>2, <2>1, <2>2, <2>3, <2>4 DEF Signed, Xor, Either
  <1>5. s.w = t.w /\ s.h = t.h
    <2>1. /\ s.w = (IF FlipD(b) THEN r.h ELSE r.w)
          /\ s.h = (IF FlipD(b) THEN r.w ELSE r.h)
      BY <1>1, RotateIs
    <2>2. /\ t.w = (IF FlipD(Plus(a, b)) THEN img.h ELSE img.w)
          /\ t.h = (IF FlipD(Plus(a, b)) THEN img.w ELSE img.h)
      BY <1>1, RotateIs
    <2>3. /\ r.w = (IF FlipD(a) THEN img.h ELSE img.w)
          /\ r.h = (IF FlipD(a) THEN img.w ELSE img.h)
      BY RotateIs
    <2> HIDE DEF r, s, t
    <2>4. FlipD(Plus(a, b)) <=> Xor(FlipD(a), FlipD(b))
      BY PlusFlips
    <2> QED BY <2>1, <2>2, <2>3, <2>4 DEF Xor, Either
  <1> HIDE DEF r, s, t
  <1>6. s = t
    BY <1>1, <1>3, <1>4, <1>5, SameImage
  <1> QED BY <1>6 DEF r, s, t

LEMMA RotateNot ==
  ASSUME NEW img \in Images
  PROVE  Rotate(img, Normal) = img
  <1>1. Normal \in Orientations
    BY DEF Normal, Orientations
  <1> DEFINE r == Rotate(img, Normal)
  <1>2. /\ r \in Images /\ r.fData = img.fData + 0 + 0 /\ r.fColStep = img.fColStep
        /\ r.fRowStep = img.fRowStep /\ r.w = img.w /\ r.h = img.h
    BY <1>1, RotateIs, NormalFlips DEF Signed
  <1>3. img.fData + 0 + 0 = img.fData
    BY DEF Images
  <1> HIDE DEF r
  <1>4. r = img
    BY <1>2, <1>3, SameImage
  <1> QED BY <1>4 DEF r

-----------------------------------------------------------------------------
(* The image and its tag. *)

MosaicTypes ==
  /\ phase \in {"write", "written", "opened"}
  /\ flip_hor \in 0..1 /\ flip_ver \in 0..1 /\ bayerShift \in Shifts
  /\ size \in Sizes /\ turns \in Nat

\* Until the file is opened the image is as it is stored; from then on it is
\* turned by the orientation that the tag stands for.
AsTagged ==
  /\ phase # "opened" => simpleImage = Stored
  /\ phase # "write" => fBaseOrientation \in Orientations
                        /\ tag = GetTIFF(fBaseOrientation)
  /\ phase = "opened" => simpleImage = Rotate(Stored, fBaseOrientation)

\* What the flips of the sensor have set.
AsFlipped ==
  /\ phase # "write" =>
       fCFAPattern = SetBayerMosaic(Bayer[PhaseOfFlips(flip_hor, flip_ver)], bayerShift)
  /\ phase # "write" /\ turns = 0 =>
       fBaseOrientation = OrientationOfFlips(flip_hor, flip_ver)

MosaicInv == MosaicTypes /\ AsTagged /\ AsFlipped

LEMMA StoredIs ==
  ASSUME size \in Sizes
  PROVE  /\ Stored \in Images
         /\ size[1] \in Nat /\ size[1] > 0 /\ size[1] % 2 = 0
         /\ size[2] \in Nat /\ size[2] > 0 /\ size[2] % 2 = 0
  <1>1. /\ size[1] \in Nat /\ size[1] > 0 /\ size[1] % 2 = 0
        /\ size[2] \in Nat /\ size[2] > 0 /\ size[2] % 2 = 0
    BY DNGMosaicAssumption
  <1> QED BY <1>1 DEF Stored, Fresh, Images

LEMMA FlipsOrient ==
  ASSUME NEW hor \in 0..1, NEW ver \in 0..1
  PROVE  /\ OrientationOfFlips(hor, ver) \in Orientations
         /\ ~FlipD(OrientationOfFlips(hor, ver))
         /\ FlipH(OrientationOfFlips(hor, ver)) <=> hor = 1
         /\ FlipV(OrientationOfFlips(hor, ver)) <=> ver = 1
  <1> DEFINE o == OrientationOfFlips(hor, ver)
  <1>1. \/ hor = 0 /\ ver = 0 /\ o = 0
        \/ hor = 1 /\ ver = 0 /\ o = 4
        \/ hor = 0 /\ ver = 1 /\ o = 6
        \/ hor = 1 /\ ver = 1 /\ o = 2
    BY DEF OrientationOfFlips, Normal, Mirror, Mirror180, Rotate180
  <1> HIDE DEF o
  <1>2. /\ o \in Orientations /\ ~FlipD(o)
        /\ FlipH(o) <=> hor = 1
        /\ FlipV(o) <=> ver = 1
    BY <1>1 DEF Orientations, FlipD, FlipH, FlipV, Bit
  <1> QED BY <1>2 DEF o

LEMMA MosaicInitially == MosaicInit => MosaicInv
  BY DEF MosaicInit, MosaicFresh, MosaicInv, MosaicTypes, AsTagged, AsFlipped, Stored

LEMMA MosaicStep == MosaicInv /\ [MosaicNext]_mosaicVars => MosaicInv'
  <1> SUFFICES ASSUME MosaicInv, [MosaicNext]_mosaicVars
               PROVE  MosaicInv'
    OBVIOUS
  <1> USE DEF MosaicInv
  <1>0. size \in Sizes /\ flip_hor \in 0..1 /\ flip_ver \in 0..1
    BY DEF MosaicTypes
  <1>1. ASSUME Write
        PROVE  MosaicInv'
    <2>1. MosaicTypes'
      BY <1>1 DEF Write, MosaicTypes, mosaicInputs
    <2>2. fBaseOrientation' \in Orientations
      BY <1>0, <1>1, FlipsOrient DEF Write
    <2>3. AsTagged'
      BY <1>1, <2>2 DEF Write, AsTagged, Stored, mosaicInputs
    <2>4. AsFlipped'
      BY <1>1 DEF Write, AsFlipped, mosaicInputs
    <2> QED BY <2>1, <2>3, <2>4
  <1>2. ASSUME Open
        PROVE  MosaicInv'
    <2>1. MosaicTypes'
      BY <1>2 DEF Open, MosaicTypes, mosaicInputs
    <2>2. fBaseOrientation' = fBaseOrientation /\ fBaseOrientation \in Orientations
      BY <1>2, TagTable DEF Open, AsTagged
    <2>3. AsTagged'
      BY <1>2, <2>2 DEF Open, AsTagged, Stored, mosaicInputs
    <2>4. AsFlipped'
      BY <1>2, <2>2 DEF Open, AsFlipped, mosaicInputs
    <2> QED BY <2>1, <2>3, <2>4
  <1>3. ASSUME NEW o \in Orientations, ApplyOrientation(o)
        PROVE  MosaicInv'
    <2>1. MosaicTypes' /\ turns' # 0
      BY <1>3 DEF ApplyOrientation, MosaicTypes, mosaicInputs
    <2>2. fBaseOrientation \in Orientations /\ Stored \in Images
      BY <1>0, <1>3, StoredIs DEF ApplyOrientation, AsTagged
    <2>3. fBaseOrientation' \in Orientations
      BY <1>3, <2>2, PlusFlips DEF ApplyOrientation
    <2>4. simpleImage' = Rotate(Stored, fBaseOrientation')
      BY <1>3, <2>2, RotateTwice DEF ApplyOrientation, AsTagged
    <2>5. AsTagged'
      BY <1>3, <2>3, <2>4 DEF ApplyOrientation, AsTagged, Stored, mosaicInputs
    <2>6. AsFlipped'
      BY <1>3, <2>1 DEF ApplyOrientation, AsFlipped, mosaicInputs
    <2> QED BY <2>1, <2>5, <2>6
  <1>4. CASE UNCHANGED mosaicVars
    BY <1>4 DEF mosaicVars, mosaicInputs, MosaicTypes, AsTagged, AsFlipped, Stored
  <1> QED BY <1>1, <1>2, <1>3, <1>4 DEF MosaicNext

LEMMA MosaicHolds == MosaicSpec => []MosaicInv
  BY MosaicInitially, MosaicStep, PTL DEF MosaicSpec

\* However often the pixels of an opened image are turned, for images of every
\* even size, the tag holds the sum of the orientations and the opposite of the
\* sum brings back the stored image: Plus, Minus and Rotate are the operations
\* of one group.
THEOREM TurnsKept == MosaicSpec => []TagKeepsTurns
  <1>1. MosaicInv => TagKeepsTurns
    <2> SUFFICES ASSUME MosaicInv, phase = "opened"
                 PROVE  /\ Rotate(Stored, SetTIFF(tag)) = simpleImage
                        /\ Rotate(simpleImage, Minus(fBaseOrientation)) = Stored
      BY DEF TagKeepsTurns
    <2>1. fBaseOrientation \in Orientations /\ Stored \in Images
      BY StoredIs DEF MosaicInv, MosaicTypes, AsTagged
    <2>2. Rotate(Stored, SetTIFF(tag)) = simpleImage
      BY <2>1, TagTable DEF MosaicInv, AsTagged
    <2>3. Rotate(simpleImage, Minus(fBaseOrientation)) = Rotate(Stored, Normal)
      BY <2>1, RotateTwice, MinusUndoes DEF MosaicInv, AsTagged
    <2> QED BY <2>1, <2>2, <2>3, RotateNot
  <1> QED BY <1>1, MosaicHolds, PTL

-----------------------------------------------------------------------------
(* The colours. *)

LEMMA RowAndColumn ==
  ASSUME NEW w \in Nat, w > 0, NEW r \in Nat, NEW c \in 0..(w - 1)
  PROVE  (r * w + c) \div w = r /\ (r * w + c) % w = c
  <1> DEFINE x == r * w + c
             q == x \div w
             m == x % w
  <1>1. x \in Nat
    OBVIOUS
  <1> HIDE DEF x
  <1>2. q \in Int /\ m \in 0..(w - 1) /\ x = w * q + m
    BY <1>1
  <1> HIDE DEF q, m
  <1>3. w * q + m = r * w + c
    BY <1>2 DEF x
  <1>4. ~(q > r)
    <2> SUFFICES ASSUME q > r
                 PROVE  FALSE
      OBVIOUS
    <2>1. PICK k \in Nat : q = r + 1 + k
      <3>1. q - r - 1 \in Nat /\ q = r + 1 + (q - r - 1)
        BY <1>2
      <3> QED BY <3>1
    <2>2. w * q = r * w + w + w * k /\ w * k >= 0
      BY <2>1
    <2> QED BY <1>2, <1>3, <2>2
  <1>5. ~(r > q)
    <2> SUFFICES ASSUME r > q
                 PROVE  FALSE
      OBVIOUS
    <2>1. PICK k \in Nat : r = q + 1 + k
      <3>1. r - q - 1 \in Nat /\ r = q + 1 + (r - q - 1)
        BY <1>2
      <3> QED BY <3>1
    <2>2. r * w = w * q + w + w * k /\ w * k >= 0
      BY <1>2, <2>1
    <2> QED BY <1>2, <1>3, <2>2
  <1>6. q = r
    BY <1>2, <1>4, <1>5
  <1>7. m = c
    BY <1>2, <1>3, <1>6
  <1> QED BY <1>6, <1>7 DEF q, m, x

\* Mirroring an even number of rows or columns changes the parity of each.
LEMMA MirroredParity ==
  ASSUME NEW n \in Nat, n % 2 = 0, NEW i \in 0..(n - 1)
  PROVE  n - 1 - i \in 0..(n - 1) /\ (n - 1 - i) % 2 = 1 - (i % 2)
  OBVIOUS

\* The row or column that a flip shows in the place of i.
Shown(flip, n, i) == IF flip = 1 THEN n - 1 - i ELSE i

LEMMA ShownIs ==
  ASSUME NEW flip \in 0..1, NEW n \in Nat, n % 2 = 0, NEW i \in 0..(n - 1)
  PROVE  /\ Shown(flip, n, i) \in 0..(n - 1)
         /\ Shown(flip, n, i) % 2 = IF flip = 1 THEN 1 - (i % 2) ELSE i % 2
  BY MirroredParity DEF Shown

LEMMA FlippedPixel ==
  ASSUME size \in Sizes, NEW hor \in 0..1, NEW ver \in 0..1,
         NEW row \in 0..(size[2] - 1), NEW col \in 0..(size[1] - 1)
  PROVE  Pixel(Rotate(Stored, OrientationOfFlips(hor, ver)), row, col)
           = Shown(ver, size[2], row) * size[1] + Shown(hor, size[1], col)
  <1> DEFINE w == size[1]
             h == size[2]
             o == OrientationOfFlips(hor, ver)
             t == Rotate(Stored, o)
  <1>1. /\ Stored \in Images /\ o \in Orientations /\ w \in Nat /\ h \in Nat
        /\ Stored.fData = 0 /\ Stored.fColStep = 1 /\ Stored.fRowStep = w
        /\ Stored.w = w /\ Stored.h = h
    BY StoredIs, FlipsOrient DEF Stored, Fresh
  <1>2. ~FlipD(o) /\ (FlipH(o) <=> hor = 1) /\ (FlipV(o) <=> ver = 1)
    BY FlipsOrient
  <1>3. Down(Stored) = (h - 1) * w /\ Across(Stored) = w - 1
    BY <1>1 DEF Down, Across
  <1> HIDE DEF o
  <1>4. /\ t.fData = Stored.fData + (IF FlipV(o) THEN Down(Stored) ELSE 0)
                                  + (IF FlipH(o) THEN Across(Stored) ELSE 0)
        /\ t.fColStep = IF FlipD(o) THEN Signed(FlipV(o), Stored.fRowStep)
                                    ELSE Signed(FlipH(o), Stored.fColStep)
        /\ t.fRowStep = IF FlipD(o) THEN Signed(FlipH(o), Stored.fColStep)
                                    ELSE Signed(FlipV(o), Stored.fRowStep)
    BY <1>1, RotateIs
  <1> HIDE DEF t, w, h
  <1>5. /\ t.fData = (IF ver = 1 THEN (h - 1) * w ELSE 0) + (IF hor = 1 THEN w - 1 ELSE 0)
        /\ t.fColStep = (IF hor = 1 THEN -1 ELSE 1)
        /\ t.fRowStep = (IF ver = 1 THEN -w ELSE w)
    BY <1>1, <1>2, <1>3, <1>4 DEF Signed
  <1>6. row \in Int /\ col \in Int
    BY <1>1 DEF w, h
  <1>7. row * (-w) = -(row * w) /\ (h - 1 - row) * w = (h - 1) * w - row * w
    BY <1>1, <1>6
  <1>8. Pixel(t, row, col) = Shown(ver, h, row) * w + Shown(hor, w, col)
    BY <1>1, <1>5, <1>6, <1>7 DEF Pixel, Shown
  <1> QED BY <1>8 DEF t, o, w, h

\* The pattern of the flips, read from the place that is shown, is the pattern
\* of the sensor.
LEMMA PatternOfFlips ==
  ASSUME NEW hor \in 0..1, NEW ver \in 0..1, NEW r \in 0..1, NEW c \in 0..1
  PROVE  Bayer[PhaseOfFlips(hor, ver)]
              [(IF ver = 1 THEN 1 - r ELSE r) + 1][(IF hor = 1 THEN 1 - c ELSE c) + 1]
           = Bayer[0][r + 1][c + 1]
  <1>1. /\ Bayer[0] = << <<"G", "R">>, <<"B", "G">> >>
        /\ Bayer[1] = << <<"R", "G">>, <<"G", "B">> >>
        /\ Bayer[2] = << <<"B", "G">>, <<"G", "R">> >>
        /\ Bayer[3] = << <<"G", "B">>, <<"R", "G">> >>
    BY DEF Bayer
  <1> QED BY <1>1 DEF PhaseOfFlips

\* Without --shift every pixel of an image that is opened as its tag says has
\* the colour of the sensor in its row and column, for images of every even
\* size and all four ways to read the sensor out.
THEOREM ColoursOfSensor == MosaicSpec => []SensorColours
  <1>1. MosaicInv => SensorColours
    <2> SUFFICES ASSUME MosaicInv, phase = "opened", turns = 0, bayerShift = -1,
                        NEW row \in 0..(simpleImage.h - 1),
                        NEW col \in 0..(simpleImage.w - 1)
                 PROVE  Colour(row, col) = Bayer[0][(row % 2) + 1][(col % 2) + 1]
      BY DEF SensorColours
    <2> DEFINE w == size[1]
               h == size[2]
               R == Shown(flip_ver, h, row)
               C == Shown(flip_hor, w, col)
    <2>1. /\ size \in Sizes /\ flip_hor \in 0..1 /\ flip_ver \in 0..1
          /\ simpleImage = Rotate(Stored, OrientationOfFlips(flip_hor, flip_ver))
      BY DEF MosaicInv, MosaicTypes, AsTagged, AsFlipped
    <2>2. fCFAPattern = Bayer[PhaseOfFlips(flip_hor, flip_ver)]
      <3>1. -1 \notin DOMAIN Bayer
        BY DEF Bayer
      <3> QED BY <3>1 DEF MosaicInv, AsFlipped, SetBayerMosaic
    <2>3. /\ Stored \in Images /\ Stored.w = w /\ Stored.h = h
          /\ w \in Nat /\ w > 0 /\ w % 2 = 0 /\ h \in Nat /\ h > 0 /\ h % 2 = 0
      BY <2>1, StoredIs DEF Stored, Fresh
    <2>4. simpleImage.w = w /\ simpleImage.h = h
      BY <2>1, <2>3, FlipsOrient, RotateIs
    <2>5. row \in 0..(h - 1) /\ col \in 0..(w - 1) /\ row \in Nat /\ col \in Nat
      BY <2>3, <2>4
    <2>6. Pixel(simpleImage, row, col) = R * w + C
      BY <2>1, <2>5, FlippedPixel
    <2>7. /\ R \in 0..(h - 1) /\ C \in 0..(w - 1)
          /\ R % 2 = IF flip_ver = 1 THEN 1 - (row % 2) ELSE row % 2
          /\ C % 2 = IF flip_hor = 1 THEN 1 - (col % 2) ELSE col % 2
      BY <2>1, <2>3, <2>5, ShownIs
    <2> HIDE DEF w, h, R, C
    <2>8. (R * w + C) \div w = R /\ (R * w + C) % w = C
      <3>1. R \in Nat
        BY <2>3, <2>7
      <3> QED BY <2>3, <2>7, <3>1, RowAndColumn
    <2>9. Colour(row, col) = fCFAPattern[(R % 2) + 1][(C % 2) + 1]
      BY <2>6, <2>8 DEF Colour, w
    <2>10. row % 2 \in 0..1 /\ col % 2 \in 0..1
      BY <2>5
    <2> HIDE DEF MosaicInv
    <2> QED BY <2>1, <2>2, <2>7, <2>9, <2>10, PatternOfFlips
  <1> QED BY <1>1, MosaicHolds, PTL

-----------------------------------------------------------------------------
(* The tiles of an area. *)

\* Pages of length step, counted from origin.
PageStart(origin, step, page) == origin + page * step
PageAt(x, origin, step) == (x - origin) \div step

\* Along one axis: the stretch from a to b meets the pages first to last.
PagesMeet(a, b, origin, step, first, last) ==
  /\ a < b /\ step > 0 /\ first <= last
  /\ PageStart(origin, step, first) <= a
  /\ a < PageStart(origin, step, first) + step
  /\ PageStart(origin, step, last) < b
  /\ b <= PageStart(origin, step, last) + step

\* Where the part of the stretch that lies on a page begins and where it ends.
PageFrom(a, origin, step, first, page) ==
  IF page > first THEN PageStart(origin, step, page) ELSE a
PageTo(b, origin, step, last, page) ==
  IF page < last THEN PageStart(origin, step, page) + step ELSE b

Iterators ==
  [area : Rectangles, tileHeight : Nat, tileWidth : Nat,
   leftPage : Nat, rightPage : Nat, topPage : Nat, bottomPage : Nat,
   horizontalPage : Nat, verticalPage : Nat,
   tileTop : Int, tileLeft : Int, rowLeft : Int]

\* An iterator over the lines of the pattern, at one of its tiles or past them.
IteratorGood(it, pattern) ==
  /\ it \in Iterators
  /\ it.tileHeight = pattern.b - pattern.t
  /\ it.tileWidth = pattern.r - pattern.l
  /\ PagesMeet(it.area.t, it.area.b, pattern.t, it.tileHeight, it.topPage,
               it.bottomPage)
  /\ PagesMeet(it.area.l, it.area.r, pattern.l, it.tileWidth, it.leftPage,
               it.rightPage)
  /\ it.topPage <= it.verticalPage
  /\ it.leftPage <= it.horizontalPage /\ it.horizontalPage <= it.rightPage
  /\ it.tileTop = PageStart(pattern.t, it.tileHeight, it.verticalPage)
  /\ it.tileLeft = PageStart(pattern.l, it.tileWidth, it.horizontalPage)
  /\ it.rowLeft = PageStart(pattern.l, it.tileWidth, it.leftPage)

\* The pixels an iterator has still to deliver.
Ahead(it) ==
  {x \in Pixels(it.area) :
     /\ HasTile(it)
     /\ \/ x[1] >= OneTile(it).b
        \/ x[1] >= OneTile(it).t /\ x[2] >= OneTile(it).l}

Inside(small, large) ==
  /\ large.t <= small.t /\ small.b <= large.b
  /\ large.l <= small.l /\ small.r <= large.r

\* The lines that the loop at a level cuts its area along.
Pattern(level, whole) ==
  IF level < 4 THEN RepeatingTile(4 - level)
  ELSE Rect(whole.t, whole.l, Smaller(whole.b, whole.t + tileSize.v),
            Smaller(whole.r, whole.l + tileSize.h))

\* No line of the repeating tile crosses the rectangle.
OneCell(rect, rep) ==
  /\ PageAt(rect.t, rep.t, Height(rep)) = PageAt(rect.b - 1, rep.t, Height(rep))
  /\ PageAt(rect.l, rep.l, Width(rep)) = PageAt(rect.r - 1, rep.l, Width(rep))

BeginsCell(x, cell) == x % cell = 0
Whole(rect) == /\ BeginsCell(rect.t, unit.v) /\ BeginsCell(rect.b, unit.v)
               /\ BeginsCell(rect.l, unit.h) /\ BeginsCell(rect.r, unit.h)
AllWhole == Whole(area) /\ \A k \in 1..3 : Whole(RepeatingTile(k))

AreaTypes ==
  /\ area \in Areas /\ repeats \in Repeats
  /\ unit \in Units /\ maxTile \in MaxTiles
  /\ tileSize = FindTileSize
  /\ iters \in Seq(Iterators) /\ Len(iters) <= 4
  /\ tiles \in Seq(Rectangles)

\* Each loop runs over a tile of the loop around it, so that its area lies in
\* one cell of every pattern of the loops around it.
LoopGood(k, it) ==
  /\ IteratorGood(it, Pattern(k, it.area))
  /\ Inside(it.area, area)
  /\ \A j \in 1..(k - 1) : OneCell(it.area, RepeatingTile(4 - j))
  /\ AllWhole => Whole(it.area)

Loops == \A k \in 1..Len(iters) : LoopGood(k, iters[k])

\* What the loops have still to deliver and what was processed are apart, and
\* they are the area together.
Partition ==
  /\ \A j, k \in 1..Len(iters) :
       j # k => Ahead(iters[j]) \cap Ahead(iters[k]) = {}
  /\ \A n \in 1..Len(tiles), k \in 1..Len(iters) :
       Pixels(tiles[n]) \cap Ahead(iters[k]) = {}
  /\ \A m, n \in 1..Len(tiles) :
       m # n => Pixels(tiles[m]) \cap Pixels(tiles[n]) = {}
  /\ \A x \in Pixels(area) :
       \/ \E k \in 1..Len(iters) : x \in Ahead(iters[k])
       \/ \E n \in 1..Len(tiles) : x \in Pixels(tiles[n])

TileGood(tile) ==
  /\ ~IsEmpty(tile) /\ Inside(tile, area)
  /\ \A k \in 1..3 : OneCell(tile, RepeatingTile(k))
  /\ Height(tile) <= tileSize.v /\ Width(tile) <= tileSize.h
  /\ AllWhole => Whole(tile)

AreaInv ==
  /\ AreaTypes /\ Loops /\ Partition
  /\ \A n \in 1..Len(tiles) : TileGood(tiles[n])

-----------------------------------------------------------------------------
(* Along one axis. *)

\* Counting pages: a whole number of steps, and less than one step more.
LEMMA CountedPages ==
  ASSUME NEW x \in Nat, NEW step \in Nat, step > 0
  PROVE  /\ x \div step \in Nat
         /\ (x \div step) * step <= x /\ x < (x \div step) * step + step
  <1> DEFINE q == x \div step
             m == x % step
  <1>1. q \in Int /\ m \in 0..(step - 1) /\ x = step * q + m
    OBVIOUS
  <1> HIDE DEF q, m
  <1>2. q >= 0
    <2> SUFFICES ASSUME q < 0
                 PROVE  FALSE
      BY <1>1
    <2>1. PICK k \in Nat : q = -1 - k
      <3>1. -1 - q \in Nat /\ q = -1 - (-1 - q)
        BY <1>1
      <3> QED BY <3>1
    <2>2. step * q = -step - step * k /\ step * k >= 0
      BY <2>1
    <2> QED BY <1>1, <2>2
  <1>3. step * q = q * step /\ q * step \in Nat
    BY <1>1, <1>2
  <1> QED BY <1>1, <1>2, <1>3 DEF q

LEMMA MorePages ==
  ASSUME NEW step \in Nat, NEW p \in Nat, NEW q \in Nat, p < q
  PROVE  q * step >= p * step + step
  <1>1. PICK k \in Nat : q = p + 1 + k
    <2>1. q - p - 1 \in Nat /\ q = p + 1 + (q - p - 1)
      OBVIOUS
    <2> QED BY <2>1
  <1>2. q * step = p * step + step + k * step /\ k * step >= 0
    BY <1>1
  <1> QED BY <1>2

LEMMA PagesOf ==
  ASSUME NEW a \in Int, NEW b \in Int, NEW origin \in Int, NEW step \in Nat,
         step > 0, origin <= a, a < b
  PROVE  LET first == Quotient(a - origin, step)
             last  == Quotient(b - origin - 1, step)
         IN  /\ first \in Nat /\ last \in Nat
             /\ PagesMeet(a, b, origin, step, first, last)
  <1> DEFINE first == (a - origin) \div step
             last == (b - origin - 1) \div step
  <1>1. /\ a - origin \in Nat /\ b - origin - 1 \in Nat
        /\ Quotient(a - origin, step) = first
        /\ Quotient(b - origin - 1, step) = last
    BY DEF Quotient
  <1>2. /\ first \in Nat /\ last \in Nat
        /\ first * step <= a - origin /\ a - origin < first * step + step
        /\ last * step <= b - origin - 1 /\ b - origin - 1 < last * step + step
    BY <1>1, CountedPages
  <1> HIDE DEF first, last
  <1>3. first * step \in Nat /\ last * step \in Nat
    BY <1>2
  <1>4. first <= last
    <2> SUFFICES ASSUME last < first
                 PROVE  FALSE
      BY <1>2
    <2> QED BY <1>2, <1>3, MorePages
  <1>5. PagesMeet(a, b, origin, step, first, last)
    BY <1>2, <1>3, <1>4 DEF PagesMeet, PageStart
  <1> QED BY <1>1, <1>2, <1>5

\* The part on a page is not empty, and lies in the stretch and on the page.
LEMMA PagePartIs ==
  ASSUME NEW a \in Int, NEW b \in Int, NEW origin \in Int, NEW step \in Nat,
         NEW first \in Nat, NEW last \in Nat,
         PagesMeet(a, b, origin, step, first, last),
         NEW page \in Nat, first <= page, page <= last
  PROVE  LET from == PageFrom(a, origin, step, first, page)
             to   == PageTo(b, origin, step, last, page)
         IN  /\ from \in Int /\ to \in Int
             /\ a <= from /\ from < to /\ to <= b
             /\ PageStart(origin, step, page) <= from
             /\ to <= PageStart(origin, step, page) + step
  <1>1. /\ first * step \in Nat /\ last * step \in Nat /\ page * step \in Nat
        /\ (page + 1) * step = page * step + step
    OBVIOUS
  <1>2. page > first => page * step >= first * step + step
    BY MorePages
  <1>3. page < last => last * step >= page * step + step
    BY MorePages
  <1>4. page = first \/ page > first
    OBVIOUS
  <1>5. page = last \/ page < last
    OBVIOUS
  <1> QED BY <1>1, <1>2, <1>3, <1>4, <1>5 DEF PagesMeet, PageFrom, PageTo, PageStart

LEMMA PageStarts ==
  ASSUME NEW origin \in Int, NEW step \in Nat, NEW page \in Nat
  PROVE  /\ PageStart(origin, step, page) \in Int
         /\ PageStart(origin, step, page) >= origin
         /\ PageStart(origin, step, page + 1) = PageStart(origin, step, page) + step
  <1>1. page * step \in Nat /\ (page + 1) * step = page * step + step
    OBVIOUS
  <1> QED BY <1>1 DEF PageStart

\* A stretch of one page is in one page.
LEMMA OnOnePage ==
  ASSUME NEW origin \in Int, NEW step \in Nat, NEW page \in Nat,
         NEW from \in Int, NEW to \in Int, from < to,
         PageStart(origin, step, page) <= from,
         to <= PageStart(origin, step, page) + step
  PROVE  PageAt(from, origin, step) = page /\ PageAt(to - 1, origin, step) = page
  <1> DEFINE c == from - origin - page * step
             d == to - 1 - origin - page * step
  <1>1. page * step \in Nat
    OBVIOUS
  <1>2. step > 0 /\ c \in 0..(step - 1) /\ d \in 0..(step - 1)
    BY <1>1 DEF PageStart
  <1>3. from - origin = page * step + c /\ to - 1 - origin = page * step + d
    BY <1>1
  <1> HIDE DEF c, d
  <1> QED BY <1>2, <1>3, RowAndColumn DEF PageAt

\* A part of a stretch that lies in one page lies in one page.
LEMMA PartOnOnePage ==
  ASSUME NEW origin \in Int, NEW step \in Nat, step > 0,
         NEW a \in Int, NEW b \in Int, origin <= a,
         PageAt(a, origin, step) = PageAt(b - 1, origin, step),
         NEW from \in Int, NEW to \in Int, a <= from, from < to, to <= b
  PROVE  PageAt(from, origin, step) = PageAt(to - 1, origin, step)
  <1> DEFINE page == PageAt(a, origin, step)
  <1>1. a - origin \in Nat /\ b - 1 - origin \in Nat
    OBVIOUS
  <1>2. /\ page \in Nat
        /\ page * step <= a - origin
        /\ b - 1 - origin < page * step + step
    BY <1>1, CountedPages DEF PageAt
  <1> HIDE DEF page
  <1>3. page * step \in Nat
    BY <1>2
  <1>4. /\ PageStart(origin, step, page) <= from
        /\ to <= PageStart(origin, step, page) + step
    BY <1>2, <1>3 DEF PageStart
  <1> QED BY <1>2, <1>4, OnOnePage

-----------------------------------------------------------------------------
(* One iterator. *)

\* The tile an iterator is at: a part of its area on one page.
LEMMA OneTileIs ==
  ASSUME NEW pattern \in Rectangles, NEW it, IteratorGood(it, pattern),
         HasTile(it)
  PROVE  LET tile == OneTile(it)
         IN  /\ tile = Rect(PageFrom(it.area.t, pattern.t, it.tileHeight,
                                     it.topPage, it.verticalPage),
                            PageFrom(it.area.l, pattern.l, it.tileWidth,
                                     it.leftPage, it.horizontalPage),
                            PageTo(it.area.b, pattern.t, it.tileHeight,
                                   it.bottomPage, it.verticalPage),
                            PageTo(it.area.r, pattern.l, it.tileWidth,
                                   it.rightPage, it.horizontalPage))
             /\ tile \in Rectangles /\ ~IsEmpty(tile) /\ Inside(tile, it.area)
             /\ PageStart(pattern.t, it.tileHeight, it.verticalPage) <= tile.t
             /\ tile.b <= PageStart(pattern.t, it.tileHeight, it.verticalPage) + it.tileHeight
             /\ PageStart(pattern.l, it.tileWidth, it.horizontalPage) <= tile.l
             /\ tile.r <= PageStart(pattern.l, it.tileWidth, it.horizontalPage) + it.tileWidth
  <1> DEFINE V == it.verticalPage
             H == it.horizontalPage
             top    == PageFrom(it.area.t, pattern.t, it.tileHeight, it.topPage, V)
             left   == PageFrom(it.area.l, pattern.l, it.tileWidth, it.leftPage, H)
             bottom == PageTo(it.area.b, pattern.t, it.tileHeight, it.bottomPage, V)
             right  == PageTo(it.area.r, pattern.l, it.tileWidth, it.rightPage, H)
  <1>1. /\ it.area.t \in Int /\ it.area.l \in Int
        /\ it.area.b \in Int /\ it.area.r \in Int
        /\ pattern.t \in Int /\ pattern.l \in Int
        /\ it.tileHeight \in Nat /\ it.tileWidth \in Nat
        /\ it.topPage \in Nat /\ it.bottomPage \in Nat
        /\ it.leftPage \in Nat /\ it.rightPage \in Nat /\ V \in Nat /\ H \in Nat
    BY DEF IteratorGood, Iterators, Rectangles
  <1>2. /\ it.topPage <= V /\ V <= it.bottomPage
        /\ it.leftPage <= H /\ H <= it.rightPage
        /\ PagesMeet(it.area.t, it.area.b, pattern.t, it.tileHeight, it.topPage,
                     it.bottomPage)
        /\ PagesMeet(it.area.l, it.area.r, pattern.l, it.tileWidth, it.leftPage,
                     it.rightPage)
        /\ it.tileTop = PageStart(pattern.t, it.tileHeight, V)
        /\ it.tileLeft = PageStart(pattern.l, it.tileWidth, H)
    BY DEF IteratorGood, HasTile
  <1>3. OneTile(it) = Rect(top, left, bottom, right)
    BY <1>2 DEF OneTile, PageFrom, PageTo
  <1> HIDE DEF top, left, bottom, right
  <1>4. /\ top \in Int /\ bottom \in Int
        /\ it.area.t <= top /\ top < bottom /\ bottom <= it.area.b
        /\ PageStart(pattern.t, it.tileHeight, V) <= top
        /\ bottom <= PageStart(pattern.t, it.tileHeight, V) + it.tileHeight
    <2> HIDE DEF V, H
    <2>1. /\ it.area.t \in Int /\ it.area.b \in Int /\ pattern.t \in Int
          /\ it.tileHeight \in Nat /\ it.topPage \in Nat
          /\ it.bottomPage \in Nat /\ V \in Nat
          /\ PagesMeet(it.area.t, it.area.b, pattern.t, it.tileHeight,
                       it.topPage, it.bottomPage)
          /\ it.topPage <= V /\ V <= it.bottomPage
      BY <1>1, <1>2
    <2> QED BY <2>1, PagePartIs DEF top, bottom
  <1>5. /\ left \in Int /\ right \in Int
        /\ it.area.l <= left /\ left < right /\ right <= it.area.r
        /\ PageStart(pattern.l, it.tileWidth, H) <= left
        /\ right <= PageStart(pattern.l, it.tileWidth, H) + it.tileWidth
    <2> HIDE DEF V, H
    <2>1. /\ it.area.l \in Int /\ it.area.r \in Int /\ pattern.l \in Int
          /\ it.tileWidth \in Nat /\ it.leftPage \in Nat
          /\ it.rightPage \in Nat /\ H \in Nat
          /\ PagesMeet(it.area.l, it.area.r, pattern.l, it.tileWidth,
                       it.leftPage, it.rightPage)
          /\ it.leftPage <= H /\ H <= it.rightPage
      BY <1>1, <1>2
    <2> QED BY <2>1, PagePartIs DEF left, right
  <1>6. /\ OneTile(it).t = top /\ OneTile(it).l = left
        /\ OneTile(it).b = bottom /\ OneTile(it).r = right
        /\ OneTile(it) \in Rectangles
    BY <1>3, <1>4, <1>5 DEF Rect, Rectangles
  <1>7. ~IsEmpty(OneTile(it)) /\ Inside(OneTile(it), it.area)
    BY <1>4, <1>5, <1>6 DEF IsEmpty, Inside
  <1> QED BY <1>3, <1>4, <1>5, <1>6, <1>7 DEF top, left, bottom, right

\* An iterator that starts has its whole area ahead.
LEMMA Starts ==
  ASSUME NEW pattern \in Rectangles, ~IsEmpty(pattern),
         NEW whole \in Rectangles, ~IsEmpty(whole),
         pattern.t <= whole.t, pattern.l <= whole.l
  PROVE  LET it == Initialize(pattern, whole)
         IN  /\ IteratorGood(it, pattern) /\ it.area = whole
             /\ Ahead(it) = Pixels(whole)
  <1> DEFINE it == Initialize(pattern, whole)
             height == pattern.b - pattern.t
             width  == pattern.r - pattern.l
             left   == Quotient(whole.l - pattern.l, width)
             right  == Quotient(whole.r - pattern.l - 1, width)
             top    == Quotient(whole.t - pattern.t, height)
             bottom == Quotient(whole.b - pattern.t - 1, height)
  <1>1. /\ whole.t \in Int /\ whole.l \in Int /\ whole.b \in Int /\ whole.r \in Int
        /\ pattern.t \in Int /\ pattern.l \in Int
        /\ pattern.b \in Int /\ pattern.r \in Int
        /\ height \in Nat /\ width \in Nat /\ height > 0 /\ width > 0
        /\ whole.t < whole.b /\ whole.l < whole.r
    BY DEF Rectangles, IsEmpty
  <1>2. it = [area |-> whole, tileHeight |-> height, tileWidth |-> width,
              leftPage |-> left, rightPage |-> right, topPage |-> top,
              bottomPage |-> bottom, horizontalPage |-> left,
              verticalPage |-> top, tileTop |-> top * height + pattern.t,
              tileLeft |-> left * width + pattern.l,
              rowLeft |-> left * width + pattern.l]
    BY DEF Initialize
  <1> HIDE DEF it, height, width
  <1>3. /\ top \in Nat /\ bottom \in Nat
        /\ PagesMeet(whole.t, whole.b, pattern.t, height, top, bottom)
    BY <1>1, PagesOf
  <1>4. /\ left \in Nat /\ right \in Nat
        /\ PagesMeet(whole.l, whole.r, pattern.l, width, left, right)
    BY <1>1, PagesOf
  <1> HIDE DEF top, bottom, left, right
  <1>5. top * height \in Nat /\ left * width \in Nat
    BY <1>1, <1>3, <1>4
  <1>6. it \in Iterators
    BY <1>1, <1>2, <1>3, <1>4, <1>5 DEF Iterators
  <1>7. /\ it.area = whole /\ it.tileHeight = height /\ it.tileWidth = width
        /\ it.leftPage = left /\ it.rightPage = right /\ it.topPage = top
        /\ it.bottomPage = bottom /\ it.horizontalPage = left
        /\ it.verticalPage = top /\ it.tileTop = PageStart(pattern.t, height, top)
        /\ it.tileLeft = PageStart(pattern.l, width, left)
        /\ it.rowLeft = PageStart(pattern.l, width, left)
    BY <1>1, <1>2, <1>5 DEF PageStart
  <1>8. top <= bottom /\ left <= right
    BY <1>3, <1>4 DEF PagesMeet
  <1>9. IteratorGood(it, pattern)
    BY <1>3, <1>4, <1>6, <1>7, <1>8 DEF IteratorGood, height, width
  <1>10. HasTile(it)
    BY <1>7, <1>8 DEF HasTile
  <1>11. OneTile(it).t = whole.t /\ OneTile(it).l = whole.l
    BY <1>3, <1>4, <1>7 DEF OneTile, Rect
  <1>12. Ahead(it) = Pixels(whole)
    <2>1. \A x \in Pixels(whole) : x[1] >= whole.t /\ x[2] >= whole.l
      BY <1>1 DEF Pixels
    <2> QED BY <1>7, <1>10, <1>11, <2>1 DEF Ahead
  <1> QED BY <1>7, <1>9, <1>12 DEF it

\* An iterator delivers what is ahead tile by tile.
LEMMA Delivers ==
  ASSUME NEW pattern \in Rectangles, NEW it, IteratorGood(it, pattern),
         HasTile(it)
  PROVE  /\ IteratorGood(Advance(it), pattern) /\ Advance(it).area = it.area
         /\ Ahead(it) = Pixels(OneTile(it)) \cup Ahead(Advance(it))
         /\ Pixels(OneTile(it)) \cap Ahead(Advance(it)) = {}
  <1> DEFINE next == Advance(it)
             V == it.verticalPage
             H == it.horizontalPage
             tile == OneTile(it)
             tile2 == OneTile(next)
  <1>1. /\ it.area.t \in Int /\ it.area.l \in Int
        /\ it.area.b \in Int /\ it.area.r \in Int
        /\ pattern.t \in Int /\ pattern.l \in Int
        /\ it.tileHeight \in Nat /\ it.tileWidth \in Nat
        /\ it.topPage \in Nat /\ it.bottomPage \in Nat
        /\ it.leftPage \in Nat /\ it.rightPage \in Nat /\ V \in Nat /\ H \in Nat
    BY DEF IteratorGood, Iterators, Rectangles
  <1>2. /\ it.topPage <= V /\ V <= it.bottomPage
        /\ it.leftPage <= H /\ H <= it.rightPage
        /\ PagesMeet(it.area.t, it.area.b, pattern.t, it.tileHeight, it.topPage,
                     it.bottomPage)
        /\ PagesMeet(it.area.l, it.area.r, pattern.l, it.tileWidth, it.leftPage,
                     it.rightPage)
    BY DEF IteratorGood, HasTile
  <1>3. /\ PageStart(pattern.t, it.tileHeight, V + 1)
             = PageStart(pattern.t, it.tileHeight, V) + it.tileHeight
        /\ PageStart(pattern.l, it.tileWidth, H + 1)
             = PageStart(pattern.l, it.tileWidth, H) + it.tileWidth
    BY <1>1, PageStarts
  <1>4. next \in Iterators
    <2>1. /\ it \in Iterators
          /\ it.tileTop + it.tileHeight \in Int /\ it.tileLeft + it.tileWidth \in Int
          /\ H + 1 \in Nat /\ V + 1 \in Nat
      BY <1>1 DEF IteratorGood, Iterators
    <2>2. CASE H < it.rightPage
      BY <2>1, <2>2 DEF Advance, Iterators
    <2>3. CASE ~(H < it.rightPage)
      BY <2>1, <2>3 DEF Advance, Iterators
    <2> QED BY <2>2, <2>3
  <1>5. /\ next.area = it.area
        /\ next.tileHeight = it.tileHeight /\ next.tileWidth = it.tileWidth
        /\ next.leftPage = it.leftPage /\ next.rightPage = it.rightPage
        /\ next.topPage = it.topPage /\ next.bottomPage = it.bottomPage
        /\ next.rowLeft = it.rowLeft
    BY DEF Advance, IteratorGood, Iterators
  <1>6. /\ H < it.rightPage => /\ next.horizontalPage = H + 1
                               /\ next.verticalPage = V
                               /\ next.tileLeft = it.tileLeft + it.tileWidth
                               /\ next.tileTop = it.tileTop
        /\ ~(H < it.rightPage) => /\ next.horizontalPage = it.leftPage
                                  /\ next.verticalPage = V + 1
                                  /\ next.tileLeft = it.rowLeft
                                  /\ next.tileTop = it.tileTop + it.tileHeight
    BY DEF Advance, IteratorGood, Iterators
  <1> HIDE DEF next
  <1>7. IteratorGood(next, pattern)
    <2>1. /\ it.tileHeight = pattern.b - pattern.t
          /\ it.tileWidth = pattern.r - pattern.l
          /\ it.tileTop = PageStart(pattern.t, it.tileHeight, V)
          /\ it.tileLeft = PageStart(pattern.l, it.tileWidth, H)
          /\ it.rowLeft = PageStart(pattern.l, it.tileWidth, it.leftPage)
      BY DEF IteratorGood
    <2>3. CASE H < it.rightPage
      <3>1. /\ next.tileTop = PageStart(pattern.t, next.tileHeight, next.verticalPage)
            /\ next.tileLeft = PageStart(pattern.l, next.tileWidth, next.horizontalPage)
        BY <1>1, <1>3, <1>5, <1>6, <2>1, <2>3
      <3> QED BY <1>1, <1>2, <1>4, <1>5, <1>6, <2>1, <2>3, <3>1 DEF IteratorGood
    <2>4. CASE ~(H < it.rightPage)
      <3>1. /\ next.tileTop = PageStart(pattern.t, next.tileHeight, next.verticalPage)
            /\ next.tileLeft = PageStart(pattern.l, next.tileWidth, next.horizontalPage)
        BY <1>1, <1>3, <1>5, <1>6, <2>1, <2>4
      <3> QED BY <1>1, <1>2, <1>4, <1>5, <1>6, <2>1, <2>4, <3>1 DEF IteratorGood
    <2> QED BY <2>3, <2>4
  <1>8. /\ tile \in Rectangles /\ ~IsEmpty(tile) /\ Inside(tile, it.area)
        /\ tile = Rect(PageFrom(it.area.t, pattern.t, it.tileHeight,
                                it.topPage, V),
                       PageFrom(it.area.l, pattern.l, it.tileWidth,
                                it.leftPage, H),
                       PageTo(it.area.b, pattern.t, it.tileHeight,
                              it.bottomPage, V),
                       PageTo(it.area.r, pattern.l, it.tileWidth,
                              it.rightPage, H))
    BY OneTileIs
  <1>9. HasTile(next) =>
          /\ tile2 \in Rectangles /\ ~IsEmpty(tile2) /\ Inside(tile2, it.area)
          /\ tile2 = Rect(PageFrom(it.area.t, pattern.t, it.tileHeight,
                                   it.topPage, next.verticalPage),
                          PageFrom(it.area.l, pattern.l, it.tileWidth,
                                   it.leftPage, next.horizontalPage),
                          PageTo(it.area.b, pattern.t, it.tileHeight,
                                 it.bottomPage, next.verticalPage),
                          PageTo(it.area.r, pattern.l, it.tileWidth,
                                 it.rightPage, next.horizontalPage))
    BY <1>5, <1>7, OneTileIs
  \* The next tile is the one to the right, or the first one of the row below.
  <1>10. H < it.rightPage =>
           /\ HasTile(next) /\ tile2.t = tile.t /\ tile2.b = tile.b
           /\ tile2.l = tile.r
    <2> SUFFICES ASSUME H < it.rightPage
                 PROVE  /\ HasTile(next) /\ tile2.t = tile.t /\ tile2.b = tile.b
                        /\ tile2.l = tile.r
      OBVIOUS
    <2>1. HasTile(next)
      BY <1>2, <1>5, <1>6 DEF HasTile
    <2>2. PageTo(it.area.r, pattern.l, it.tileWidth, it.rightPage, H)
            = PageFrom(it.area.l, pattern.l, it.tileWidth, it.leftPage, H + 1)
      BY <1>1, <1>2, <1>3 DEF PageTo, PageFrom
    <2> QED BY <1>6, <1>8, <1>9, <2>1, <2>2 DEF Rect
  <1>11. ~(H < it.rightPage) =>
           /\ tile.r = it.area.r
           /\ HasTile(next) => tile2.t = tile.b /\ tile2.l = it.area.l
           /\ ~HasTile(next) => tile.b = it.area.b
    <2> SUFFICES ASSUME ~(H < it.rightPage)
                 PROVE  /\ tile.r = it.area.r
                        /\ HasTile(next) => tile2.t = tile.b /\ tile2.l = it.area.l
                        /\ ~HasTile(next) => tile.b = it.area.b
      OBVIOUS
    <2>1. H = it.rightPage
      BY <1>1, <1>2
    <2>2. tile.r = it.area.r
      BY <1>8, <2>1 DEF PageTo, Rect
    <2>3. ASSUME HasTile(next)
          PROVE  tile2.t = tile.b /\ tile2.l = it.area.l
      <3>1. V < it.bottomPage
        BY <1>1, <1>5, <1>6, <2>3 DEF HasTile
      <3>2. PageTo(it.area.b, pattern.t, it.tileHeight, it.bottomPage, V)
              = PageFrom(it.area.t, pattern.t, it.tileHeight, it.topPage, V + 1)
        BY <1>1, <1>2, <1>3, <3>1 DEF PageTo, PageFrom
      <3>3. PageFrom(it.area.l, pattern.l, it.tileWidth, it.leftPage, it.leftPage)
              = it.area.l
        BY <1>1 DEF PageFrom
      <3> QED BY <1>6, <1>8, <1>9, <2>3, <3>2, <3>3 DEF Rect
    <2>4. ASSUME ~HasTile(next)
          PROVE  tile.b = it.area.b
      <3>1. V = it.bottomPage
        BY <1>1, <1>2, <1>5, <1>6, <2>4 DEF HasTile
      <3> QED BY <1>1, <1>8, <3>1 DEF PageTo, Rect
    <2> QED BY <2>2, <2>3, <2>4
  <1> HIDE DEF tile, tile2
  <1>12. \A x \in Pixels(it.area) :
           /\ x[1] \in Int /\ x[2] \in Int
           /\ it.area.t <= x[1] /\ x[1] < it.area.b
           /\ it.area.l <= x[2] /\ x[2] < it.area.r
    BY <1>1 DEF Pixels
  <1>13. \A x : x \in Pixels(tile) <=>
            /\ x \in Pixels(it.area)
            /\ tile.t <= x[1] /\ x[1] < tile.b /\ tile.l <= x[2] /\ x[2] < tile.r
    <2>1. /\ tile.t \in Int /\ tile.l \in Int /\ tile.b \in Int /\ tile.r \in Int
          /\ it.area.t <= tile.t /\ tile.b <= it.area.b
          /\ it.area.l <= tile.l /\ tile.r <= it.area.r
      BY <1>8 DEF Rectangles, Inside
    <2> QED BY <1>1, <2>1 DEF Pixels
  <1>14. /\ tile.t \in Int /\ tile.l \in Int /\ tile.b \in Int /\ tile.r \in Int
         /\ tile.t < tile.b /\ tile.l < tile.r
    BY <1>8 DEF Rectangles, IsEmpty
  <1>15. HasTile(next) => /\ tile2.t \in Int /\ tile2.b \in Int
                          /\ tile2.t < tile2.b
    BY <1>9 DEF Rectangles, IsEmpty
  <1>16. \A x : x \in Ahead(it) <=>
           /\ x \in Pixels(it.area)
           /\ x[1] >= tile.b \/ (x[1] >= tile.t /\ x[2] >= tile.l)
    BY DEF Ahead, tile
  <1>17. \A x : x \in Ahead(next) <=>
           /\ x \in Pixels(it.area) /\ HasTile(next)
           /\ x[1] >= tile2.b \/ (x[1] >= tile2.t /\ x[2] >= tile2.l)
    BY <1>5 DEF Ahead, tile2
  <1>18. \A x : /\ x \in Ahead(it) <=> x \in Pixels(tile) \/ x \in Ahead(next)
                /\ ~(x \in Pixels(tile) /\ x \in Ahead(next))
    <2> SUFFICES ASSUME NEW x \in Pixels(it.area)
                 PROVE  /\ x \in Ahead(it) <=> x \in Pixels(tile) \/ x \in Ahead(next)
                        /\ ~(x \in Pixels(tile) /\ x \in Ahead(next))
      BY <1>13, <1>16, <1>17
    <2>1. /\ x[1] \in Int /\ x[2] \in Int
          /\ it.area.t <= x[1] /\ x[1] < it.area.b
          /\ it.area.l <= x[2] /\ x[2] < it.area.r
      BY <1>12
    <2>2. CASE H < it.rightPage
      BY <1>10, <1>13, <1>14, <1>16, <1>17, <2>1, <2>2
    <2>3. CASE ~(H < it.rightPage) /\ HasTile(next)
      BY <1>1, <1>11, <1>13, <1>14, <1>15, <1>16, <1>17, <2>1, <2>3
    <2>4. CASE ~(H < it.rightPage) /\ ~HasTile(next)
      BY <1>1, <1>11, <1>13, <1>14, <1>16, <1>17, <2>1, <2>4
    <2> QED BY <2>2, <2>3, <2>4
  <1>19. /\ Ahead(it) = Pixels(tile) \cup Ahead(next)
         /\ Pixels(tile) \cap Ahead(next) = {}
    BY <1>18
  <1> QED BY <1>5, <1>7, <1>19 DEF next, tile

-----------------------------------------------------------------------------
(* Whole cells. *)

LEMMA MultipleIs ==
  ASSUME NEW cell \in Nat, cell > 0, NEW k \in Int
  PROVE  (k * cell) % cell = 0
  <1> DEFINE q == (k * cell) \div cell
             m == (k * cell) % cell
  <1>1. q \in Int /\ m \in 0..(cell - 1) /\ k * cell = cell * q + m
    OBVIOUS
  <1> HIDE DEF q, m
  <1>2. ~(k < q)
    <2> SUFFICES ASSUME k < q
                 PROVE  FALSE
      OBVIOUS
    <2>1. PICK d \in Nat : q = k + 1 + d
      <3>1. q - k - 1 \in Nat /\ q = k + 1 + (q - k - 1)
        BY <1>1
      <3> QED BY <3>1
    <2>2. cell * q = k * cell + cell + cell * d /\ cell * d >= 0
      BY <2>1
    <2> QED BY <1>1, <2>2
  <1>3. ~(q < k)
    <2> SUFFICES ASSUME q < k
                 PROVE  FALSE
      OBVIOUS
    <2>1. PICK d \in Nat : k = q + 1 + d
      <3>1. k - q - 1 \in Nat /\ k = q + 1 + (k - q - 1)
        BY <1>1
      <3> QED BY <3>1
    <2>2. k * cell = cell * q + cell + cell * d /\ cell * d >= 0
      BY <1>1, <2>1
    <2> QED BY <1>1, <2>2
  <1>4. k = q
    BY <1>1, <1>2, <1>3
  <1>5. m = 0
    BY <1>1, <1>4
  <1> QED BY <1>5 DEF m

LEMMA CellsOf ==
  ASSUME NEW cell \in Nat, cell > 0, NEW x \in Int, x % cell = 0
  PROVE  \E k \in Int : x = k * cell
  <1> DEFINE q == x \div cell
  <1>1. q \in Int /\ x = cell * q
    OBVIOUS
  <1> HIDE DEF q
  <1>2. x = q * cell
    BY <1>1
  <1> QED BY <1>1, <1>2

\* Lines that lie whole numbers of cells apart begin cells.
LEMMA WholeSum ==
  ASSUME NEW cell \in Nat, cell > 0, NEW x \in Int, NEW y \in Int,
         BeginsCell(x, cell), BeginsCell(y, cell), NEW z, z = x + y \/ z = y - x
  PROVE  BeginsCell(z, cell)
  <1>1. PICK j \in Int : x = j * cell
    BY CellsOf DEF BeginsCell
  <1>2. PICK k \in Int : y = k * cell
    BY CellsOf DEF BeginsCell
  <1>3. /\ x + y = (j + k) * cell /\ y - x = (k - j) * cell
        /\ j + k \in Int /\ k - j \in Int
    BY <1>1, <1>2
  <1>4. BeginsCell(x + y, cell) /\ BeginsCell(y - x, cell)
    BY <1>3, MultipleIs DEF BeginsCell
  <1> QED BY <1>4

LEMMA WholePages ==
  ASSUME NEW cell \in Nat, cell > 0, NEW x \in Int, NEW y \in Int,
         BeginsCell(x, cell), BeginsCell(y, cell), NEW page \in Nat
  PROVE  BeginsCell(PageStart(x, y, page), cell)
  <1>1. PICK j \in Int : x = j * cell
    BY CellsOf DEF BeginsCell
  <1>2. PICK k \in Int : y = k * cell
    BY CellsOf DEF BeginsCell
  <1>3. page * (k * cell) = (page * k) * cell /\ page * k \in Int
    OBVIOUS
  <1>4. x + page * y = (j + page * k) * cell /\ j + page * k \in Int
    BY <1>1, <1>2, <1>3
  <1> QED BY <1>4, MultipleIs DEF BeginsCell, PageStart

\* The size that FindTileSize chooses along one axis.
LEMMA AxisSizeIs ==
  ASSUME NEW repeat \in Nat, repeat > 0, NEW largest \in Nat,
         NEW cell \in Nat, cell > 0, cell <= largest
  PROVE  /\ AxisSize(repeat, largest, cell) \in 1..largest
         /\ BeginsCell(AxisSize(repeat, largest, cell), cell)
  <1> DEFINE first == Smaller(largest, repeat)
             parts == (repeat + first - 1) \div first
             part  == (repeat + parts - 1) \div parts
             cells == (part + cell - 1) \div cell
             fit   == largest \div cell
  <1>1. first \in Nat /\ first > 0 /\ first <= repeat
    BY DEF Smaller
  <1> HIDE DEF first
  <1>2. parts \in Nat /\ parts > 0
    <2>1. repeat + first - 1 \in Nat /\ repeat + first - 1 >= first
      BY <1>1
    <2>2. parts \in Nat /\ repeat + first - 1 < parts * first + first
      BY <1>1, <2>1, CountedPages
    <2> HIDE DEF parts
    <2>3. parts = 0 => parts * first = 0
      BY <1>1
    <2> QED BY <1>1, <2>1, <2>2, <2>3
  <1> HIDE DEF parts
  <1>3. part \in Nat /\ part > 0
    <2>1. repeat + parts - 1 \in Nat /\ repeat + parts - 1 >= parts
      BY <1>2
    <2>2. part \in Nat /\ repeat + parts - 1 < part * parts + parts
      BY <1>2, <2>1, CountedPages
    <2> HIDE DEF part
    <2>3. part = 0 => part * parts = 0
      BY <1>2
    <2> QED BY <1>2, <2>1, <2>2, <2>3
  <1> HIDE DEF part
  <1>4. cells \in Nat /\ cells > 0
    <2>1. part + cell - 1 \in Nat /\ part + cell - 1 >= cell
      BY <1>3
    <2>2. cells \in Nat /\ part + cell - 1 < cells * cell + cell
      BY <2>1, CountedPages
    <2> HIDE DEF cells
    <2>3. cells = 0 => cells * cell = 0
      OBVIOUS
    <2> QED BY <2>1, <2>2, <2>3
  <1> HIDE DEF cells
  <1>5. fit \in Nat /\ fit > 0 /\ fit * cell <= largest
    <2>1. fit \in Nat /\ fit * cell <= largest /\ largest < fit * cell + cell
      BY CountedPages
    <2> HIDE DEF fit
    <2>2. fit = 0 => fit * cell = 0
      OBVIOUS
    <2> QED BY <2>1, <2>2
  <1> HIDE DEF fit
  <1>6. /\ cells * cell \in Nat /\ cells * cell > 0
        /\ fit * cell \in Nat /\ fit * cell > 0
    BY <1>4, <1>5
  <1>7. AxisSize(repeat, largest, cell)
          = IF cells * cell > largest THEN fit * cell ELSE cells * cell
    BY DEF AxisSize, first, parts, part, cells, fit
  <1>8. BeginsCell(cells * cell, cell) /\ BeginsCell(fit * cell, cell)
    BY <1>4, <1>5, MultipleIs DEF BeginsCell
  <1> QED BY <1>5, <1>6, <1>7, <1>8

LEMMA RepeatingTileIs ==
  ASSUME AreaTypes, NEW k \in 1..3
  PROVE  /\ area \in Rectangles /\ ~IsEmpty(area)
         /\ RepeatingTile(k) \in Rectangles /\ ~IsEmpty(RepeatingTile(k))
         /\ RepeatingTile(k).t <= area.t /\ RepeatingTile(k).l <= area.l
         /\ Height(RepeatingTile(k)) = RepeatingTile(k).b - RepeatingTile(k).t
         /\ Width(RepeatingTile(k)) = RepeatingTile(k).r - RepeatingTile(k).l
         /\ Height(RepeatingTile(k)) \in Nat \ {0}
         /\ Width(RepeatingTile(k)) \in Nat \ {0}
  <1>1. /\ area \in Rectangles /\ ~IsEmpty(area) /\ repeats[k] \in Rectangles
        /\ IsEmpty(repeats[k]) \/ (repeats[k].t <= area.t /\ repeats[k].l <= area.l)
    BY AreaTaskAssumption DEF AreaTypes
  <1>2. area.t <= area.t /\ area.l <= area.l
    BY <1>1 DEF Rectangles
  <1>3. /\ RepeatingTile(k) \in Rectangles /\ ~IsEmpty(RepeatingTile(k))
        /\ RepeatingTile(k).t <= area.t /\ RepeatingTile(k).l <= area.l
    BY <1>1, <1>2 DEF RepeatingTile
  <1> DEFINE rep == RepeatingTile(k)
  <1> HIDE DEF rep
  <1>4. /\ rep.t \in Int /\ rep.b \in Int /\ rep.l \in Int /\ rep.r \in Int
        /\ rep.t < rep.b /\ rep.l < rep.r
    BY <1>3 DEF rep, Rectangles, IsEmpty
  <1>5. /\ Height(rep) = rep.b - rep.t /\ Width(rep) = rep.r - rep.l
        /\ Height(rep) \in Nat \ {0} /\ Width(rep) \in Nat \ {0}
    BY <1>4 DEF Height, Width
  <1> QED BY <1>1, <1>3, <1>5 DEF rep

LEMMA TileSizeIs ==
  ASSUME AreaTypes
  PROVE  /\ unit.v \in Nat \ {0} /\ unit.h \in Nat \ {0}
         /\ maxTile.v \in Nat /\ maxTile.h \in Nat
         /\ tileSize.v \in 1..maxTile.v /\ tileSize.h \in 1..maxTile.h
         /\ BeginsCell(tileSize.v, unit.v) /\ BeginsCell(tileSize.h, unit.h)
  <1>1. /\ unit.v \in Nat \ {0} /\ unit.h \in Nat \ {0}
        /\ maxTile.v \in Nat /\ maxTile.h \in Nat
        /\ unit.v <= maxTile.v /\ unit.h <= maxTile.h
    BY AreaTaskAssumption DEF AreaTypes
  <1> DEFINE v == Smaller(Smaller(Height(RepeatingTile(1)), Height(RepeatingTile(2))),
                          Height(RepeatingTile(3)))
             h == Smaller(Smaller(Width(RepeatingTile(1)), Width(RepeatingTile(2))),
                          Width(RepeatingTile(3)))
  <1>2. \A k \in 1..3 : /\ Height(RepeatingTile(k)) \in Nat \ {0}
                        /\ Width(RepeatingTile(k)) \in Nat \ {0}
    BY RepeatingTileIs
  <1>3. v \in Nat /\ v > 0 /\ h \in Nat /\ h > 0
    BY <1>2 DEF Smaller
  <1>4. /\ tileSize.v = AxisSize(v, maxTile.v, unit.v)
        /\ tileSize.h = AxisSize(h, maxTile.h, unit.h)
    BY DEF AreaTypes, FindTileSize
  <1> HIDE DEF v, h
  <1>5. unit.v > 0 /\ unit.h > 0
    BY <1>1
  <1>6. tileSize.v \in 1..maxTile.v /\ BeginsCell(tileSize.v, unit.v)
    BY <1>1, <1>3, <1>4, <1>5, AxisSizeIs
  <1>7. tileSize.h \in 1..maxTile.h /\ BeginsCell(tileSize.h, unit.h)
    BY <1>1, <1>3, <1>4, <1>5, AxisSizeIs
  <1> QED BY <1>1, <1>6, <1>7

-----------------------------------------------------------------------------
(* The nested loops. *)

\* The lines of a loop, and that the loop starts over them.
LEMMA PatternIs ==
  ASSUME AreaTypes, NEW level \in 1..4,
         NEW whole \in Rectangles, ~IsEmpty(whole), Inside(whole, area)
  PROVE  LET pattern == Pattern(level, whole)
         IN  /\ pattern \in Rectangles /\ ~IsEmpty(pattern)
             /\ pattern.t <= whole.t /\ pattern.l <= whole.l
             /\ LoopOver(level, whole) = Initialize(pattern, whole)
             /\ AllWhole /\ Whole(whole) => Whole(pattern)
             /\ level = 4 => /\ pattern.b - pattern.t <= tileSize.v
                             /\ pattern.r - pattern.l <= tileSize.h
  <1>1. /\ whole.t \in Int /\ whole.l \in Int /\ whole.b \in Int /\ whole.r \in Int
        /\ whole.t < whole.b /\ whole.l < whole.r
    BY DEF Rectangles, IsEmpty
  <1>2. CASE level < 4
    <2>1. /\ level \in 1..3 /\ 4 - level \in 1..3 /\ level # 4
          /\ Pattern(level, whole) = RepeatingTile(4 - level)
      BY <1>2 DEF Pattern
    <2>2. LoopOver(level, whole) = Initialize(Pattern(level, whole), whole)
      BY <1>2, <2>1 DEF LoopOver
    <2> DEFINE rep == RepeatingTile(4 - level)
    <2>3. /\ area \in Rectangles /\ rep \in Rectangles /\ ~IsEmpty(rep)
          /\ rep.t <= area.t /\ rep.l <= area.l
      BY <2>1, RepeatingTileIs
    <2>4. AllWhole => Whole(rep)
      BY <2>1 DEF AllWhole
    <2> HIDE DEF rep
    <2>5. rep.t <= whole.t /\ rep.l <= whole.l
      BY <1>1, <2>3 DEF Rectangles, Inside
    <2> QED BY <2>1, <2>2, <2>3, <2>4, <2>5 DEF rep
  <1>3. CASE level = 4
    <2> DEFINE v == tileSize.v
               h == tileSize.h
               bottom == Smaller(whole.b, whole.t + v)
               right  == Smaller(whole.r, whole.l + h)
    <2>1. /\ v \in Nat /\ h \in Nat /\ v > 0 /\ h > 0
          /\ BeginsCell(v, unit.v) /\ BeginsCell(h, unit.h)
          /\ unit.v \in Nat /\ unit.v > 0 /\ unit.h \in Nat /\ unit.h > 0
      BY TileSizeIs
    <2>2. Pattern(level, whole) = Rect(whole.t, whole.l, bottom, right)
      BY <1>3 DEF Pattern
    <2>3. LoopOver(level, whole) = Initialize(Pattern(level, whole), whole)
      BY <1>3, <2>2 DEF LoopOver, InitializeSize
    <2> HIDE DEF v, h
    <2>4. /\ bottom \in Int /\ whole.t < bottom /\ bottom - whole.t <= v
          /\ right \in Int /\ whole.l < right /\ right - whole.l <= h
      BY <1>1, <2>1 DEF Smaller
    <2>5. AllWhole /\ Whole(whole) => BeginsCell(bottom, unit.v) /\ BeginsCell(right, unit.h)
      <3> SUFFICES ASSUME Whole(whole)
                   PROVE  BeginsCell(bottom, unit.v) /\ BeginsCell(right, unit.h)
        OBVIOUS
      <3>0. BeginsCell(whole.t, unit.v) /\ BeginsCell(whole.l, unit.h)
        BY DEF Whole
      <3>1. BeginsCell(whole.t + v, unit.v) /\ BeginsCell(whole.l + h, unit.h)
        <4>1. BeginsCell(whole.t + v, unit.v)
          BY <1>1, <2>1, <3>0, WholeSum
        <4>2. BeginsCell(whole.l + h, unit.h)
          BY <1>1, <2>1, <3>0, WholeSum
        <4> QED BY <4>1, <4>2
      <3> QED BY <3>1 DEF Smaller, Whole
    <2> HIDE DEF bottom, right
    <2> DEFINE pattern == Pattern(level, whole)
    <2>6. /\ pattern.t = whole.t /\ pattern.l = whole.l
          /\ pattern.b = bottom /\ pattern.r = right
          /\ pattern \in Rectangles
      BY <1>1, <2>2, <2>4 DEF Rect, Rectangles
    <2> HIDE DEF pattern
    <2>7. ~IsEmpty(pattern) /\ (AllWhole /\ Whole(whole) => Whole(pattern))
      BY <1>1, <2>4, <2>5, <2>6 DEF IsEmpty, Whole
    <2>8. /\ pattern.t <= whole.t /\ pattern.l <= whole.l
          /\ pattern.b - pattern.t <= tileSize.v
          /\ pattern.r - pattern.l <= tileSize.h
      BY <1>1, <2>4, <2>6 DEF v, h
    <2> QED BY <2>3, <2>6, <2>7, <2>8 DEF pattern
  <1> QED BY <1>2, <1>3

\* A loop that is begun over a tile.
LEMMA LoopStarts ==
  ASSUME AreaTypes, NEW level \in 1..4,
         NEW whole \in Rectangles, ~IsEmpty(whole), Inside(whole, area),
         \A j \in 1..(level - 1) : OneCell(whole, RepeatingTile(4 - j)),
         AllWhole => Whole(whole)
  PROVE  /\ LoopGood(level, LoopOver(level, whole))
         /\ Ahead(LoopOver(level, whole)) = Pixels(whole)
  <1> DEFINE pattern == Pattern(level, whole)
             it == LoopOver(level, whole)
  <1>1. /\ pattern \in Rectangles /\ ~IsEmpty(pattern)
        /\ pattern.t <= whole.t /\ pattern.l <= whole.l
        /\ it = Initialize(pattern, whole)
    BY PatternIs
  <1>2. /\ IteratorGood(it, pattern) /\ it.area = whole
        /\ Ahead(it) = Pixels(whole)
    BY <1>1, Starts
  <1> QED BY <1>2 DEF LoopGood

\* A tile of a loop: no line of its own pattern crosses it, and none of the
\* loops around.
LEMMA LoopTile ==
  ASSUME AreaTypes, NEW k \in 1..4, NEW it, LoopGood(k, it), HasTile(it)
  PROVE  LET tile == OneTile(it)
         IN  /\ tile \in Rectangles /\ ~IsEmpty(tile) /\ Inside(tile, area)
             /\ \A j \in 1..k : j < 4 => OneCell(tile, RepeatingTile(4 - j))
             /\ AllWhole => Whole(tile)
             /\ k = 4 => /\ Height(tile) <= tileSize.v
                         /\ Width(tile) <= tileSize.h
  <1> DEFINE tile == OneTile(it)
             around == it.area
             pattern == Pattern(k, around)
             V == it.verticalPage
             H == it.horizontalPage
  <1>1. /\ it \in Iterators /\ around \in Rectangles /\ V \in Nat /\ H \in Nat
        /\ it.tileHeight \in Nat /\ it.tileWidth \in Nat
        /\ around.t \in Int /\ around.l \in Int
        /\ around.b \in Int /\ around.r \in Int
        /\ it.tileHeight = pattern.b - pattern.t
        /\ it.tileWidth = pattern.r - pattern.l
    BY DEF LoopGood, IteratorGood, Iterators, Rectangles
  <1>2. ~IsEmpty(around) /\ Inside(around, area)
    BY <1>1 DEF LoopGood, IteratorGood, PagesMeet, IsEmpty
  <1>3. /\ pattern \in Rectangles /\ ~IsEmpty(pattern)
        /\ pattern.t <= around.t /\ pattern.l <= around.l
        /\ AllWhole /\ Whole(around) => Whole(pattern)
        /\ k = 4 => /\ pattern.b - pattern.t <= tileSize.v
                    /\ pattern.r - pattern.l <= tileSize.h
    BY <1>1, <1>2, PatternIs
  <1> HIDE DEF pattern
  <1>4. /\ pattern.t \in Int /\ pattern.l \in Int
        /\ pattern.b \in Int /\ pattern.r \in Int
        /\ pattern.t < pattern.b /\ pattern.l < pattern.r
    BY <1>3 DEF Rectangles, IsEmpty
  <1>5. IteratorGood(it, pattern)
    BY DEF LoopGood, pattern
  <1>6. /\ tile = Rect(PageFrom(around.t, pattern.t, it.tileHeight,
                                it.topPage, V),
                       PageFrom(around.l, pattern.l, it.tileWidth,
                                it.leftPage, H),
                       PageTo(around.b, pattern.t, it.tileHeight,
                              it.bottomPage, V),
                       PageTo(around.r, pattern.l, it.tileWidth,
                              it.rightPage, H))
        /\ tile \in Rectangles /\ ~IsEmpty(tile) /\ Inside(tile, around)
        /\ PageStart(pattern.t, it.tileHeight, V) <= tile.t
        /\ tile.b <= PageStart(pattern.t, it.tileHeight, V) + it.tileHeight
        /\ PageStart(pattern.l, it.tileWidth, H) <= tile.l
        /\ tile.r <= PageStart(pattern.l, it.tileWidth, H) + it.tileWidth
    BY <1>3, <1>5, OneTileIs
  <1> HIDE DEF tile, around
  <1>7. /\ tile.t \in Int /\ tile.l \in Int /\ tile.b \in Int /\ tile.r \in Int
        /\ tile.t < tile.b /\ tile.l < tile.r
        /\ around.t <= tile.t /\ tile.b <= around.b
        /\ around.l <= tile.l /\ tile.r <= around.r
    BY <1>6 DEF Rectangles, IsEmpty, Inside
  <1>8. Inside(tile, area)
    <2>1. /\ area.t \in Int /\ area.l \in Int /\ area.b \in Int /\ area.r \in Int
      BY RepeatingTileIs DEF Rectangles
    <2> QED BY <1>1, <1>2, <1>7, <2>1 DEF Inside
  <1>9. ASSUME NEW j \in 1..k, j < 4
        PROVE  OneCell(tile, RepeatingTile(4 - j))
    <2> DEFINE rep == RepeatingTile(4 - j)
    <2>1. /\ 4 - j \in 1..3
          /\ rep \in Rectangles /\ area \in Rectangles
          /\ rep.t <= area.t /\ rep.l <= area.l
          /\ Height(rep) = rep.b - rep.t /\ Width(rep) = rep.r - rep.l
          /\ Height(rep) \in Nat \ {0} /\ Width(rep) \in Nat \ {0}
      BY <1>9, RepeatingTileIs
    <2>2. rep.t \in Int /\ rep.l \in Int /\ rep.t <= around.t /\ rep.l <= around.l
      BY <1>1, <1>2, <2>1 DEF Rectangles, Inside
    <2>3. CASE j = k
      <3>1. pattern = rep
        BY <1>9, <2>3 DEF pattern, Pattern
      <3>2. it.tileHeight = Height(rep) /\ it.tileWidth = Width(rep)
        BY <1>1, <2>1, <3>1
      <3> HIDE DEF rep
      <3>5. /\ PageStart(rep.t, Height(rep), V) <= tile.t
            /\ tile.b <= PageStart(rep.t, Height(rep), V) + Height(rep)
            /\ PageStart(rep.l, Width(rep), H) <= tile.l
            /\ tile.r <= PageStart(rep.l, Width(rep), H) + Width(rep)
            /\ Height(rep) \in Nat /\ Width(rep) \in Nat
        BY <1>1, <1>6, <3>1, <3>2
      <3>3. /\ PageAt(tile.t, rep.t, Height(rep)) = V
            /\ PageAt(tile.b - 1, rep.t, Height(rep)) = V
        <4>1. /\ rep.t \in Int /\ Height(rep) \in Nat /\ V \in Nat
              /\ tile.t \in Int /\ tile.b \in Int /\ tile.t < tile.b
              /\ PageStart(rep.t, Height(rep), V) <= tile.t
              /\ tile.b <= PageStart(rep.t, Height(rep), V) + Height(rep)
          BY <1>1, <1>7, <2>2, <3>5
        <4> HIDE DEF V
        <4> QED BY <4>1, OnOnePage
      <3>4. /\ PageAt(tile.l, rep.l, Width(rep)) = H
            /\ PageAt(tile.r - 1, rep.l, Width(rep)) = H
        <4>1. /\ rep.l \in Int /\ Width(rep) \in Nat /\ H \in Nat
              /\ tile.l \in Int /\ tile.r \in Int /\ tile.l < tile.r
              /\ PageStart(rep.l, Width(rep), H) <= tile.l
              /\ tile.r <= PageStart(rep.l, Width(rep), H) + Width(rep)
          BY <1>1, <1>7, <2>2, <3>5
        <4> HIDE DEF H
        <4> QED BY <4>1, OnOnePage
      <3> QED BY <3>3, <3>4 DEF OneCell, rep
    <2>4. CASE j # k
      <3>1. OneCell(around, rep)
        BY <2>4 DEF LoopGood, around
      <3> HIDE DEF rep
      <3>2. /\ Height(rep) \in Nat /\ Width(rep) \in Nat
            /\ Height(rep) > 0 /\ Width(rep) > 0
        BY <2>1
      <3>5. /\ PageAt(around.t, rep.t, Height(rep)) = PageAt(around.b - 1, rep.t, Height(rep))
            /\ PageAt(around.l, rep.l, Width(rep)) = PageAt(around.r - 1, rep.l, Width(rep))
        BY <3>1 DEF OneCell
      <3>3. PageAt(tile.t, rep.t, Height(rep)) = PageAt(tile.b - 1, rep.t, Height(rep))
        <4>1. /\ rep.t \in Int /\ Height(rep) \in Nat /\ Height(rep) > 0
              /\ around.t \in Int /\ around.b \in Int /\ rep.t <= around.t
              /\ PageAt(around.t, rep.t, Height(rep)) = PageAt(around.b - 1, rep.t, Height(rep))
              /\ tile.t \in Int /\ tile.b \in Int /\ tile.t < tile.b
              /\ around.t <= tile.t /\ tile.b <= around.b
          BY <1>1, <1>7, <2>2, <3>2, <3>5
        <4> QED BY <4>1, PartOnOnePage
      <3>4. PageAt(tile.l, rep.l, Width(rep)) = PageAt(tile.r - 1, rep.l, Width(rep))
        <4>1. /\ rep.l \in Int /\ Width(rep) \in Nat /\ Width(rep) > 0
              /\ around.l \in Int /\ around.r \in Int /\ rep.l <= around.l
              /\ PageAt(around.l, rep.l, Width(rep)) = PageAt(around.r - 1, rep.l, Width(rep))
              /\ tile.l \in Int /\ tile.r \in Int /\ tile.l < tile.r
              /\ around.l <= tile.l /\ tile.r <= around.r
          BY <1>1, <1>7, <2>2, <3>2, <3>5
        <4> QED BY <4>1, PartOnOnePage
      <3> QED BY <3>3, <3>4 DEF OneCell, rep
    <2> QED BY <2>3, <2>4
  <1>10. ASSUME AllWhole
         PROVE  Whole(tile)
    <2>1. Whole(around) /\ Whole(pattern)
      BY <1>3, <1>10 DEF LoopGood, around
    <2>2. /\ unit.v \in Nat /\ unit.v > 0 /\ unit.h \in Nat /\ unit.h > 0
      BY TileSizeIs
    <2>0. /\ BeginsCell(pattern.t, unit.v) /\ BeginsCell(pattern.b, unit.v)
          /\ BeginsCell(pattern.l, unit.h) /\ BeginsCell(pattern.r, unit.h)
      BY <2>1 DEF Whole
    <2>3. BeginsCell(it.tileHeight, unit.v) /\ BeginsCell(it.tileWidth, unit.h)
      BY <1>1, <1>4, <2>0, <2>2, WholeSum
    <2>4. /\ BeginsCell(PageStart(pattern.t, it.tileHeight, V), unit.v)
          /\ BeginsCell(PageStart(pattern.l, it.tileWidth, H), unit.h)
      BY <1>1, <1>4, <2>0, <2>2, <2>3, WholePages
    <2>5. /\ PageStart(pattern.t, it.tileHeight, V) \in Int
          /\ PageStart(pattern.l, it.tileWidth, H) \in Int
      BY <1>1, <1>4, PageStarts
    <2>6. /\ BeginsCell(PageStart(pattern.t, it.tileHeight, V) + it.tileHeight, unit.v)
          /\ BeginsCell(PageStart(pattern.l, it.tileWidth, H) + it.tileWidth, unit.h)
      <3>1. BeginsCell(PageStart(pattern.t, it.tileHeight, V) + it.tileHeight, unit.v)
        BY <1>1, <2>2, <2>3, <2>4, <2>5, WholeSum
      <3>2. BeginsCell(PageStart(pattern.l, it.tileWidth, H) + it.tileWidth, unit.h)
        BY <1>1, <2>2, <2>3, <2>4, <2>5, WholeSum
      <3> QED BY <3>1, <3>2
    <2>7. /\ tile.t = PageFrom(around.t, pattern.t, it.tileHeight, it.topPage, V)
          /\ tile.l = PageFrom(around.l, pattern.l, it.tileWidth, it.leftPage, H)
          /\ tile.b = PageTo(around.b, pattern.t, it.tileHeight, it.bottomPage, V)
          /\ tile.r = PageTo(around.r, pattern.l, it.tileWidth, it.rightPage, H)
      BY <1>6 DEF Rect
    <2> QED BY <2>1, <2>4, <2>6, <2>7 DEF Whole, PageFrom, PageTo
  <1>11. k = 4 => Height(tile) <= tileSize.v /\ Width(tile) <= tileSize.h
    <2> SUFFICES ASSUME k = 4
                 PROVE  Height(tile) <= tileSize.v /\ Width(tile) <= tileSize.h
      OBVIOUS
    <2>1. Height(tile) = tile.b - tile.t /\ Width(tile) = tile.r - tile.l
      BY <1>7 DEF Height, Width
    <2>2. /\ PageStart(pattern.t, it.tileHeight, V) \in Int
          /\ PageStart(pattern.l, it.tileWidth, H) \in Int
      BY <1>1, <1>4, PageStarts
    <2>3. tileSize.v \in Nat /\ tileSize.h \in Nat
      BY TileSizeIs
    <2> QED BY <1>1, <1>3, <1>4, <1>6, <1>7, <2>1, <2>2, <2>3
  <1> QED BY <1>6, <1>8, <1>9, <1>10, <1>11 DEF tile

-----------------------------------------------------------------------------
(* The invariant, and what follows from it. *)

LEMMA AreaStarts == AreaInit => AreaInv
  <1> SUFFICES ASSUME AreaInit
               PROVE  AreaInv
    OBVIOUS
  <1> USE DEF AreaInit, AreaFresh
  <1> DEFINE it == LoopOver(1, area)
  <1>1. area \in Rectangles /\ ~IsEmpty(area)
    BY AreaTaskAssumption
  <1>2. iters = <<it>> /\ tiles = << >>
    BY DEF LoopOver
  <1>3. AreaTypes
    <2>1. /\ RepeatingTile(3) \in Rectangles /\ ~IsEmpty(RepeatingTile(3))
          /\ RepeatingTile(3).t <= area.t /\ RepeatingTile(3).l <= area.l
      <3>1. /\ repeats[3] \in Rectangles
            /\ IsEmpty(repeats[3]) \/ (repeats[3].t <= area.t /\ repeats[3].l <= area.l)
        BY AreaTaskAssumption
      <3>2. area.t <= area.t /\ area.l <= area.l
        BY <1>1 DEF Rectangles
      <3> QED BY <1>1, <3>1, <3>2 DEF RepeatingTile
    <2>2. Initialize(RepeatingTile(3), area) \in Iterators
      BY <1>1, <2>1, Starts DEF IteratorGood
    <2>3. iters \in Seq(Iterators) /\ Len(iters) <= 4
      BY <2>2
    <2>4. tiles \in Seq(Rectangles)
      BY <1>2
    <2> QED BY <2>3, <2>4 DEF AreaTypes
  <1>4. Inside(area, area)
    BY <1>1 DEF Inside, Rectangles
  <1>5. AllWhole => Whole(area)
    BY DEF AllWhole
  <1>6. LoopGood(1, it) /\ Ahead(it) = Pixels(area)
    <2> HIDE DEF AreaInit, AreaFresh
    <2>1. PICK level \in 1..4 : level = 1
      OBVIOUS
    <2>2. \A j \in 1..(level - 1) : OneCell(area, RepeatingTile(4 - j))
      BY <2>1
    <2>3. /\ LoopGood(level, LoopOver(level, area))
          /\ Ahead(LoopOver(level, area)) = Pixels(area)
      BY <1>1, <1>3, <1>4, <1>5, <2>2, LoopStarts
    <2> QED BY <2>1, <2>3
  <1> HIDE DEF it, AreaInit, AreaFresh
  <1>7. Len(iters) = 1 /\ iters[1] = it /\ Len(tiles) = 0
    BY <1>2
  <1>8. Loops
    BY <1>6, <1>7 DEF Loops
  <1>9. Partition
    BY <1>6, <1>7 DEF Partition
  <1> QED BY <1>3, <1>7, <1>8, <1>9 DEF AreaInv

SameTask == UNCHANGED <<area, repeats, unit, maxTile, tileSize>>

\* What is said of a loop and of a tile depends on the task alone.
LEMMA TaskStays ==
  ASSUME AreaTypes, SameTask, iters' \in Seq(Iterators), Len(iters') <= 4,
         tiles' \in Seq(Rectangles),
         \A k \in 1..Len(iters') : LoopGood(k, iters'[k]),
         \A n \in 1..Len(tiles') : TileGood(tiles'[n]),
         Partition'
  PROVE  AreaInv'
  <1> USE DEF SameTask
  <1>1. AreaTypes'
    BY DEF AreaTypes, FindTileSize, RepeatingTile
  <1>2. Loops'
    BY DEF Loops, LoopGood, Pattern, RepeatingTile, AllWhole, Whole
  <1>3. \A n \in 1..Len(tiles') : TileGood(tiles[n])'
    BY DEF TileGood, RepeatingTile, AllWhole, Whole
  <1> QED BY <1>1, <1>2, <1>3 DEF AreaInv

\* The loop in work, and what its tile is to the rest.
LEMMA InnermostLoop ==
  ASSUME AreaInv, iters # << >>
  PROVE  /\ Len(iters) \in 1..4 /\ Innermost = iters[Len(iters)]
         /\ LoopGood(Len(iters), Innermost)
         /\ Outer \in Seq(Iterators) /\ Len(Outer) = Len(iters) - 1
         /\ \A k \in 1..(Len(iters) - 1) : Outer[k] = iters[k]
         /\ HasTile(Innermost) =>
              /\ Advance(Innermost) \in Iterators
              /\ LoopGood(Len(iters), Advance(Innermost))
              /\ Ahead(Innermost)
                   = Pixels(OneTile(Innermost)) \cup Ahead(Advance(Innermost))
              /\ Pixels(OneTile(Innermost)) \cap Ahead(Advance(Innermost)) = {}
         /\ ~HasTile(Innermost) => Ahead(Innermost) = {}
  <1>1. /\ iters \in Seq(Iterators) /\ Len(iters) \in 1..4
        /\ Innermost = iters[Len(iters)]
    <2>1. iters \in Seq(Iterators) /\ Len(iters) \in Nat /\ Len(iters) <= 4
      BY DEF AreaInv, AreaTypes
    <2>2. Len(iters) # 0
      BY <2>1, EmptySeq
    <2>3. Len(iters) \in 1..4
      <3>1. \A m \in Nat : m <= 4 /\ m # 0 => m \in 1..4
        OBVIOUS
      <3> QED BY <2>1, <2>2, <3>1, Zenon
    <2> QED BY <2>1, <2>3 DEF Innermost
  <1>2. LoopGood(Len(iters), Innermost)
    BY <1>1 DEF AreaInv, Loops
  <1>3. /\ Outer \in Seq(Iterators) /\ Len(Outer) = Len(iters) - 1
        /\ \A k \in 1..(Len(iters) - 1) : Outer[k] = iters[k]
    BY <1>1 DEF Outer
  <1>4. ASSUME HasTile(Innermost)
        PROVE  /\ Advance(Innermost) \in Iterators
               /\ LoopGood(Len(iters), Advance(Innermost))
               /\ Ahead(Innermost)
                    = Pixels(OneTile(Innermost)) \cup Ahead(Advance(Innermost))
               /\ Pixels(OneTile(Innermost)) \cap Ahead(Advance(Innermost)) = {}
    <2> DEFINE it == Innermost
               around == it.area
               pattern == Pattern(Len(iters), around)
    <2>1. IteratorGood(it, pattern)
      BY <1>2 DEF LoopGood
    <2>2. /\ around \in Rectangles /\ ~IsEmpty(around) /\ Inside(around, area)
      <3>1. it \in Iterators /\ around \in Rectangles
        BY <2>1 DEF IteratorGood, Iterators
      <3>2. /\ around.t \in Int /\ around.l \in Int
            /\ around.b \in Int /\ around.r \in Int
            /\ around.t < around.b /\ around.l < around.r
        BY <2>1, <3>1 DEF IteratorGood, PagesMeet, Rectangles
      <3> QED BY <1>2, <3>1, <3>2 DEF LoopGood, IsEmpty
    <2>3. pattern \in Rectangles
      BY <1>1, <2>2, PatternIs DEF AreaInv
    <2> HIDE DEF pattern, it
    <2>4. /\ IteratorGood(Advance(it), pattern) /\ Advance(it).area = around
          /\ Ahead(it) = Pixels(OneTile(it)) \cup Ahead(Advance(it))
          /\ Pixels(OneTile(it)) \cap Ahead(Advance(it)) = {}
      BY <1>4, <2>1, <2>3, Delivers DEF it
    <2>5. LoopGood(Len(iters), Advance(it))
      BY <1>2, <2>4 DEF LoopGood, pattern, it
    <2>6. Advance(it) \in Iterators
      BY <2>4 DEF IteratorGood
    <2> QED BY <2>4, <2>5, <2>6 DEF it
  <1>5. ~HasTile(Innermost) => Ahead(Innermost) = {}
    BY DEF Ahead
  <1> HIDE DEF AreaInv
  <1> QED BY <1>1, <1>2, <1>3, <1>4, <1>5

LEMMA EnterKeeps == AreaInv /\ Enter => AreaInv'
  <1> SUFFICES ASSUME AreaInv, Enter
               PROVE  AreaInv'
    OBVIOUS
  <1> DEFINE n == Len(iters)
             it == Innermost
             tile == OneTile(it)
             inner == LoopOver(n + 1, tile)
  <1>1. /\ iters # << >> /\ n < 4 /\ HasTile(it) /\ tiles' = tiles
        /\ iters' = Append(Append(Outer, Advance(it)), inner)
        /\ SameTask
    BY DEF Enter, SameTask
  <1>2. /\ n \in 1..3 /\ it = iters[n] /\ LoopGood(n, it)
        /\ Outer \in Seq(Iterators) /\ Len(Outer) = n - 1
        /\ \A k \in 1..(n - 1) : Outer[k] = iters[k]
        /\ Advance(it) \in Iterators /\ LoopGood(n, Advance(it))
        /\ Ahead(it) = Pixels(tile) \cup Ahead(Advance(it))
        /\ Pixels(tile) \cap Ahead(Advance(it)) = {}
    BY <1>1, InnermostLoop
  <1> HIDE DEF n, it, inner
  <1>3. /\ AreaTypes
        /\ \A k \in 1..(n - 1) : LoopGood(k, iters[k])
        /\ \A k \in 1..Len(tiles) : TileGood(tiles[k])
    BY <1>2 DEF AreaInv, Loops, n
  <1>4. LoopGood(n + 1, inner) /\ Ahead(inner) = Pixels(tile)
    <2>1. n \in 1..4 /\ n + 1 \in 1..4
      BY <1>2
    <2>2. /\ tile \in Rectangles /\ ~IsEmpty(tile) /\ Inside(tile, area)
          /\ \A j \in 1..n : j < 4 => OneCell(tile, RepeatingTile(4 - j))
          /\ AllWhole => Whole(tile)
      BY <1>1, <1>2, <1>3, <2>1, LoopTile
    <2> HIDE DEF tile
    <2>3. PICK level \in 1..4 : level = n + 1
      BY <2>1
    <2>4. \A j \in 1..(level - 1) : OneCell(tile, RepeatingTile(4 - j))
      BY <1>2, <2>2, <2>3
    <2>5. /\ LoopGood(level, LoopOver(level, tile))
          /\ Ahead(LoopOver(level, tile)) = Pixels(tile)
      BY <1>3, <2>2, <2>4, LoopStarts
    <2> QED BY <2>3, <2>5 DEF inner
  <1> HIDE DEF tile
  <1>5. inner \in Iterators
    BY <1>4 DEF LoopGood, IteratorGood
  <1>6. /\ iters' \in Seq(Iterators) /\ Len(iters') = n + 1
        /\ \A k \in 1..(n - 1) : iters'[k] = iters[k]
        /\ iters'[n] = Advance(it) /\ iters'[n + 1] = inner
    BY <1>1, <1>2, <1>5
  <1>7. \A k \in 1..Len(iters') : LoopGood(k, iters'[k])
    <2> SUFFICES ASSUME NEW k \in 1..(n + 1)
                 PROVE  LoopGood(k, iters'[k])
      BY <1>6
    <2>1. k \in 1..(n - 1) \/ k = n \/ k = n + 1
      BY <1>2
    <2> QED BY <1>2, <1>3, <1>4, <1>6, <2>1
  <1>8. Partition'
    <2>1. /\ \A j, k \in 1..n : j # k => Ahead(iters[j]) \cap Ahead(iters[k]) = {}
          /\ \A m \in 1..Len(tiles), k \in 1..n :
               Pixels(tiles[m]) \cap Ahead(iters[k]) = {}
          /\ \A l, m \in 1..Len(tiles) :
               l # m => Pixels(tiles[l]) \cap Pixels(tiles[m]) = {}
          /\ \A x \in Pixels(area) :
               \/ \E k \in 1..n : x \in Ahead(iters[k])
               \/ \E m \in 1..Len(tiles) : x \in Pixels(tiles[m])
      BY DEF AreaInv, Partition, n
    <2>2. \A k \in 1..(n + 1) : k \in 1..(n - 1) \/ k = n \/ k = n + 1
      BY <1>2
    <2>3. \A k \in 1..(n - 1) : k \in 1..n /\ k # n /\ k \in 1..(n + 1)
      BY <1>2
    <2>4. n \in 1..n /\ n \in 1..(n + 1) /\ n + 1 \in 1..(n + 1)
      BY <1>2
    <2>5. \A k \in 1..(n + 1) : \E l \in 1..n :
            /\ Ahead(iters'[k]) \subseteq Ahead(iters[l])
            /\ k < n => l = k
            /\ k >= n => l = n
      BY <1>2, <1>4, <1>6, <2>2, <2>3, <2>4
    <2>6. ASSUME NEW j \in 1..(n + 1), NEW k \in 1..(n + 1), j # k
          PROVE  Ahead(iters'[j]) \cap Ahead(iters'[k]) = {}
      <3>1. CASE j < n \/ k < n
        <4>1. PICK l \in 1..n : /\ Ahead(iters'[j]) \subseteq Ahead(iters[l])
                                /\ j < n => l = j
                                /\ j >= n => l = n
          BY <2>5
        <4>2. PICK m \in 1..n : /\ Ahead(iters'[k]) \subseteq Ahead(iters[m])
                                /\ k < n => m = k
                                /\ k >= n => m = n
          BY <2>5
        <4>3. l # m
          BY <1>2, <2>6, <3>1, <4>1, <4>2
        <4> QED BY <2>1, <4>1, <4>2, <4>3
      <3>2. CASE ~(j < n \/ k < n)
        <4>1. (j = n /\ k = n + 1) \/ (k = n /\ j = n + 1)
          BY <1>2, <2>6, <3>2
        <4> QED BY <1>2, <1>4, <1>6, <4>1
      <3> QED BY <3>1, <3>2
    <2>7. \A m \in 1..Len(tiles), k \in 1..(n + 1) :
            Pixels(tiles[m]) \cap Ahead(iters'[k]) = {}
      BY <2>1, <2>5
    <2>8. ASSUME NEW x \in Pixels(area)
          PROVE  \/ \E k \in 1..(n + 1) : x \in Ahead(iters'[k])
                 \/ \E m \in 1..Len(tiles) : x \in Pixels(tiles[m])
      <3>1. ASSUME NEW k \in 1..n, x \in Ahead(iters[k])
            PROVE  \E l \in 1..(n + 1) : x \in Ahead(iters'[l])
        <4>1. CASE k = n
          BY <1>2, <1>4, <1>6, <2>4, <3>1, <4>1
        <4>2. CASE k # n
          <5>1. k \in 1..(n - 1)
            BY <1>2, <4>2
          <5> QED BY <1>6, <2>3, <3>1, <5>1
        <4> QED BY <4>1, <4>2
      <3> QED BY <2>1, <3>1
    <2>9. area' = area
      BY <1>1 DEF SameTask
    <2> QED BY <1>1, <1>6, <2>1, <2>6, <2>7, <2>8, <2>9 DEF Partition
  <1>9. Len(iters') <= 4 /\ tiles' \in Seq(Rectangles)
    BY <1>1, <1>2, <1>3, <1>6 DEF AreaTypes
  <1> HIDE DEF AreaInv
  <1> QED BY <1>1, <1>3, <1>6, <1>7, <1>8, <1>9, TaskStays

LEMMA Appended ==
  ASSUME NEW s \in Seq(Iterators), NEW e \in Iterators
  PROVE  /\ Append(s, e) \in Seq(Iterators) /\ Len(Append(s, e)) = Len(s) + 1
         /\ \A k \in 1..Len(s) : Append(s, e)[k] = s[k]
         /\ Append(s, e)[Len(s) + 1] = e
  BY AppendProperties

LEMMA ProcessTileKeeps == AreaInv /\ ProcessTile => AreaInv'
  <1> SUFFICES ASSUME AreaInv, ProcessTile
               PROVE  AreaInv'
    OBVIOUS
  <1> DEFINE it == Innermost
             tile == OneTile(it)
             last == Len(tiles) + 1
  <1>1. /\ iters # << >> /\ Len(iters) = 4 /\ HasTile(it)
        /\ iters' = Append(Outer, Advance(it)) /\ tiles' = Append(tiles, tile)
        /\ SameTask
    <2>1. iters # << >>
      <3>1. Len(iters) = 4
        BY DEF ProcessTile
      <3>2. Len(<< >>) = 0 /\ 4 # 0
        OBVIOUS
      <3> QED BY <3>1, <3>2, Zenon
    <2> QED BY <2>1 DEF ProcessTile, SameTask
  <1>2. /\ it = iters[4] /\ LoopGood(4, it)
        /\ Outer \in Seq(Iterators) /\ Len(Outer) = 3
        /\ \A k \in 1..3 : Outer[k] = iters[k]
        /\ Advance(it) \in Iterators /\ LoopGood(4, Advance(it))
        /\ Ahead(it) = Pixels(tile) \cup Ahead(Advance(it))
        /\ Pixels(tile) \cap Ahead(Advance(it)) = {}
    BY <1>1, InnermostLoop
  <1> HIDE DEF it
  <1>3. /\ AreaTypes /\ tiles \in Seq(Rectangles)
        /\ \A k \in 1..3 : LoopGood(k, iters[k])
        /\ \A m \in 1..Len(tiles) : TileGood(tiles[m])
    BY <1>1 DEF AreaInv, Loops, AreaTypes
  <1>4. tile \in Rectangles /\ TileGood(tile)
    <2>1. 4 \in 1..4
      OBVIOUS
    <2>2. /\ tile \in Rectangles /\ ~IsEmpty(tile) /\ Inside(tile, area)
          /\ \A j \in 1..4 : j < 4 => OneCell(tile, RepeatingTile(4 - j))
          /\ AllWhole => Whole(tile)
          /\ Height(tile) <= tileSize.v /\ Width(tile) <= tileSize.h
      BY <1>1, <1>2, <1>3, <2>1, LoopTile
    <2> HIDE DEF tile
    <2>3. ASSUME NEW k \in 1..3
          PROVE  OneCell(tile, RepeatingTile(k))
      <3>1. 4 - k \in 1..4 /\ 4 - k < 4 /\ 4 - (4 - k) = k
        OBVIOUS
      <3> QED BY <2>2, <3>1
    <2> QED BY <2>2, <2>3 DEF TileGood
  <1> HIDE DEF tile
  <1>5. /\ iters' \in Seq(Iterators) /\ Len(iters') = 4
        /\ \A k \in 1..3 : iters'[k] = iters[k]
        /\ iters'[4] = Advance(it)
    <2>1. Outer \in Seq(Iterators) /\ Advance(it) \in Iterators /\ Len(Outer) = 3
      BY <1>2
    <2>2. /\ iters' \in Seq(Iterators) /\ Len(iters') = Len(Outer) + 1
          /\ \A k \in 1..Len(Outer) : iters'[k] = Outer[k]
          /\ iters'[Len(Outer) + 1] = Advance(it)
      BY <1>1, <2>1, Appended
    <2> QED BY <1>2, <2>2
  <1>6. /\ tiles' \in Seq(Rectangles) /\ Len(tiles') = last /\ last \in Nat
        /\ \A m \in 1..Len(tiles) : tiles'[m] = tiles[m]
        /\ tiles'[last] = tile
        /\ \A m \in 1..last : m \in 1..Len(tiles) \/ m = last
        /\ \A m \in 1..Len(tiles) : m \in 1..last /\ m # last
        /\ last \in 1..last
    BY <1>1, <1>3, <1>4
  <1> HIDE DEF last
  <1>7. \A k \in 1..4 : k \in 1..3 \/ k = 4
    OBVIOUS
  <1>8. \A k \in 1..Len(iters') : LoopGood(k, iters'[k])
    BY <1>2, <1>3, <1>5, <1>7
  <1>9. \A m \in 1..Len(tiles') : TileGood(tiles'[m])
    BY <1>3, <1>4, <1>6
  <1>10. Partition'
    <2>1. /\ \A j, k \in 1..4 : j # k => Ahead(iters[j]) \cap Ahead(iters[k]) = {}
          /\ \A m \in 1..Len(tiles), k \in 1..4 :
               Pixels(tiles[m]) \cap Ahead(iters[k]) = {}
          /\ \A l, m \in 1..Len(tiles) :
               l # m => Pixels(tiles[l]) \cap Pixels(tiles[m]) = {}
          /\ \A x \in Pixels(area) :
               \/ \E k \in 1..4 : x \in Ahead(iters[k])
               \/ \E m \in 1..Len(tiles) : x \in Pixels(tiles[m])
      BY <1>1 DEF AreaInv, Partition
    <2>2. \A k \in 1..4 : /\ Ahead(iters'[k]) \subseteq Ahead(iters[k])
                          /\ Pixels(tile) \cap Ahead(iters'[k]) = {}
      <3> SUFFICES ASSUME NEW k \in 1..4
                   PROVE  /\ Ahead(iters'[k]) \subseteq Ahead(iters[k])
                          /\ Pixels(tile) \cap Ahead(iters'[k]) = {}
        OBVIOUS
      <3>1. CASE k = 4
        BY <1>2, <1>5, <3>1
      <3>2. CASE k # 4
        <4>1. k \in 1..3 /\ 4 \in 1..4
          BY <3>2
        <4>2. Ahead(iters[k]) \cap Ahead(iters[4]) = {}
          BY <2>1, <3>2, <4>1
        <4> QED BY <1>2, <1>5, <4>1, <4>2
      <3> QED BY <3>1, <3>2
    <2>3. \A m \in 1..Len(tiles) : Pixels(tiles[m]) \cap Pixels(tile) = {}
      <3>1. 4 \in 1..4
        OBVIOUS
      <3> QED BY <1>2, <2>1, <3>1
    <2>4. \A j, k \in 1..4 : j # k => Ahead(iters'[j]) \cap Ahead(iters'[k]) = {}
      BY <2>1, <2>2
    <2>5. \A m \in 1..last, k \in 1..4 : Pixels(tiles'[m]) \cap Ahead(iters'[k]) = {}
      <3> SUFFICES ASSUME NEW m \in 1..last, NEW k \in 1..4
                   PROVE  Pixels(tiles'[m]) \cap Ahead(iters'[k]) = {}
        OBVIOUS
      <3>1. CASE m = last
        BY <1>6, <2>2, <3>1
      <3>2. CASE m # last
        <4>1. m \in 1..Len(tiles) /\ tiles'[m] = tiles[m]
          BY <1>6, <3>2
        <4>2. Pixels(tiles[m]) \cap Ahead(iters[k]) = {}
          BY <2>1, <4>1
        <4> QED BY <2>2, <4>1, <4>2
      <3> QED BY <3>1, <3>2
    <2>6. \A l, m \in 1..last : l # m => Pixels(tiles'[l]) \cap Pixels(tiles'[m]) = {}
      <3> SUFFICES ASSUME NEW l \in 1..last, NEW m \in 1..last, l # m
                   PROVE  Pixels(tiles'[l]) \cap Pixels(tiles'[m]) = {}
        OBVIOUS
      <3>1. CASE l = last
        <4>1. m \in 1..Len(tiles)
          BY <1>6, <3>1
        <4>2. tiles'[m] = tiles[m] /\ tiles'[l] = tile
          BY <1>6, <3>1, <4>1
        <4> QED BY <2>3, <4>1, <4>2
      <3>2. CASE m = last
        <4>1. l \in 1..Len(tiles)
          BY <1>6, <3>2
        <4>2. tiles'[l] = tiles[l] /\ tiles'[m] = tile
          BY <1>6, <3>2, <4>1
        <4> QED BY <2>3, <4>1, <4>2
      <3>3. CASE l # last /\ m # last
        BY <1>6, <2>1, <3>3
      <3> QED BY <3>1, <3>2, <3>3
    <2>7. ASSUME NEW x \in Pixels(area)
          PROVE  \/ \E k \in 1..4 : x \in Ahead(iters'[k])
                 \/ \E m \in 1..last : x \in Pixels(tiles'[m])
      <3>1. ASSUME NEW k \in 1..4, x \in Ahead(iters[k])
            PROVE  \/ \E l \in 1..4 : x \in Ahead(iters'[l])
                   \/ \E m \in 1..last : x \in Pixels(tiles'[m])
        <4>1. CASE k = 4
          BY <1>2, <1>5, <1>6, <3>1, <4>1
        <4>2. CASE k # 4
          <5>1. k \in 1..3
            BY <4>2
          <5> QED BY <1>5, <3>1, <5>1
        <4> QED BY <4>1, <4>2
      <3>2. ASSUME NEW m \in 1..Len(tiles), x \in Pixels(tiles[m])
            PROVE  \E l \in 1..last : x \in Pixels(tiles'[l])
        BY <1>6, <3>2
      <3> QED BY <2>1, <3>1, <3>2
    <2>8. area' = area
      BY <1>1 DEF SameTask
    <2> QED BY <1>5, <1>6, <2>4, <2>5, <2>6, <2>7, <2>8 DEF Partition
  <1> HIDE DEF AreaInv
  <1> QED BY <1>1, <1>3, <1>5, <1>6, <1>8, <1>9, <1>10, TaskStays

LEMMA LeaveKeeps == AreaInv /\ Leave => AreaInv'
  <1> SUFFICES ASSUME AreaInv, Leave
               PROVE  AreaInv'
    OBVIOUS
  <1> DEFINE n == Len(iters)
  <1>1. iters # << >> /\ ~HasTile(Innermost) /\ iters' = Outer /\ tiles' = tiles
        /\ SameTask
    BY DEF Leave, SameTask
  <1>2. /\ n \in 1..4 /\ Innermost = iters[n] /\ Ahead(iters[n]) = {}
        /\ iters' \in Seq(Iterators) /\ Len(iters') = n - 1
        /\ \A k \in 1..(n - 1) : iters'[k] = iters[k]
    BY <1>1, InnermostLoop
  <1>3. /\ AreaTypes /\ tiles' \in Seq(Rectangles)
        /\ \A k \in 1..n : LoopGood(k, iters[k])
        /\ \A m \in 1..Len(tiles') : TileGood(tiles'[m])
    BY <1>1 DEF AreaInv, Loops, AreaTypes
  <1> HIDE DEF n
  <1>4. \A k \in 1..(n - 1) : k \in 1..n
    BY <1>2
  <1>5. \A k \in 1..Len(iters') : LoopGood(k, iters'[k])
    BY <1>2, <1>3, <1>4
  <1>6. Partition'
    <2>1. /\ \A j, k \in 1..n : j # k => Ahead(iters[j]) \cap Ahead(iters[k]) = {}
          /\ \A m \in 1..Len(tiles), k \in 1..n :
               Pixels(tiles[m]) \cap Ahead(iters[k]) = {}
          /\ \A l, m \in 1..Len(tiles) :
               l # m => Pixels(tiles[l]) \cap Pixels(tiles[m]) = {}
          /\ \A x \in Pixels(area) :
               \/ \E k \in 1..n : x \in Ahead(iters[k])
               \/ \E m \in 1..Len(tiles) : x \in Pixels(tiles[m])
      BY DEF AreaInv, Partition, n
    <2>2. \A k \in 1..n : k = n \/ k \in 1..(n - 1)
      BY <1>2
    <2>3. /\ \A j, k \in 1..(n - 1) :
               j # k => Ahead(iters'[j]) \cap Ahead(iters'[k]) = {}
          /\ \A m \in 1..Len(tiles), k \in 1..(n - 1) :
               Pixels(tiles[m]) \cap Ahead(iters'[k]) = {}
      BY <1>2, <1>4, <2>1
    <2>4. \A x \in Pixels(area) :
            \/ \E k \in 1..(n - 1) : x \in Ahead(iters'[k])
            \/ \E m \in 1..Len(tiles) : x \in Pixels(tiles[m])
      <3> SUFFICES ASSUME NEW x \in Pixels(area),
                          NEW k \in 1..n, x \in Ahead(iters[k])
                   PROVE  \E l \in 1..(n - 1) : x \in Ahead(iters'[l])
        BY <2>1
      <3> QED BY <1>2, <2>2
    <2>5. area' = area
      BY <1>1 DEF SameTask
    <2> QED BY <1>1, <1>2, <2>1, <2>3, <2>4, <2>5 DEF Partition
  <1>7. Len(iters') <= 4
    BY <1>2
  <1> HIDE DEF AreaInv
  <1> QED BY <1>1, <1>2, <1>3, <1>5, <1>6, <1>7, TaskStays

LEMMA AreaHolds == AreaSpec => []AreaInv
  <1>1. AreaInv /\ [AreaNext]_areaVars => AreaInv'
    <2>1. AreaInv /\ UNCHANGED areaVars => AreaInv'
      <3> SUFFICES ASSUME AreaInv, UNCHANGED areaVars
                   PROVE  AreaInv'
        OBVIOUS
      <3>1. /\ SameTask /\ iters' = iters /\ tiles' = tiles /\ area' = area
        BY DEF areaVars, SameTask
      <3>2. /\ AreaTypes /\ iters' \in Seq(Iterators) /\ Len(iters') <= 4
            /\ tiles' \in Seq(Rectangles)
            /\ \A k \in 1..Len(iters') : LoopGood(k, iters'[k])
            /\ \A n \in 1..Len(tiles') : TileGood(tiles'[n])
        BY <3>1 DEF AreaInv, AreaTypes, Loops
      <3>3. Partition'
        BY <3>1 DEF AreaInv, Partition
      <3> HIDE DEF AreaInv
      <3> QED BY <3>1, <3>2, <3>3, TaskStays
    <2> QED BY <2>1, EnterKeeps, ProcessTileKeeps, LeaveKeeps DEF AreaNext
  <1> QED BY <1>1, AreaStarts, PTL DEF AreaSpec

\* No pixel of an area is processed twice, and none is left out when the loops
\* have ended, for areas and repeating tiles of any size.
THEOREM PixelsOnce == AreaSpec => []EachPixelOnce
  <1>1. AreaInv => EachPixelOnce
    <2> SUFFICES ASSUME AreaInv
                 PROVE  EachPixelOnce
      OBVIOUS
    <2>1. tiles \in Seq(Rectangles) /\ DOMAIN tiles = 1..Len(tiles)
      BY DEF AreaInv, AreaTypes
    <2>2. \A m, n \in DOMAIN tiles : m # n => Pixels(tiles[m]) \cap Pixels(tiles[n]) = {}
      BY <2>1 DEF AreaInv, Partition
    <2>3. ASSUME iters = << >>
          PROVE  UNION {Pixels(tiles[n]) : n \in DOMAIN tiles} = Pixels(area)
      <3>1. \A n \in DOMAIN tiles : Pixels(tiles[n]) \subseteq Pixels(area)
        <4> SUFFICES ASSUME NEW n \in DOMAIN tiles
                     PROVE  Pixels(tiles[n]) \subseteq Pixels(area)
          OBVIOUS
        <4>1. tiles[n] \in Rectangles /\ Inside(tiles[n], area) /\ area \in Rectangles
          BY <2>1, AreaTaskAssumption DEF AreaInv, AreaTypes, TileGood
        <4> QED BY <4>1 DEF Pixels, Inside, Rectangles
      <3>2. Len(iters) = 0
        BY <2>3
      <3>3. \A x \in Pixels(area) : \E n \in DOMAIN tiles : x \in Pixels(tiles[n])
        BY <2>1, <3>2 DEF AreaInv, Partition
      <3> QED BY <3>1, <3>3
    <2> QED BY <2>2, <2>3 DEF EachPixelOnce
  <1> QED BY <1>1, AreaHolds, PTL

\* A tile that is processed fits in the buffers, no line of a repeating tile
\* crosses it, and it is made of whole cells where all it is cut from is.
THEOREM TilesFitTheTask == AreaSpec => []TilesFit
  <1>1. AreaInv => TilesFit
    <2> SUFFICES ASSUME AreaInv
                 PROVE  TilesFit
      OBVIOUS
    <2>1. AreaTypes /\ DOMAIN tiles = 1..Len(tiles)
      BY DEF AreaInv, AreaTypes
    <2>2. \A n \in DOMAIN tiles : TileGood(tiles[n])
      BY <2>1 DEF AreaInv
    <2>3. BuffersHold
      BY <2>1, <2>2, TileSizeIs DEF BuffersHold, TileGood
    <2>4. NoLineCrossed
      <3>1. \A n \in DOMAIN tiles :
              /\ ~IsEmpty(tiles[n])
              /\ \A k \in 1..3 : OneCell(tiles[n], RepeatingTile(k))
        BY <2>2 DEF TileGood
      <3> QED BY <3>1 DEF NoLineCrossed, OneCell, PageAt
    <2>5. WholeCells
      <3>1. AllWhole => \A n \in DOMAIN tiles : Whole(tiles[n])
        BY <2>2 DEF TileGood
      <3> QED BY <3>1 DEF WholeCells, AllWhole, Whole, BeginsCell
    <2> QED BY <2>3, <2>4, <2>5 DEF TilesFit
  <1> QED BY <1>1, AreaHolds, PTL
=============================================================================
