----------------------------- MODULE ByteStream -----------------------------
(***************************************************************************)
(* What dng_stream.h of the DNG SDK promises of a stream: a sequence of    *)
(* bytes with one position for reading and writing.  Data that was put is  *)
(* what is got, and a request beyond the end throws and reads nothing.     *)
(***************************************************************************)
EXTENDS StreamData

CONSTANTS
  Bytes,       \* values of the bytes put
  Counts,      \* sizes of the requests
  MaxLength    \* bound: length of the stream

VARIABLES
  contents,    \* the bytes of the stream
  position,
  answer,      \* data of a Get that has just returned
  thrown       \* an exception ended the use of the stream

vars == <<contents, position, answer, thrown>>

Init ==
  /\ contents = << >> /\ position = 0 /\ answer = << >> /\ thrown = FALSE

\* A position for writing may lie beyond the end, one for reading throws.
Seek ==
  /\ position' \in 0..MaxLength
  /\ answer' = << >>
  /\ UNCHANGED <<contents, thrown>>

Throw ==
  /\ thrown' = TRUE /\ answer' = << >>
  /\ UNCHANGED contents

SeekBeyondEnd ==
  /\ position' \in (Len(contents) + 1)..MaxLength
  /\ Throw

Put ==
  \E byte \in Bytes, n \in Counts :
    /\ contents' = Overlay(contents, position, Copies(byte, n))
    /\ position' = position + n
    /\ answer' = << >>
    /\ UNCHANGED thrown

Get ==
  \E n \in Counts :
    /\ position + n <= Len(contents)
    /\ answer' = Slice(contents, position, n)
    /\ position' = position + n
    /\ UNCHANGED <<contents, thrown>>

GetBeyondEnd ==
  \E n \in Counts :
    /\ position + n > Len(contents)
    /\ position' = position
    /\ Throw

SetLength ==
  \E n \in 0..MaxLength :
    /\ contents' = Resized(contents, n)
    /\ answer' = << >>
    /\ UNCHANGED <<position, thrown>>

Next ==
  ~thrown /\ (Seek \/ SeekBeyondEnd \/ Put \/ Get \/ GetBeyondEnd \/ SetLength)

Spec == Init /\ [][Next]_vars
=============================================================================
