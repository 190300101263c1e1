----------------------------- MODULE StreamData -----------------------------
(* The bytes of a dng_memory_stream, the store that is written and read. *)
EXTENDS Integers, Sequences

\* What a page holds before it is written.
Gap == 0

\* s cut off, or grown with what its pages hold.
Resized(s, n) == [i \in 1..n |-> IF i <= Len(s) THEN s[i] ELSE Gap]

\* s with d written over it at an offset.
Overlay(s, offset, d) ==
  LET end == offset + Len(d)
  IN  [i \in 1..(IF end > Len(s) THEN end ELSE Len(s)) |->
         IF i \in (offset + 1)..end THEN d[i - offset] ELSE Resized(s, i)[i]]

\* The bytes of s from an offset.
Slice(s, offset, count) == SubSeq(s, offset + 1, offset + count)

Copies(byte, count) == [i \in 1..count |-> byte]
=============================================================================
