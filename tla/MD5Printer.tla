----------------------------- MODULE MD5Printer -----------------------------
(* dng_md5_printer of the DNG SDK: it takes a message in pieces of any size, *)
(* collects them to blocks and transforms the blocks.  The digest is the     *)
(* sequence of bytes transformed so far: MD5Transform is any function of it. *)
(* A byte of the message is whatever the caller says; bytes of the padding   *)
(* are pairs.                                                                *)
EXTENDS Integers, Sequences

CONSTANTS MD5Block,    \* bytes in a block (64 in the code)
          WordBits    \* bits in a word of the count (32 in the code)

ASSUME MD5Assumption ==
  /\ MD5Block \in Nat \ {0} /\ WordBits \in {8 * i : i \in 1..4}
  /\ MD5Block > WordBits \div 4
  /\ 2^(WordBits - 3) % MD5Block = 0  \* the place in a block outlives a carry

LengthBytes == WordBits \div 4     \* two words (8 in the code)

(* Reset; what is in the buffer does not matter yet. *)
NewPrinter ==
  [count |-> <<0, 0>>, buffer |-> [i \in 0..MD5Block-1 |-> <<"none", 0>>],
   hashed |-> <<>>, final |-> FALSE]

(* The place in the buffer of the next byte. *)
Index(p) == (p.count[1] \div 8) % MD5Block

(* Mutant: the carry into the second word is forgotten. *)
CountBitsNoCarry(count, length) ==
  <<(count[1] + length * 8) % 2^WordBits,
    (count[2] + length \div 2^(WordBits - 3)) % 2^WordBits>>

(* The number of bits in two words; the sum of the first word is less than   *)
(* what was added just when it has overflowed.                               *)
CountBits(count, length) ==
  LET added == (length * 8) % 2^WordBits
      low   == (count[1] + added) % 2^WordBits
      carry == IF low < added THEN 1 ELSE 0
  IN  <<low, (count[2] + carry + length \div 2^(WordBits - 3)) % 2^WordBits>>

(* How many blocks are transformed in place, without the buffer. *)
WholeBlocks(rest) == rest \div MD5Block

Process(p, data) ==
  LET index == Index(p)
      part  == MD5Block - index
      full  == Len(data) >= part
      start == IF full THEN 0 ELSE index
      taken == IF full THEN part + MD5Block * WholeBlocks(Len(data) - part)
                       ELSE 0
      begun == [i \in 1..MD5Block |-> IF i <= index THEN p.buffer[i-1]
                                                 ELSE data[i - index]]
      left  == Len(data) - taken
  IN  [p EXCEPT
        !.count = CountBits(@, Len(data)),
        !.hashed = IF full THEN @ \o begun \o SubSeq(data, part + 1, taken)
                           ELSE @,
        !.buffer = [i \in 0..MD5Block-1 |->
                      CASE i \in start .. start + left - 1 ->
                             data[taken + i - start + 1]
                        [] OTHER -> IF full THEN begun[i + 1] ELSE @[i]]]

(* Encode: the words, least byte first. *)
Encode(count) ==
  LET bytes == WordBits \div 8
  IN  [j \in 1..LengthBytes |->
         <<"length", (count[1 + (j - 1) \div bytes]
                        \div 2^(8 * ((j - 1) % bytes))) % 256>>]

Padding(n) == [i \in 1..n |-> <<"pad", IF i = 1 THEN 128 ELSE 0>>]

(* From the next byte's place to that of the length. *)
PadLen(index) ==
  IF index < MD5Block - LengthBytes THEN MD5Block - LengthBytes - index
                                 ELSE 2 * MD5Block - LengthBytes - index

(* Result: padding and length, once. *)
Result(p) ==
  IF p.final THEN p
  ELSE [Process(Process(p, Padding(PadLen(Index(p)))), Encode(p.count))
          EXCEPT !.final = TRUE]
=============================================================================
