-------------------------- MODULE RawDigest_proofs --------------------------
(***************************************************************************)
(* Theorems about RawDigest and their proofs: the digest of an image is    *)
(* the MD5 of all its pixels, for images and buffers of every size.        *)
(*                                                                         *)
(* Three parts meet: what the printer does with a piece of the message of  *)
(* any length, what it makes of the whole (padding, and the count of bits  *)
(* in two words that overflow), and the tiles in which the image is read.  *)
(***************************************************************************)
EXTENDS RawDigest, SequenceTheorems, TLAPS

\* There is one way to divide with rest.
LEMMA DivisionIs ==
  ASSUME NEW b \in Nat, b > 0, NEW q \in Int, NEW r \in 0..b - 1
  PROVE  (b * q + r) \div b = q /\ (b * q + r) % b = r
<1> DEFINE a == b * q + r
           x == a \div b
           y == a % b
<1>1. x \in Int /\ y \in 0..b - 1 /\ a = b * x + y
  OBVIOUS
<1>2. b * q + r = b * x + y
  BY <1>1
<1> HIDE DEF a, x, y
<1>3. ~(q < x)
  <2> SUFFICES ASSUME q < x
               PROVE  FALSE
    OBVIOUS
  <2>1. PICK d \in Nat : x = q + 1 + d
    <3>1. x - q - 1 \in Nat /\ x = q + 1 + (x - q - 1)
      BY <1>1
    <3> QED
      BY <3>1
  <2>2. b * x = b * q + b + b * d /\ b * d \in Nat
    BY <2>1
  <2> QED
    BY <1>1, <1>2, <2>2
<1>4. ~(x < q)
  <2> SUFFICES ASSUME x < q
               PROVE  FALSE
    OBVIOUS
  <2>1. PICK d \in Nat : q = x + 1 + d
    <3>1. q - x - 1 \in Nat /\ q = x + 1 + (q - x - 1)
      BY <1>1
    <3> QED
      BY <3>1
  <2>2. b * q = b * x + b + b * d /\ b * d \in Nat
    BY <1>1, <2>1
  <2> QED
    BY <1>1, <1>2, <2>2
<1>5. x = q
  BY <1>1, <1>3, <1>4
<1>6. y = r
  BY <1>1, <1>2, <1>5
<1> QED
  BY <1>5, <1>6 DEF x, y, a

\* A natural number divided with rest.
LEMMA DivisionOf ==
  ASSUME NEW a \in Nat, NEW b \in Nat, b > 0
  PROVE  /\ a \div b \in Nat /\ a % b \in 0..b - 1
         /\ a = b * (a \div b) + (a % b)
<1> DEFINE x == a \div b
           y == a % b
<1>1. x \in Int /\ y \in 0..b - 1 /\ a = b * x + y
  OBVIOUS
<1> HIDE DEF x, y
<1>2. x >= 0
  <2> SUFFICES ASSUME x < 0
               PROVE  FALSE
    BY <1>1
  <2>1. PICK k \in Nat : x = -1 - k
    <3>1. -1 - x \in Nat /\ x = -1 - (-1 - x)
      BY <1>1
    <3> QED
      BY <3>1
  <2>2. b * x = -b - b * k /\ b * k \in Nat
    BY <2>1
  <2> QED
    BY <1>1, <2>2
<1>3. x \in Nat /\ y \in 0..b - 1 /\ a = b * x + y
  BY <1>1, <1>2
<1> QED
  BY <1>3 DEF x, y

\* Adding a multiple of the divisor does not change the rest.
LEMMA RestOfSum ==
  ASSUME NEW b \in Nat, b > 0, NEW k \in Nat, NEW a \in Nat
  PROVE  (b * k + a) % b = a % b /\ (b * k + a) \div b = k + (a \div b)
<1> DEFINE q == a \div b
           r == a % b
<1>1. q \in Nat /\ r \in 0..b - 1 /\ a = b * q + r
  BY DivisionOf
<1> HIDE DEF q, r
<1>2. b * k + a = b * (k + q) + r
  BY <1>1
<1>3. k + q \in Int
  BY <1>1
<1>4. (b * (k + q) + r) \div b = k + q /\ (b * (k + q) + r) % b = r
  BY <1>1, <1>3, DivisionIs
<1> QED
  BY <1>2, <1>4 DEF q, r

\* The rest of a sum is that of the sum of the rests.
LEMMA RestsAdd ==
  ASSUME NEW b \in Nat, b > 0, NEW x \in Nat, NEW y \in Nat
  PROVE  ((x % b) + y) % b = (x + y) % b
<1> DEFINE q == x \div b
           r == x % b
<1>1. q \in Nat /\ r \in 0..b - 1 /\ x = b * q + r
  BY DivisionOf
<1> HIDE DEF q, r
<1>2. x + y = b * q + (r + y) /\ r + y \in Nat
  BY <1>1
<1>3. (b * q + (r + y)) % b = (r + y) % b
  BY <1>1, <1>2, RestOfSum
<1> QED
  BY <1>2, <1>3 DEF r

-----------------------------------------------------------------------------
(* The two words that count the bits. *)

\* The powers that occur, as numbers.
LEMMA Powers ==
  /\ 2^5 = 32 /\ 2^8 = 256 /\ 2^13 = 8192 /\ 2^16 = 65536
  /\ 2^21 = 2097152 /\ 2^24 = 16777216 /\ 2^29 = 536870912
  /\ 2^32 = 4294967296
OBVIOUS

\* How far a word counts.
Span == 2^WordBits

\* It counts eight times as many bits as it counts bytes.
LEMMA SpanIs ==
  /\ Span \in Nat /\ Span > 0
  /\ 2^(WordBits - 3) \in Nat /\ 2^(WordBits - 3) > 0
  /\ Span = 8 * 2^(WordBits - 3)
<1>1. WordBits = 8 \/ WordBits = 16 \/ WordBits = 24 \/ WordBits = 32
  BY MD5Assumption DEF MD5Assumption
<1>2. CASE WordBits = 8
  <2>1. WordBits - 3 = 5
    BY <1>2
  <2> QED
    BY <1>2, <2>1, Powers DEF Span
<1>3. CASE WordBits = 16
  <2>1. WordBits - 3 = 13
    BY <1>3
  <2> QED
    BY <1>3, <2>1, Powers DEF Span
<1>4. CASE WordBits = 24
  <2>1. WordBits - 3 = 21
    BY <1>4
  <2> QED
    BY <1>4, <2>1, Powers DEF Span
<1>5. CASE WordBits = 32
  <2>1. WordBits - 3 = 29
    BY <1>5
  <2> QED
    BY <1>5, <2>1, Powers DEF Span
<1> QED
  BY <1>1, <1>2, <1>3, <1>4, <1>5

\* The two words that hold a number of bits.
WordsOf(bits) == <<bits % Span, (bits \div Span) % Span>>

\* CountBits adds the bits of a piece, whatever overflows: the sum in the first
\* word is less than what was added to it just when it has overflowed.
LEMMA CountBitsIs ==
  ASSUME NEW n \in Nat, NEW length \in Nat
  PROVE  CountBits(WordsOf(8 * n), length) = WordsOf(8 * (n + length))
<1> DEFINE M == Span
           T == 8 * n
           E == 8 * length
           added == E % M
           d == E \div M
           c == T % M
           t == T \div M
           low == (c + added) % M
           carry == IF low < added THEN 1 ELSE 0
<1>1. M \in Nat /\ M > 0 /\ T \in Nat /\ E \in Nat
  BY SpanIs
<1>2. c \in 0..M - 1 /\ t \in Nat /\ T = M * t + c
  BY <1>1, DivisionOf
<1>3. added \in 0..M - 1 /\ d \in Nat /\ E = M * d + added
  BY <1>1, DivisionOf
<1>4. length \div 2^(WordBits - 3) = d
  <2> DEFINE R == 2^(WordBits - 3)
             x == length \div R
             y == length % R
  <2>1. R \in Nat /\ R > 0 /\ M = 8 * R
    BY SpanIs
  <2> HIDE DEF R, M
  <2>2. x \in Nat /\ y \in 0..R - 1 /\ length = R * x + y
    BY <2>1, DivisionOf
  <2> HIDE DEF x, y
  <2>3. E = M * x + 8 * y /\ 8 * y \in 0..M - 1
    <3>1. 8 * (R * x) = (8 * R) * x /\ R * x \in Nat
      BY <2>1, <2>2
    <3> QED
      BY <2>1, <2>2, <3>1
  <2>4. (M * x + 8 * y) \div M = x
    <3> DEFINE z == 8 * y
    <3>1. z \in 0..M - 1 /\ M \in Nat /\ M > 0 /\ x \in Int
      BY <1>1, <2>2, <2>3
    <3> HIDE DEF z
    <3>2. (M * x + z) \div M = x
      BY <3>1, DivisionIs
    <3> QED
      BY <3>2 DEF z
  <2> QED
    BY <2>3, <2>4 DEF R, x
<1>5. length * 8 = E
  OBVIOUS
<1> HIDE DEF M, T, E, added, d, c, t
<1>6. PICK k \in {0, 1} : /\ low = c + added - M * k
                          /\ k = 1 <=> low < added
                          /\ low \in 0..M - 1
  <2>1. CASE c + added < M
    <3>1. c + added \in 0..M - 1
      BY <1>1, <1>2, <1>3, <2>1
    <3>2. (M * 0 + (c + added)) % M = c + added
      <4> DEFINE z == c + added
      <4>1. z \in 0..M - 1
        BY <3>1
      <4> HIDE DEF z
      <4>2. (M * 0 + z) % M = z
        BY <1>1, <4>1, DivisionIs
      <4> QED
        BY <4>2 DEF z
    <3>3. M * 0 + (c + added) = c + added
      BY <1>1, <3>1
    <3>4. low = c + added
      BY <3>2, <3>3
    <3>5. ~(low < added)
      BY <1>2, <1>3, <3>4
    <3>6. low = c + added - M * 0 /\ low \in 0..M - 1
      BY <1>1, <1>2, <1>3, <3>1, <3>4
    <3> HIDE DEF low
    <3> QED
      BY <3>5, <3>6
  <2>2. CASE ~(c + added < M)
    <3> DEFINE z == c + added - M
    <3>1. z \in 0..M - 1 /\ c + added = M * 1 + z
      BY <1>1, <1>2, <1>3, <2>2
    <3>2. z < added
      BY <1>1, <1>2, <1>3
    <3> HIDE DEF z
    <3>3. (M * 1 + z) % M = z
      BY <1>1, <3>1, DivisionIs
    <3>4. low = z
      BY <3>1, <3>3
    <3>5. z = c + added - M * 1
      BY <1>1 DEF z
    <3> QED
      BY <3>1, <3>2, <3>4, <3>5
  <2> QED
    BY <2>1, <2>2
<1> HIDE DEF low
<1>7. T + E = M * (t + d + k) + low
  BY <1>1, <1>2, <1>3, <1>6
<1>8. (T + E) % M = low /\ (T + E) \div M = t + d + k
  <2>1. t + d + k \in Int
    BY <1>2, <1>3
  <2>2. (M * (t + d + k) + low) % M = low
        /\ (M * (t + d + k) + low) \div M = t + d + k
    BY <1>1, <1>6, <2>1, DivisionIs
  <2> QED
    BY <1>7, <2>2
<1>9. carry = k
  BY <1>6
<1> HIDE DEF carry
<1>10. ((t % M) + carry + d) % M = (t + d + k) % M
  <2>1. k + d \in Nat
    BY <1>3
  <2>2. ((t % M) + (k + d)) % M = (t + (k + d)) % M
    BY <1>1, <1>2, <2>1, RestsAdd
  <2>3. t % M \in Nat
    BY <1>1, <1>2
  <2>4. (t % M) + carry + d = (t % M) + (k + d) /\ t + (k + d) = t + d + k
    BY <1>2, <1>3, <1>9, <2>3
  <2> QED
    BY <2>2, <2>4
<1>11. 8 * (n + length) = T + E
  BY DEF T, E
<1>12. WordsOf(T) = <<c, t % M>>
  BY DEF WordsOf, c, t, M
<1>13. WordsOf(8 * (n + length)) = <<low, (t + d + k) % M>>
  BY <1>8, <1>11 DEF WordsOf, M
<1>14. CountBits(WordsOf(T), length) = <<low, ((t % M) + carry + d) % M>>
  <2>1. WordsOf(T)[1] = c /\ WordsOf(T)[2] = t % M
    BY <1>12
  <2> QED
    BY <2>1, <1>4, <1>5 DEF CountBits, low, carry, added, M, Span
<1> QED
  BY <1>10, <1>13, <1>14 DEF T

-----------------------------------------------------------------------------
(* A printer and the message it has been given. *)

\* The bytes of a message: of an image, of the padding and of its length.
Bytes == ({"none", "pad", "length"} \cup Nat) \X Nat

\* The states of a printer.
Printers == [count : Nat \X Nat, buffer : [0..MD5Block - 1 -> Bytes],
             hashed : Seq(Bytes), final : BOOLEAN]

\* The printer p has been given the message m: it has counted the bits, the
\* whole blocks are transformed and the rest waits in the buffer.
Carries(p, m) ==
  /\ p \in Printers /\ m \in Seq(Bytes)
  /\ p.count = WordsOf(8 * Len(m))
  /\ Len(p.hashed) = MD5Block * (Len(m) \div MD5Block)
  /\ \A i \in 1..Len(p.hashed) : p.hashed[i] = m[i]
  /\ \A i \in 1..Len(m) % MD5Block : p.buffer[i - 1] = m[Len(p.hashed) + i]

\* A block has a byte at least.
LEMMA BlockIs == MD5Block \in Nat /\ MD5Block > 0
BY MD5Assumption DEF MD5Assumption

\* The first word of the count says how far a block is filled, also after it
\* has overflowed: its span is a number of whole blocks.
LEMMA PlaceOfCount ==
  ASSUME NEW n \in Nat
  PROVE  ((8 * n % Span) \div 8) % MD5Block = n % MD5Block
<1> DEFINE M == Span
           R == 2^(WordBits - 3)
           u == R \div MD5Block
           T == 8 * n
           t == T \div M
           c == T % M
           y == n - R * t
<1>1. M \in Nat /\ M > 0 /\ R \in Nat /\ R > 0 /\ M = 8 * R
  BY SpanIs
<1>2. u \in Nat /\ R = MD5Block * u
  <2>1. R % MD5Block = 0
    BY MD5Assumption DEF MD5Assumption
  <2>2. u \in Nat /\ R = MD5Block * u + (R % MD5Block)
    BY <1>1, BlockIs, DivisionOf
  <2>3. MD5Block * u \in Nat
    BY <2>2, BlockIs
  <2> HIDE DEF u, R
  <2> QED
    BY <2>1, <2>2, <2>3
<1>3. t \in Nat /\ c \in 0..M - 1 /\ 8 * n = M * t + c
  <2>1. \A a \in Nat : a \div M \in Nat /\ a % M \in 0..M - 1
                       /\ a = M * (a \div M) + (a % M)
    <3> HIDE DEF M
    <3> QED
      BY <1>1, DivisionOf
  <2>2. T \in Nat
    OBVIOUS
  <2> HIDE DEF M, T
  <2>3. t \in Nat /\ c \in 0..M - 1 /\ T = M * t + c
    BY <2>1, <2>2
  <2> HIDE DEF t, c
  <2> QED
    BY <2>3 DEF T
<1> HIDE DEF M, R, u, t, c
<1>4. c = 8 * y /\ y \in Int /\ R * t \in Nat
  <2>1. M * t = 8 * (R * t) /\ R * t \in Nat
    BY <1>1, <1>3
  <2> QED
    BY <1>3, <2>1
<1>5. y \in Nat /\ n = R * t + y
  BY <1>3, <1>4
<1> HIDE DEF y
<1>6. c \div 8 = y
  <2>1. (8 * y + 0) \div 8 = y
    BY <1>5, DivisionIs
  <2> QED
    BY <1>4, <1>5, <2>1
<1>7. R * t = MD5Block * (u * t) /\ u * t \in Nat
  BY <1>2, <1>3, BlockIs
<1>8. n % MD5Block = y % MD5Block
  <2>1. (MD5Block * (u * t) + y) % MD5Block = y % MD5Block
    BY <1>5, <1>7, BlockIs, RestOfSum
  <2> QED
    BY <1>5, <1>7, <2>1
<1> QED
  BY <1>6, <1>8 DEF c, M

\* So does Index.
LEMMA IndexIs ==
  ASSUME NEW p, NEW m, Carries(p, m)
  PROVE  Index(p) = Len(m) % MD5Block
<1>1. Len(m) \in Nat /\ p.count[1] = 8 * Len(m) % Span
  BY DEF Carries, WordsOf
<1> QED
  BY <1>1, PlaceOfCount DEF Index

\* Two sequences put together.
LEMMA Concatenated ==
  ASSUME NEW S, NEW s \in Seq(S), NEW t \in Seq(S)
  PROVE  /\ s \o t \in Seq(S) /\ Len(s \o t) = Len(s) + Len(t)
         /\ \A i \in 1..Len(s) : (s \o t)[i] = s[i]
         /\ \A i \in 1..Len(t) : (s \o t)[Len(s) + i] = t[i]
<1>1. s \o t \in Seq(S) /\ Len(s \o t) = Len(s) + Len(t)
  OBVIOUS
<1>2. \A i \in 1..Len(s) : (s \o t)[i] = s[i]
  OBVIOUS
<1>3. ASSUME NEW i \in 1..Len(t)
      PROVE  (s \o t)[Len(s) + i] = t[i]
  <2>1. Len(s) + i \in 1..Len(s) + Len(t) /\ ~(Len(s) + i <= Len(s))
        /\ (Len(s) + i) - Len(s) = i
    OBVIOUS
  <2> QED
    BY <2>1
<1> QED
  BY <1>1, <1>2, <1>3

\* Where the pieces of a message that is given more lie, when the new data fill
\* the block that was begun ...
LEMMA FullSplit ==
  ASSUME NEW n \in Nat, NEW l \in Nat, NEW x, x = n % MD5Block,
         l >= MD5Block - x
  PROVE  /\ MD5Block * (n \div MD5Block) = n - x
         /\ (l - (MD5Block - x)) \div MD5Block \in Nat
         /\ MD5Block * ((n + l) \div MD5Block)
              = n + (MD5Block - x)
                  + MD5Block * ((l - (MD5Block - x)) \div MD5Block)
         /\ (n + l) % MD5Block
              = l - (MD5Block - x)
                  - MD5Block * ((l - (MD5Block - x)) \div MD5Block)
         /\ (n + l) % MD5Block \in 0..MD5Block - 1
<1> DEFINE B == MD5Block
           q == n \div B
           e == l - (B - x)
           w == e \div B
           z == e % B
<1>1. B \in Nat /\ B > 0
  BY BlockIs
<1>2. q \in Nat /\ x \in 0..B - 1 /\ n = B * q + x /\ B * q \in Nat
  BY <1>1, DivisionOf
<1>3. e \in Nat
  BY <1>1, <1>2
<1>4. w \in Nat /\ z \in 0..B - 1 /\ e = B * w + z /\ B * w \in Nat
  <2>1. \A a \in Nat : a \div B \in Nat /\ a % B \in 0..B - 1
                       /\ a = B * (a \div B) + (a % B)
    BY <1>1, DivisionOf
  <2> HIDE DEF e
  <2>2. w \in Nat /\ z \in 0..B - 1 /\ e = B * w + z
    BY <1>3, <2>1
  <2> HIDE DEF w, z
  <2> QED
    BY <1>1, <2>2
<1> HIDE DEF q, w, z
<1>5. n + l = B * (q + 1 + w) + z /\ B * (q + 1 + w) = B * q + B + B * w
  <2>1. B * (q + 1 + w) = B * q + B + B * w
    BY <1>1, <1>2, <1>4
  <2>2. l = e + (B - x)
    BY <1>1, <1>2
  <2> HIDE DEF e
  <2> QED
    BY <1>1, <1>2, <1>3, <1>4, <2>1, <2>2
<1>6. (n + l) \div B = q + 1 + w /\ (n + l) % B = z
  <2>1. q + 1 + w \in Int
    BY <1>2, <1>4
  <2>2. (B * (q + 1 + w) + z) \div B = q + 1 + w /\ (B * (q + 1 + w) + z) % B = z
    BY <1>1, <1>4, <2>1, DivisionIs
  <2> QED
    BY <1>5, <2>2
<1> HIDE DEF B
<1>7. B * q = n - x
  BY <1>2
<1>8. B * ((n + l) \div B) = n + (B - x) + B * w
  BY <1>1, <1>2, <1>4, <1>5, <1>6
<1>9. (n + l) % B = l - (B - x) - B * w
  BY <1>1, <1>2, <1>3, <1>4, <1>6
<1> QED
  BY <1>4, <1>6, <1>7, <1>8, <1>9 DEF B, q, w

\* ... and when they do not.
LEMMA RestSplit ==
  ASSUME NEW n \in Nat, NEW l \in Nat, NEW x, x = n % MD5Block,
         ~(l >= MD5Block - x)
  PROVE  /\ MD5Block * (n \div MD5Block) = n - x
         /\ MD5Block * ((n + l) \div MD5Block) = n - x
         /\ (n + l) % MD5Block = x + l
<1> DEFINE B == MD5Block
           q == n \div B
<1>1. B \in Nat /\ B > 0
  BY BlockIs
<1>2. q \in Nat /\ x \in 0..B - 1 /\ n = B * q + x /\ B * q \in Nat
  BY <1>1, DivisionOf
<1> HIDE DEF q
<1>3. x + l \in 0..B - 1 /\ n + l = B * q + (x + l)
  BY <1>1, <1>2
<1>4. (n + l) \div B = q /\ (n + l) % B = x + l
  <2> DEFINE z == x + l
  <2>1. z \in 0..B - 1 /\ n + l = B * q + z /\ q \in Int
    BY <1>2, <1>3
  <2> HIDE DEF z
  <2>2. (B * q + z) \div B = q /\ (B * q + z) % B = z
    BY <1>1, <2>1, DivisionIs
  <2>3. (n + l) \div B = q /\ (n + l) % B = z
    BY <2>1, <2>2
  <2> QED
    BY <2>3 DEF z
<1> HIDE DEF B
<1>5. B * q = n - x
  BY <1>2
<1> QED
  BY <1>4, <1>5 DEF B, q

\* The parts of Process, named: the bytes missing from the block that was
\* begun, whether the data fill it, the bytes transformed, and the block.
PartOf(p) == MD5Block - Index(p)
FullFor(p, data) == Len(data) >= PartOf(p)
TakenOf(p, data) ==
  PartOf(p) + MD5Block * WholeBlocks(Len(data) - PartOf(p))
BegunOf(p, data) ==
  [i \in 1..MD5Block |-> IF i <= Index(p) THEN p.buffer[i - 1]
                         ELSE data[i - Index(p)]]

\* A printer with a new count, a new buffer and more transformed.
Changed(p, c, h, b) == [p EXCEPT !.count = c, !.hashed = h, !.buffer = b]

\* Its members.
LEMMA PrinterFields ==
  ASSUME NEW p \in Printers, NEW c, NEW h, NEW b
  PROVE  Changed(p, c, h, b)
           = [count |-> c, buffer |-> b, hashed |-> h, final |-> p.final]
<1>1. PICK r : r = [p EXCEPT !.count = c, !.hashed = h, !.buffer = b]
  OBVIOUS
<1>2. r = [count |-> c, buffer |-> b, hashed |-> h, final |-> p.final]
  BY <1>1 DEF Printers
<1> QED
  BY <1>1, <1>2, Zenon DEF Changed

\* The members of the printer after Process.
LEMMA ProcessIs ==
  ASSUME NEW p \in Printers, NEW data
  PROVE  /\ Process(p, data).count = CountBits(p.count, Len(data))
         /\ Process(p, data).final = p.final
         /\ Process(p, data).hashed =
              IF FullFor(p, data)
              THEN p.hashed \o BegunOf(p, data)
                     \o SubSeq(data, PartOf(p) + 1, TakenOf(p, data))
              ELSE p.hashed
         /\ Process(p, data).buffer =
              [i \in 0..MD5Block - 1 |->
                 IF FullFor(p, data)
                 THEN IF i \in 0..0 + (Len(data) - TakenOf(p, data)) - 1
                      THEN data[TakenOf(p, data) + i - 0 + 1]
                      ELSE BegunOf(p, data)[i + 1]
                 ELSE IF i \in Index(p)..Index(p) + (Len(data) - 0) - 1
                      THEN data[0 + i - Index(p) + 1]
                      ELSE p.buffer[i]]
         /\ Process(p, data) =
              [count |-> Process(p, data).count, buffer |-> Process(p, data).buffer,
               hashed |-> Process(p, data).hashed, final |-> Process(p, data).final]
<1> DEFINE index == Index(p)
           part  == MD5Block - index
           full  == Len(data) >= part
           start == IF full THEN 0 ELSE index
           taken == IF full THEN part + MD5Block * WholeBlocks(Len(data) - part)
                            ELSE 0
           begun == [i \in 1..MD5Block |-> IF i <= index THEN p.buffer[i-1]
                                                      ELSE data[i - index]]
           left  == Len(data) - taken
           C == CountBits(p.count, Len(data))
           H == IF full THEN p.hashed \o begun \o SubSeq(data, part + 1, taken)
                            ELSE p.hashed
           F == [i \in 0..MD5Block-1 |->
                      CASE i \in start .. start + left - 1 ->
                             data[taken + i - start + 1]
                        [] OTHER -> IF full THEN begun[i + 1] ELSE p.buffer[i]]
           r == Process(p, data)
<1>1. r = Changed(p, C, H, F)
  BY DEF Process, Changed
<1>2. H = IF FullFor(p, data)
          THEN p.hashed \o BegunOf(p, data)
                 \o SubSeq(data, PartOf(p) + 1, TakenOf(p, data))
          ELSE p.hashed
  BY DEF FullFor, PartOf, BegunOf, TakenOf
<1>3. F = [i \in 0..MD5Block - 1 |->
             IF FullFor(p, data)
             THEN IF i \in 0..0 + (Len(data) - TakenOf(p, data)) - 1
                  THEN data[TakenOf(p, data) + i - 0 + 1]
                  ELSE BegunOf(p, data)[i + 1]
             ELSE IF i \in Index(p)..Index(p) + (Len(data) - 0) - 1
                  THEN data[0 + i - Index(p) + 1]
                  ELSE p.buffer[i]]
  <2>1. CASE full
    BY <2>1 DEF FullFor, PartOf, BegunOf, TakenOf
  <2>2. CASE ~full
    BY <2>2 DEF FullFor, PartOf
  <2> QED
    BY <2>1, <2>2
<1> HIDE DEF H, F, C, r
<1>4. r = [count |-> C, buffer |-> F, hashed |-> H, final |-> p.final]
  BY <1>1, PrinterFields
<1>5. r.count = C /\ r.hashed = H /\ r.buffer = F /\ r.final = p.final
  BY <1>4
<1> QED
  BY <1>2, <1>3, <1>4, <1>5 DEF C, r

\* What a carrying printer promises, without the record.
LEMMA CarriesFacts ==
  ASSUME NEW p, NEW m, Carries(p, m)
  PROVE  /\ p \in Printers /\ m \in Seq(Bytes) /\ Len(m) \in Nat
         /\ p.hashed \in Seq(Bytes) /\ p.buffer \in [0..MD5Block - 1 -> Bytes]
         /\ Index(p) = Len(m) % MD5Block
         /\ Index(p) \in 0..MD5Block - 1
         /\ p.count = WordsOf(8 * Len(m))
         /\ Len(p.hashed) = Len(m) - Index(p)
         /\ \A i \in 1..Len(m) - Index(p) : p.hashed[i] = m[i]
         /\ \A i \in 1..Index(p) : p.buffer[i - 1] = m[Len(m) - Index(p) + i]
<1>1. p \in Printers /\ m \in Seq(Bytes) /\ Len(m) \in Nat
  BY DEF Carries
<1>2. p.hashed \in Seq(Bytes) /\ p.buffer \in [0..MD5Block - 1 -> Bytes]
  BY <1>1 DEF Printers
<1>3. Index(p) = Len(m) % MD5Block
  BY IndexIs
<1>4. /\ Len(m) \div MD5Block \in Nat /\ Len(m) % MD5Block \in 0..MD5Block - 1
      /\ Len(m) = MD5Block * (Len(m) \div MD5Block) + (Len(m) % MD5Block)
  BY <1>1, BlockIs, DivisionOf
<1>5. Len(p.hashed) = MD5Block * (Len(m) \div MD5Block)
  BY DEF Carries
<1>6. Len(p.hashed) = Len(m) - Index(p)
  <2> DEFINE a == MD5Block * (Len(m) \div MD5Block)
             b == Len(m) % MD5Block
  <2>1. b \in 0..MD5Block - 1 /\ Len(m) = a + b /\ a \in Nat
    BY <1>2, <1>4, <1>5
  <2>2. Len(p.hashed) = a /\ Index(p) = b
    BY <1>3, <1>5
  <2> HIDE DEF a, b
  <2> QED
    BY <2>1, <2>2, <1>1
<1> QED
  BY <1>1, <1>2, <1>3, <1>4, <1>6 DEF Carries

\* A part of a sequence.
LEMMA PartOfSequence ==
  ASSUME NEW S, NEW s \in Seq(S), NEW a \in Nat, NEW b \in Nat,
         a <= b, b <= Len(s)
  PROVE  /\ SubSeq(s, a + 1, b) \in Seq(S) /\ Len(SubSeq(s, a + 1, b)) = b - a
         /\ \A i \in 1..b - a : SubSeq(s, a + 1, b)[i] = s[a + i]
<1> DEFINE sub == SubSeq(s, a + 1, b)
<1>1. Len(sub) = b - a
  <2>1. CASE a + 1 <= b
    BY <2>1
  <2>2. CASE ~(a + 1 <= b)
    BY <2>2
  <2> QED
    BY <2>1, <2>2
<1>2. ASSUME NEW i \in 1..b - a
      PROVE  sub[i] = s[a + i]
  <2>1. a + 1 + i - 1 = a + i
    OBVIOUS
  <2>2. sub[i] = s[a + 1 + i - 1]
    OBVIOUS
  <2> QED
    BY <2>1, <2>2
<1>3. sub \in Seq(S)
  <2>1. \A i \in a + 1..b : s[i] \in S
    OBVIOUS
  <2> QED
    BY <2>1
<1> QED
  BY <1>1, <1>2, <1>3

\* The sequence all is s, of a elements, and behind it t, of b elements.
Joins(all, S, s, t, a, b) ==
  /\ all \in Seq(S) /\ Len(all) = a + b
  /\ \A i \in 1..a : all[i] = s[i]
  /\ \A i \in 1..b : all[a + i] = t[i]

\* Two sequences put together are joined.
LEMMA JoinsAt ==
  ASSUME NEW S, NEW s \in Seq(S), NEW t \in Seq(S),
         NEW a \in Nat, NEW b \in Nat, Len(s) = a, Len(t) = b
  PROVE  Joins(s \o t, S, s, t, a, b)
<1> DEFINE all == s \o t
<1>1. all \in Seq(S)
  OBVIOUS
<1>2. Len(all) = a + b
  OBVIOUS
<1>3. \A i \in 1..a : all[i] = s[i]
  OBVIOUS
<1>4. ASSUME NEW i \in 1..b
      PROVE  all[a + i] = t[i]
  OBVIOUS
<1> HIDE DEF all
<1>5. Joins(all, S, s, t, a, b)
  BY <1>1, <1>2, <1>3, <1>4 DEF Joins
<1> QED
  BY <1>5 DEF all

\* The sequence s is the first k elements of all.
Starts(S, s, all, k) ==
  s \in Seq(S) /\ Len(s) = k /\ \A i \in 1..k : s[i] = all[i]

\* What has been transformed (h elements of m), the block that was begun (the x
\* others of m and e of the data) and w more elements of the data: their sizes
\* ...
ThreeSizes(h, x, e, w, l, n, b, c) ==
  /\ h \in Nat /\ x \in Nat /\ e \in Nat /\ w \in Nat
  /\ l \in Nat /\ n \in Nat /\ b \in Nat /\ c \in Nat
  /\ n = h + x /\ b = x + e /\ c = h + b /\ e + w <= l

\* ... and their elements.
ThreeMeet(S, m, data, hashed, begun, h, x, e, w, l, n, b, c) ==
  /\ m \in Seq(S) /\ data \in Seq(S) /\ hashed \in Seq(S) /\ begun \in Seq(S)
  /\ Len(m) = n /\ Len(data) = l /\ Len(hashed) = h /\ Len(begun) = b
  /\ \A i \in 1..h : hashed[i] = m[i]
  /\ \A i \in 1..x : begun[i] = m[h + i]
  /\ \A i \in 1..e : begun[x + i] = data[i]

\* Together they are the start of the message and the data.
LEMMA ThreeParts ==
  ASSUME NEW S, NEW m, NEW data, NEW hashed, NEW begun, NEW h, NEW x, NEW e,
         NEW w, NEW l, NEW n, NEW b, NEW c, ThreeSizes(h, x, e, w, l, n, b, c),
         ThreeMeet(S, m, data, hashed, begun, h, x, e, w, l, n, b, c)
  PROVE  Starts(S, hashed \o begun \o SubSeq(data, e + 1, e + w), m \o data,
                c + w)
<1>1. /\ h \in Nat /\ x \in Nat /\ e \in Nat /\ w \in Nat
      /\ l \in Nat /\ n \in Nat /\ b \in Nat /\ c \in Nat
      /\ n = h + x /\ b = x + e /\ c = h + b /\ e + w <= l
  BY DEF ThreeSizes
<1>2. /\ m \in Seq(S) /\ data \in Seq(S) /\ hashed \in Seq(S)
      /\ begun \in Seq(S)
      /\ Len(m) = n /\ Len(data) = l /\ Len(hashed) = h /\ Len(begun) = b
      /\ \A i \in 1..h : hashed[i] = m[i]
      /\ \A i \in 1..x : begun[i] = m[h + i]
      /\ \A i \in 1..e : begun[x + i] = data[i]
  BY DEF ThreeMeet
<1> DEFINE new == hashed \o begun \o SubSeq(data, e + 1, e + w)
<1>3. new = hashed \o begun \o SubSeq(data, e + 1, e + w)
  OBVIOUS
<1> HIDE DEF new
<1>4. SUFFICES Starts(S, new, m \o data, c + w)
  BY <1>3
<1> USE <1>1, <1>2, <1>3
<1> DEFINE all == m \o data
           two == hashed \o begun
           sub == SubSeq(data, e + 1, e + w)
<1>5. Joins(all, S, m, data, n, l)
  BY JoinsAt
<1>6. e + w - e = w /\ e <= e + w /\ e + w \in Nat /\ e + w <= Len(data)
  OBVIOUS
<1>7. /\ sub \in Seq(S) /\ Len(sub) = w
      /\ \A i \in 1..w : sub[i] = data[e + i]
  BY <1>6, PartOfSequence
<1>8. Joins(two, S, hashed, begun, h, b)
  BY JoinsAt
<1>9. new = two \o sub
  OBVIOUS
<1> HIDE DEF all, two, sub
<1>10. Joins(new, S, two, sub, c, w)
  <2>1. two \in Seq(S) /\ Len(two) = c
    BY <1>8 DEF Joins
  <2> QED
    BY <1>7, <1>9, <2>1, JoinsAt
<1>11. ASSUME NEW i \in 1..h
      PROVE  new[i] = all[i]
  <2>1. i \in 1..c /\ i \in 1..n
    OBVIOUS
  <2> QED
    BY <1>5, <1>8, <1>10, <2>1 DEF Joins
<1>12. ASSUME NEW k \in 1..x
      PROVE  new[h + k] = all[h + k]
  <2>1. k \in 1..b /\ h + k \in 1..c /\ h + k \in 1..n
    OBVIOUS
  <2>2. new[h + k] = two[h + k] /\ all[h + k] = m[h + k]
    BY <1>5, <1>10, <2>1 DEF Joins
  <2>3. two[h + k] = begun[k]
    BY <1>8, <2>1 DEF Joins
  <2> QED
    BY <2>2, <2>3
<1>13. ASSUME NEW k \in 1..e
      PROVE  new[h + (x + k)] = all[h + (x + k)]
  <2>1. h + (x + k) = n + k /\ k \in 1..l
    OBVIOUS
  <2>2. x + k \in 1..b /\ h + (x + k) \in 1..c
    OBVIOUS
  <2>3. new[h + (x + k)] = begun[x + k]
    BY <1>8, <1>10, <2>2 DEF Joins
  <2> QED
    BY <1>5, <2>1, <2>3 DEF Joins
<1>14. ASSUME NEW k \in 1..w
       PROVE  new[c + k] = all[c + k]
  <2>1. c + k = n + (e + k) /\ e + k \in 1..l
    OBVIOUS
  <2>2. new[c + k] = sub[k] /\ sub[k] = data[e + k]
    BY <1>7, <1>10 DEF Joins
  <2>3. all[n + (e + k)] = data[e + k]
    BY <1>5, <2>1 DEF Joins
  <2> QED
    BY <2>1, <2>2, <2>3
<1>15. ASSUME NEW i \in 1..c + w
       PROVE  new[i] = all[i]
  <2>1. CASE i <= h
    <3>1. i \in 1..h
      BY <2>1
    <3> QED
      BY <1>11, <3>1
  <2>2. CASE ~(i <= h) /\ i <= h + x
    <3>1. i - h \in 1..x /\ h + (i - h) = i
      BY <2>2
    <3> QED
      BY <1>12, <3>1
  <2>3. CASE ~(i <= h + x) /\ i <= c
    <3>1. i - h - x \in 1..e /\ h + (x + (i - h - x)) = i
      BY <2>3
    <3> QED
      BY <1>13, <3>1
  <2>4. CASE ~(i <= c)
    <3>1. i - c \in 1..w /\ c + (i - c) = i
      BY <2>4
    <3> QED
      BY <1>14, <3>1
  <2> QED
    BY <2>1, <2>2, <2>3, <2>4
<1>16. Starts(S, new, all, c + w)
  BY <1>10, <1>15 DEF Joins, Starts
<1> QED
  BY <1>16 DEF all

\* The sizes when the data fill the block: h transformed, x in the buffer, e to
\* fill the block, w in whole blocks, r that are left ...
FullSizes(n, l, x, h, e, w, r) ==
  /\ n = h + x /\ MD5Block = x + e /\ l = e + w + r /\ r < MD5Block

\* ... and what the blocks of the whole are.
FullBlocks(n, l, h, e, w, r) ==
  /\ w = MD5Block * ((l - e) \div MD5Block)
  /\ (n + l) % MD5Block = r
  /\ MD5Block * ((n + l) \div MD5Block) = h + MD5Block + w

\* There are such sizes.
LEMMA FullNumbers ==
  ASSUME NEW n \in Nat, NEW l \in Nat, NEW x \in 0..MD5Block - 1,
         x = n % MD5Block, l >= MD5Block - x
  PROVE  \E h \in Nat, e \in Nat, w \in Nat, r \in Nat :
           /\ h = n - x /\ e = MD5Block - x
           /\ FullSizes(n, l, x, h, e, w, r) /\ FullBlocks(n, l, h, e, w, r)
<1> DEFINE e == MD5Block - x
           w == MD5Block * ((l - e) \div MD5Block)
           r == (n + l) % MD5Block
           h == n - x
           u == MD5Block * ((n + l) \div MD5Block)
           v == MD5Block * (n \div MD5Block)
           q == (l - e) \div MD5Block
<1>1. /\ v = n - x
      /\ q \in Nat
      /\ u = n + e + w
      /\ r = l - e - w
      /\ r \in 0..MD5Block - 1
  BY FullSplit
<1>2. MD5Block \in Nat /\ MD5Block > 0
  BY BlockIs
<1>3. v \in Nat
  <2>1. n \div MD5Block \in Nat
    BY <1>2, DivisionOf
  <2> QED
    BY <1>2, <2>1
<1>4. w \in Nat
  <2> HIDE DEF q
  <2>1. MD5Block * q \in Nat
    BY <1>1, <1>2
  <2> QED
    BY <2>1 DEF q
<1>5. e \in Nat /\ MD5Block = x + e
  BY <1>2
<1> HIDE DEF u, v, w, r
<1>6. h \in Nat /\ r \in Nat /\ n = h + x /\ l = e + w + r /\ r < MD5Block
      /\ u = h + MD5Block + w /\ v = h
  BY <1>1, <1>2, <1>3, <1>4, <1>5
<1> HIDE DEF h, e, q
<1>7. FullSizes(n, l, x, h, e, w, r)
  BY <1>5, <1>6 DEF FullSizes, e
<1>8. FullBlocks(n, l, h, e, w, r)
  <2>1. w = MD5Block * ((l - e) \div MD5Block)
    BY DEF w
  <2>2. (n + l) % MD5Block = r
    BY DEF r
  <2>3. MD5Block * ((n + l) \div MD5Block) = h + MD5Block + w
    BY <1>6 DEF u
  <2> QED
    BY <2>1, <2>2, <2>3 DEF FullBlocks
<1>9. h = n - x /\ e = MD5Block - x
  BY DEF h, e
<1> QED
  BY <1>4, <1>5, <1>6, <1>7, <1>8, <1>9

\* The two words are naturals.
LEMMA WordsAre ==
  ASSUME NEW n \in Nat
  PROVE  WordsOf(8 * n) \in Nat \X Nat
<1> DEFINE t == 8 * n
<1>1. t \in Nat
  OBVIOUS
<1> HIDE DEF t
<1>2. \A a \in Nat : a \div Span \in Nat /\ a % Span \in Nat
  <2>1. \A a \in Nat : a \div Span \in Nat /\ a % Span \in 0..Span - 1
    BY SpanIs, DivisionOf
  <2> QED
    BY <2>1, SpanIs
<1>3. WordsOf(t) \in Nat \X Nat
  BY <1>1, <1>2 DEF WordsOf
<1> QED
  BY <1>3 DEF t

\* The block that was begun in the buffer goes on with the data.
BegunRight(begun, buffer, data, x, e) ==
  /\ begun \in Seq(Bytes) /\ Len(begun) = MD5Block
  /\ \A i \in 1..x : begun[i] = buffer[i - 1]
  /\ \A i \in 1..e : begun[x + i] = data[i]

\* It does.
LEMMA BegunIs ==
  ASSUME NEW p, p.buffer \in [0..MD5Block - 1 -> Bytes], NEW x \in Nat, NEW e \in Nat,
         MD5Block = x + e, Index(p) = x,
         NEW data \in Seq(Bytes), NEW l \in Nat, Len(data) = l, e <= l
  PROVE  BegunRight(BegunOf(p, data), p.buffer, data, x, e)
<1> DEFINE B == MD5Block
           begun == BegunOf(p, data)
<1>1. begun = [i \in 1..B |-> IF i <= x THEN p.buffer[i - 1] ELSE data[i - x]]
  BY DEF BegunOf
<1> HIDE DEF begun
<1>2. B \in Nat
  BY BlockIs
<1>3. ASSUME NEW i \in 1..B, i <= x
      PROVE  begun[i] = p.buffer[i - 1] /\ begun[i] \in Bytes
  <2>1. i - 1 \in 0..B - 1
    OBVIOUS
  <2> QED
    BY <1>1, <1>3, <2>1
<1>4. ASSUME NEW i \in 1..B, ~(i <= x)
      PROVE  begun[i] = data[i - x] /\ begun[i] \in Bytes
  <2>1. i - x \in 1..l
    BY <1>4
  <2>2. data[i - x] \in Bytes
    BY <2>1
  <2> QED
    BY <1>1, <1>4, <2>2
<1>5. begun \in [1..B -> Bytes]
  BY <1>1, <1>3, <1>4
<1>6. begun \in Seq(Bytes) /\ Len(begun) = B
  BY <1>2, <1>5
<1>7. \A i \in 1..x : begun[i] = p.buffer[i - 1]
  <2>1. ASSUME NEW i \in 1..x PROVE i \in 1..B /\ i <= x
    OBVIOUS
  <2> QED
    BY <1>3, <2>1
<1>8. ASSUME NEW i \in 1..e
      PROVE  begun[x + i] = data[i]
  <2>1. x + i \in 1..B /\ ~(x + i <= x) /\ (x + i) - x = i
    OBVIOUS
  <2> QED
    BY <1>4, <2>1
<1> QED
  BY <1>6, <1>7, <1>8 DEF begun, BegunRight

\* The buffer after a block was filled.
LEMMA BufferFull ==
  ASSUME NEW p \in Printers, NEW data, FullFor(p, data)
  PROVE  Process(p, data).buffer =
           [i \in 0..MD5Block - 1 |->
              IF i \in 0..0 + (Len(data) - TakenOf(p, data)) - 1
              THEN data[TakenOf(p, data) + i - 0 + 1]
              ELSE BegunOf(p, data)[i + 1]]
<1>1. Process(p, data).buffer =
              [i \in 0..MD5Block - 1 |->
                 IF FullFor(p, data)
                 THEN IF i \in 0..0 + (Len(data) - TakenOf(p, data)) - 1
                      THEN data[TakenOf(p, data) + i - 0 + 1]
                      ELSE BegunOf(p, data)[i + 1]
                 ELSE IF i \in Index(p)..Index(p) + (Len(data) - 0) - 1
                      THEN data[0 + i - Index(p) + 1]
                      ELSE p.buffer[i]]
  BY ProcessIs
<1> QED
  BY <1>1, Zenon

\* dng_md5_printer::Process, when the data fill the block that was begun: the
\* printer has been given the message and the data.
LEMMA ProcessFullCarries ==
  ASSUME NEW p, NEW m, Carries(p, m), NEW data \in Seq(Bytes),
         FullFor(p, data)
  PROVE  Carries(Process(p, data), m \o data)
<1> DEFINE n == Len(m)
           l == Len(data)
           x == Index(p)
           begun == BegunOf(p, data)
           new == Process(p, data)
           all == m \o data
<1>1. /\ p \in Printers /\ m \in Seq(Bytes) /\ n \in Nat /\ l \in Nat
      /\ p.hashed \in Seq(Bytes) /\ p.buffer \in [0..MD5Block - 1 -> Bytes]
      /\ x = n % MD5Block /\ x \in 0..MD5Block - 1
      /\ p.count = WordsOf(8 * n)
      /\ Len(p.hashed) = n - x
      /\ \A i \in 1..n - x : p.hashed[i] = m[i]
      /\ \A i \in 1..x : p.buffer[i - 1] = m[n - x + i]
  BY CarriesFacts
<1>2. l >= MD5Block - x
  BY DEF FullFor, PartOf
<1>3. /\ new.count = CountBits(p.count, l)
      /\ new.final = p.final
      /\ new.hashed = p.hashed \o begun
                        \o SubSeq(data, PartOf(p) + 1, TakenOf(p, data))
      /\ new.buffer =
              [i \in 0..MD5Block - 1 |->
                 IF i \in 0..0 + (l - TakenOf(p, data)) - 1
                 THEN data[TakenOf(p, data) + i - 0 + 1] ELSE begun[i + 1]]
      /\ new = [count |-> new.count, buffer |-> new.buffer,
                hashed |-> new.hashed, final |-> new.final]
  <2> HIDE DEF new, begun
  <2>1. /\ new.count = CountBits(p.count, l) /\ new.final = p.final
        /\ new = [count |-> new.count, buffer |-> new.buffer,
                  hashed |-> new.hashed, final |-> new.final]
    BY <1>1, ProcessIs DEF new
  <2>2. new.hashed = p.hashed \o begun
                        \o SubSeq(data, PartOf(p) + 1, TakenOf(p, data))
    <3>1. Process(p, data).hashed =
              IF FullFor(p, data)
              THEN p.hashed \o BegunOf(p, data)
                     \o SubSeq(data, PartOf(p) + 1, TakenOf(p, data))
              ELSE p.hashed
      BY <1>1, ProcessIs
    <3> QED
      BY <3>1 DEF new, begun
  <2>3. new.buffer =
              [i \in 0..MD5Block - 1 |->
                 IF i \in 0..0 + (l - TakenOf(p, data)) - 1
                 THEN data[TakenOf(p, data) + i - 0 + 1] ELSE begun[i + 1]]
    BY <1>1, BufferFull DEF new, begun, l
  <2> QED
    BY <2>1, <2>2, <2>3
<1> HIDE DEF new, begun, n, l, x, all
<1>4. PICK h \in Nat, e \in Nat, w \in Nat, r \in Nat :
           /\ h = n - x /\ e = MD5Block - x
           /\ FullSizes(n, l, x, h, e, w, r) /\ FullBlocks(n, l, h, e, w, r)
  BY <1>1, <1>2, FullNumbers
<1>5. PartOf(p) = e /\ TakenOf(p, data) = e + w
  <2>1. PartOf(p) = e
    BY <1>4 DEF PartOf, x
  <2> QED
    BY <1>4, <2>1 DEF TakenOf, WholeBlocks, l, FullBlocks
<1>6. MD5Block \in Nat /\ x \in Nat /\ h + MD5Block \in Nat /\ e <= l /\ e + w <= l
      /\ e + w \in Nat /\ MD5Block = x + e /\ n = h + x /\ l = e + w + r
      /\ r < MD5Block /\ r = l - (e + w)
  <2>1. x \in Nat /\ l \in Nat /\ n \in Nat /\ MD5Block \in Nat
    BY <1>1, BlockIs
  <2> QED
    BY <1>4, <2>1 DEF FullSizes
<1>7. /\ begun \in Seq(Bytes) /\ Len(begun) = MD5Block
      /\ \A i \in 1..x : begun[i] = p.buffer[i - 1]
      /\ \A i \in 1..e : begun[x + i] = data[i]
  <2>1. Index(p) = x /\ Len(data) = l
    BY DEF x, l
  <2>2. /\ p.buffer \in [0..MD5Block - 1 -> Bytes]
        /\ x \in Nat /\ MD5Block = x + e /\ l \in Nat /\ e <= l
    BY <1>1, <1>6
  <2>3. BegunRight(BegunOf(p, data), p.buffer, data, x, e)
    BY <2>1, <2>2, BegunIs
  <2> QED
    BY <2>3 DEF BegunRight, begun
<1>8. \A i \in 1..x : begun[i] = m[h + i]
  BY <1>1, <1>4, <1>7
<1>9. new.hashed = p.hashed \o begun \o SubSeq(data, e + 1, e + w)
  BY <1>3, <1>5
<1>10. Len(m) = n /\ Len(data) = l /\ Len(p.hashed) = h
       /\ \A i \in 1..h : p.hashed[i] = m[i]
  BY <1>1, <1>4 DEF n, l
<1>11. /\ new.hashed \in Seq(Bytes) /\ Len(new.hashed) = h + MD5Block + w
       /\ \A i \in 1..h + MD5Block + w : new.hashed[i] = all[i]
  <2> DEFINE c == h + MD5Block
  <2>1. c \in Nat /\ c = h + MD5Block
    BY <1>6
  <2> HIDE DEF c
  <2>2. ThreeSizes(h, x, e, w, l, n, MD5Block, c)
    BY <1>1, <1>6, <2>1 DEF ThreeSizes
  <2>3. ThreeMeet(Bytes, m, data, p.hashed, begun, h, x, e, w, l, n, MD5Block, c)
    BY <1>1, <1>7, <1>8, <1>10 DEF ThreeMeet
  <2>4. Starts(Bytes, new.hashed, m \o data, c + w)
    BY <1>9, <2>2, <2>3, ThreeParts
  <2> QED
    BY <2>1, <2>4 DEF all, Starts
<1>12. Joins(all, Bytes, m, data, n, l)
  BY <1>1, <1>10, JoinsAt DEF all
<1>13. new.count = WordsOf(8 * (n + l)) /\ new.count \in Nat \X Nat
  <2>1. n \in Nat /\ l \in Nat /\ n + l \in Nat
    BY <1>1
  <2>2. CountBits(WordsOf(8 * n), l) = WordsOf(8 * (n + l))
    BY <2>1, CountBitsIs
  <2>3. WordsOf(8 * (n + l)) \in Nat \X Nat
    BY <2>1, WordsAre
  <2>4. new.count = CountBits(WordsOf(8 * n), l)
    BY <1>1, <1>3
  <2> QED
    BY <2>2, <2>3, <2>4
<1>14. new.buffer = [i \in 0..MD5Block - 1 |->
                      IF i \in 0..0 + (l - (e + w)) - 1
                      THEN data[(e + w) + i - 0 + 1] ELSE begun[i + 1]]
  BY <1>3, <1>5
<1>15. ASSUME NEW i \in 0..MD5Block - 1, i < r
       PROVE  /\ new.buffer[i] = data[(e + w) + i + 1]
              /\ new.buffer[i] \in Bytes
  <2>1. /\ i \in 0..0 + (l - (e + w)) - 1 /\ (e + w) + i + 1 \in 1..l
        /\ (e + w) + i - 0 + 1 = (e + w) + i + 1
    BY <1>6, <1>15
  <2>2. data[(e + w) + i + 1] \in Bytes
    BY <1>10, <2>1
  <2> QED
    BY <1>14, <2>1, <2>2
<1>16. ASSUME NEW i \in 0..MD5Block - 1, ~(i < r)
       PROVE  new.buffer[i] \in Bytes
  <2>1. i \notin 0..0 + (l - (e + w)) - 1 /\ i + 1 \in 1..MD5Block
    BY <1>6, <1>16
  <2>2. begun[i + 1] \in Bytes
    BY <1>7, <2>1
  <2> QED
    BY <1>14, <2>1, <2>2
<1>17. new.buffer \in [0..MD5Block - 1 -> Bytes]
  BY <1>14, <1>15, <1>16
<1>18. ASSUME NEW i \in 1..r
       PROVE  new.buffer[i - 1] = all[h + MD5Block + w + i]
  <2>1. /\ i - 1 \in 0..MD5Block - 1 /\ i - 1 < r
        /\ (e + w) + (i - 1) + 1 = (e + w) + i /\ (e + w) + i \in 1..l
        /\ h + MD5Block + w + i = n + ((e + w) + i)
    BY <1>6
  <2>2. new.buffer[i - 1] = data[(e + w) + i]
    BY <1>15, <2>1
  <2>3. all[n + ((e + w) + i)] = data[(e + w) + i]
    BY <1>12, <2>1 DEF Joins
  <2> QED
    BY <2>1, <2>2, <2>3
<1>19. new \in Printers
  BY <1>1, <1>3, <1>11, <1>13, <1>17 DEF Printers
<1>20. all \in Seq(Bytes) /\ Len(all) = n + l
  BY <1>12 DEF Joins
<1>21. Carries(new, all)
  <2>1. Len(new.hashed) = MD5Block * (Len(all) \div MD5Block)
    BY <1>4, <1>11, <1>20 DEF FullBlocks
  <2>2. \A i \in 1..Len(new.hashed) : new.hashed[i] = all[i]
    BY <1>11
  <2>3. \A i \in 1..Len(all) % MD5Block :
          new.buffer[i - 1] = all[Len(new.hashed) + i]
    BY <1>4, <1>11, <1>18, <1>20 DEF FullBlocks
  <2> QED
    BY <1>13, <1>19, <1>20, <2>1, <2>2, <2>3 DEF Carries
<1> QED
  BY <1>21 DEF new, all

\* The buffer after data that did not fill the block.
LEMMA BufferRest ==
  ASSUME NEW p \in Printers, NEW data, ~FullFor(p, data)
  PROVE  Process(p, data).buffer =
           [i \in 0..MD5Block - 1 |->
              IF i \in Index(p)..Index(p) + (Len(data) - 0) - 1
              THEN data[0 + i - Index(p) + 1] ELSE p.buffer[i]]
<1>1. Process(p, data).buffer =
              [i \in 0..MD5Block - 1 |->
                 IF FullFor(p, data)
                 THEN IF i \in 0..0 + (Len(data) - TakenOf(p, data)) - 1
                      THEN data[TakenOf(p, data) + i - 0 + 1]
                      ELSE BegunOf(p, data)[i + 1]
                 ELSE IF i \in Index(p)..Index(p) + (Len(data) - 0) - 1
                      THEN data[0 + i - Index(p) + 1]
                      ELSE p.buffer[i]]
  BY ProcessIs
<1> QED
  BY <1>1, Zenon

\* The sizes when the data do not fill the block.
RestSizes(n, l, x, h) ==
  /\ h = n - x /\ n = h + x /\ x + l < MD5Block
  /\ MD5Block * ((n + l) \div MD5Block) = h
  /\ (n + l) % MD5Block = x + l

\* There are such sizes.
LEMMA RestNumbers ==
  ASSUME NEW n \in Nat, NEW l \in Nat, NEW x \in 0..MD5Block - 1,
         x = n % MD5Block, ~(l >= MD5Block - x)
  PROVE  \E h \in Nat : RestSizes(n, l, x, h)
<1> DEFINE u == MD5Block * ((n + l) \div MD5Block)
           v == MD5Block * (n \div MD5Block)
           r == (n + l) % MD5Block
<1>1. v = n - x /\ u = n - x /\ r = x + l
  BY RestSplit
<1>2. MD5Block \in Nat /\ MD5Block > 0
  BY BlockIs
<1>3. v \in Nat
  <2>1. n \div MD5Block \in Nat
    BY <1>2, DivisionOf
  <2> QED
    BY <1>2, <2>1
<1> HIDE DEF u, v, r
<1>4. n - x \in Nat /\ n = (n - x) + x /\ x + l < MD5Block
  BY <1>1, <1>2, <1>3
<1>5. u = n - x /\ r = x + l
  BY <1>1
<1> QED
  BY <1>4, <1>5 DEF u, r, RestSizes

\* dng_md5_printer::Process, when the data do not fill the block.
LEMMA ProcessRestCarries ==
  ASSUME NEW p, NEW m, Carries(p, m), NEW data \in Seq(Bytes),
         ~FullFor(p, data)
  PROVE  Carries(Process(p, data), m \o data)
<1> DEFINE n == Len(m)
           l == Len(data)
           x == Index(p)
           new == Process(p, data)
           all == m \o data
<1>1. /\ p \in Printers /\ m \in Seq(Bytes) /\ n \in Nat /\ l \in Nat
      /\ p.hashed \in Seq(Bytes) /\ p.buffer \in [0..MD5Block - 1 -> Bytes]
      /\ x = n % MD5Block /\ x \in 0..MD5Block - 1
      /\ p.count = WordsOf(8 * n)
      /\ Len(p.hashed) = n - x
      /\ \A i \in 1..n - x : p.hashed[i] = m[i]
      /\ \A i \in 1..x : p.buffer[i - 1] = m[n - x + i]
  BY CarriesFacts
<1>2. ~(l >= MD5Block - x)
  BY DEF FullFor, PartOf
<1>3. /\ new.count = CountBits(p.count, l) /\ new.final = p.final
      /\ new = [count |-> new.count, buffer |-> new.buffer,
                hashed |-> new.hashed, final |-> new.final]
  <2> HIDE DEF new
  <2> QED
    BY <1>1, ProcessIs DEF new
<1>4. new.hashed = p.hashed
  <2>1. Process(p, data).hashed =
            IF FullFor(p, data)
            THEN p.hashed \o BegunOf(p, data)
                   \o SubSeq(data, PartOf(p) + 1, TakenOf(p, data))
            ELSE p.hashed
    BY <1>1, ProcessIs
  <2> QED
    BY <2>1
<1>5. new.buffer = [i \in 0..MD5Block - 1 |->
                     IF i \in x..x + (l - 0) - 1
                     THEN data[0 + i - x + 1] ELSE p.buffer[i]]
  <2>1. p \in Printers
    BY <1>1
  <2>2. Process(p, data).buffer =
          [i \in 0..MD5Block - 1 |->
             IF i \in Index(p)..Index(p) + (Len(data) - 0) - 1
             THEN data[0 + i - Index(p) + 1] ELSE p.buffer[i]]
    BY <2>1, BufferRest
  <2> QED
    BY <2>2
<1> HIDE DEF new, n, l, x, all
<1>6. PICK h \in Nat : /\ h = n - x /\ n = h + x /\ x + l < MD5Block
                       /\ MD5Block * ((n + l) \div MD5Block) = h
                       /\ (n + l) % MD5Block = x + l
  <2>1. n \in Nat /\ l \in Nat /\ x \in 0..MD5Block - 1 /\ x = n % MD5Block
    BY <1>1
  <2>2. \E h \in Nat : RestSizes(n, l, x, h)
    BY <1>2, <2>1, RestNumbers
  <2> QED
    BY <2>2 DEF RestSizes
<1>7. MD5Block \in Nat /\ x \in Nat /\ n = h + x /\ x + l < MD5Block
      /\ l \in Nat /\ n \in Nat /\ h = n - x
  BY <1>1, <1>6, BlockIs
<1>8. Len(m) = n /\ Len(data) = l /\ Len(p.hashed) = h
      /\ \A i \in 1..h : p.hashed[i] = m[i]
  BY <1>1, <1>6 DEF n, l
<1>9. Joins(all, Bytes, m, data, n, l)
  BY <1>1, <1>8, JoinsAt DEF all
<1>10. all \in Seq(Bytes) /\ Len(all) = n + l
  BY <1>9 DEF Joins
<1>11. new.count = WordsOf(8 * (n + l)) /\ new.count \in Nat \X Nat
  <2>1. n \in Nat /\ l \in Nat /\ n + l \in Nat
    BY <1>7
  <2>2. CountBits(WordsOf(8 * n), l) = WordsOf(8 * (n + l))
    BY <2>1, CountBitsIs
  <2>3. WordsOf(8 * (n + l)) \in Nat \X Nat
    BY <2>1, WordsAre
  <2>4. new.count = CountBits(WordsOf(8 * n), l)
    BY <1>1, <1>3
  <2> QED
    BY <2>2, <2>3, <2>4
<1>12. ASSUME NEW i \in 0..MD5Block - 1, i < x
       PROVE  new.buffer[i] = p.buffer[i] /\ new.buffer[i] \in Bytes
  <2>1. i \notin x..x + (l - 0) - 1
    BY <1>7, <1>12
  <2> QED
    BY <1>1, <1>5, <2>1
<1>13. ASSUME NEW i \in 0..MD5Block - 1, ~(i < x), i < x + l
       PROVE  new.buffer[i] = data[i - x + 1] /\ new.buffer[i] \in Bytes
  <2>1. i \in x..x + (l - 0) - 1 /\ 0 + i - x + 1 = i - x + 1
        /\ i - x + 1 \in 1..l
    BY <1>7, <1>13
  <2>2. data[i - x + 1] \in Bytes
    BY <1>8, <2>1
  <2> QED
    BY <1>5, <2>1, <2>2
<1>14. ASSUME NEW i \in 0..MD5Block - 1, ~(i < x + l)
       PROVE  new.buffer[i] \in Bytes
  <2>1. i \notin x..x + (l - 0) - 1
    BY <1>7, <1>14
  <2> QED
    BY <1>1, <1>5, <2>1
<1>15. new.buffer \in [0..MD5Block - 1 -> Bytes]
  BY <1>5, <1>12, <1>13, <1>14
<1>16. ASSUME NEW i \in 1..x
       PROVE  new.buffer[i - 1] = all[h + i]
  <2>1. i - 1 \in 0..MD5Block - 1 /\ i - 1 < x /\ h + i \in 1..n
    BY <1>7
  <2>2. new.buffer[i - 1] = p.buffer[i - 1]
    BY <1>12, <2>1
  <2>3. p.buffer[i - 1] = m[h + i]
    BY <1>1, <1>6
  <2>4. all[h + i] = m[h + i]
    BY <1>9, <2>1 DEF Joins
  <2> QED
    BY <2>2, <2>3, <2>4
<1>17. ASSUME NEW k \in 1..l
       PROVE  new.buffer[(x + k) - 1] = all[h + (x + k)]
  <2>1. /\ (x + k) - 1 \in 0..MD5Block - 1 /\ ~((x + k) - 1 < x)
        /\ (x + k) - 1 < x + l /\ (x + k) - 1 - x + 1 = k
        /\ h + (x + k) = n + k
    BY <1>7
  <2>2. new.buffer[(x + k) - 1] = data[k]
    BY <1>13, <2>1
  <2>3. all[n + k] = data[k]
    BY <1>9 DEF Joins
  <2> QED
    BY <2>1, <2>2, <2>3
<1>18. ASSUME NEW i \in 1..x + l
       PROVE  new.buffer[i - 1] = all[h + i]
  <2>1. CASE i <= x
    <3>1. i \in 1..x
      BY <1>7, <2>1
    <3> QED
      BY <1>16, <3>1
  <2>2. CASE ~(i <= x)
    <3>1. i - x \in 1..l /\ x + (i - x) = i
      BY <1>7, <2>2
    <3> QED
      BY <1>17, <3>1
  <2> QED
    BY <2>1, <2>2
<1>19. ASSUME NEW i \in 1..h
       PROVE  new.hashed[i] = all[i]
  <2>1. i \in 1..n
    BY <1>7
  <2> QED
    BY <1>4, <1>8, <1>9, <2>1 DEF Joins
<1>20. new \in Printers
  BY <1>1, <1>3, <1>4, <1>11, <1>15 DEF Printers
<1>21. Carries(new, all)
  <2>1. Len(new.hashed) = MD5Block * (Len(all) \div MD5Block)
    BY <1>4, <1>6, <1>8, <1>10
  <2>2. \A i \in 1..Len(new.hashed) : new.hashed[i] = all[i]
    BY <1>4, <1>8, <1>19
  <2>3. \A i \in 1..Len(all) % MD5Block :
          new.buffer[i - 1] = all[Len(new.hashed) + i]
    BY <1>4, <1>6, <1>8, <1>10, <1>18
  <2> QED
    BY <1>10, <1>11, <1>20, <2>1, <2>2, <2>3 DEF Carries
<1> QED
  BY <1>21 DEF new, all

\* A printer that carries a message carries, after it is given data of any
\* length, the message and the data.
LEMMA ProcessCarries ==
  ASSUME NEW p, NEW m, Carries(p, m), NEW data \in Seq(Bytes)
  PROVE  /\ Carries(Process(p, data), m \o data)
         /\ Process(p, data).final = p.final
<1>1. Process(p, data).final = p.final
  <2>1. p \in Printers
    BY DEF Carries
  <2> QED
    BY <2>1, ProcessIs
<1>2. Carries(Process(p, data), m \o data)
  BY ProcessFullCarries, ProcessRestCarries
<1> QED
  BY <1>1, <1>2

\* A new printer has been given nothing.
LEMMA NewPrinterCarries ==
  Carries(NewPrinter, <<>>) /\ ~NewPrinter.final
<1> DEFINE p == NewPrinter
<1>1. /\ p.count = <<0, 0>> /\ p.hashed = <<>> /\ p.final = FALSE
      /\ p.buffer = [i \in 0..MD5Block - 1 |-> <<"none", 0>>]
      /\ p = [count |-> p.count, buffer |-> p.buffer, hashed |-> p.hashed,
              final |-> p.final]
  BY DEF NewPrinter
<1> HIDE DEF p
<1>2. <<"none", 0>> \in Bytes
  BY DEF Bytes
<1>3. p.buffer \in [0..MD5Block - 1 -> Bytes]
  BY <1>1, <1>2
<1>4. p.hashed \in Seq(Bytes) /\ p.count \in Nat \X Nat /\ p.final \in BOOLEAN
  <2>1. <<>> \in Seq(Bytes) /\ <<0, 0>> \in Nat \X Nat
    OBVIOUS
  <2> QED
    BY <1>1, <2>1
<1>5. p \in Printers
  BY <1>1, <1>3, <1>4 DEF Printers
<1>6. 0 \div MD5Block = 0 /\ 0 % MD5Block = 0 /\ MD5Block * 0 = 0
  BY BlockIs
<1>7. WordsOf(8 * 0) = <<0, 0>>
  <2>1. 0 \div Span = 0 /\ 0 % Span = 0 /\ 8 * 0 = 0
    BY SpanIs
  <2> QED
    BY <2>1 DEF WordsOf
<1>8. Len(<<>>) = 0 /\ <<>> \in Seq(Bytes)
  OBVIOUS
<1>9. Carries(p, <<>>)
  <2>1. p.count = WordsOf(8 * Len(<<>>))
    BY <1>1, <1>7, <1>8
  <2>2. Len(p.hashed) = MD5Block * (Len(<<>>) \div MD5Block)
    BY <1>1, <1>6, <1>8
  <2>3. Len(p.hashed) = 0 /\ Len(<<>>) % MD5Block = 0
    BY <1>1, <1>6, <1>8
  <2> QED
    BY <1>5, <1>8, <2>1, <2>2, <2>3 DEF Carries
<1> QED
  BY <1>1, <1>9 DEF p

-----------------------------------------------------------------------------
(* The bytes of the length. *)

\* A word of span M has a whole byte at the place of value d, with room for r
\* above it.
HoldsByte(M, d, r) ==
  d \in Nat /\ d > 0 /\ r \in Nat /\ r > 0 /\ M = d * (256 * r)

\* Such a byte of a number is also that byte of the number's low word.
LEMMA ByteOfRest ==
  ASSUME NEW t \in Nat, NEW M, NEW d, NEW r, HoldsByte(M, d, r)
  PROVE  ((t % M) \div d) % 256 = (t \div d) % 256
<1> USE DEF HoldsByte
<1>1. M \in Nat /\ M > 0 /\ d \in Nat /\ d > 0 /\ r \in Nat /\ r > 0
  OBVIOUS
<1> DEFINE q == t \div M
           s == t % M
<1>2. q \in Nat /\ s \in Nat /\ t = M * q + s
  <2>1. t \div M \in Nat /\ t % M \in 0..M - 1 /\ t = M * (t \div M) + (t % M)
    BY <1>1, DivisionOf
  <2> QED
    BY <2>1, <1>1
<1> HIDE DEF q, s
<1> DEFINE k == (256 * r) * q
<1>3. k \in Nat /\ M * q = d * k
  BY <1>2
<1> HIDE DEF k
<1>4. t \div d = k + (s \div d)
  BY <1>2, <1>3, RestOfSum
<1>5. s \div d \in Nat
  BY <1>2, DivisionOf
<1> DEFINE j == r * q
<1>6. j \in Nat /\ k = 256 * j
  BY <1>2 DEF k
<1> HIDE DEF j
<1> DEFINE u == s \div d
<1>7. (256 * j + u) % 256 = u % 256
  <2>1. u \in Nat
    BY <1>5
  <2> HIDE DEF u
  <2> QED
    BY <1>6, <2>1, RestOfSum
<1> QED
  BY <1>4, <1>6, <1>7 DEF s, u

\* To divide by a product is to divide by its factors.
LEMMA QuotientOfQuotient ==
  ASSUME NEW t \in Nat, NEW M \in Nat, M > 0, NEW d \in Nat, d > 0
  PROVE  t \div (M * d) = (t \div M) \div d
<1> DEFINE a == t \div M
           s == t % M
           q == a \div d
           r == a % d
<1>1. a \in Nat /\ s \in 0..M - 1 /\ t = M * a + s
  BY DivisionOf
<1> HIDE DEF a, s
<1>2. q \in Nat /\ r \in 0..d - 1 /\ a = d * q + r
  BY <1>1, DivisionOf
<1> HIDE DEF q, r
<1> DEFINE b == M * d
           c == M * r
<1>3. t = b * q + (c + s)
  <2>1. M * (d * q + r) = (M * d) * q + M * r
    BY <1>2
  <2> QED
    BY <1>1, <1>2, <2>1
<1>4. b \in Nat /\ b > 0 /\ c + s \in 0..b - 1
  <2>1. M * r <= M * (d - 1) /\ M * (d - 1) = M * d - M
    BY <1>2
  <2>2. M * r \in Nat /\ M * d \in Nat /\ M * d > 0
    BY <1>2
  <2> HIDE DEF b, c
  <2>3. c <= b - M /\ c \in Nat /\ b \in Nat /\ b > 0
    BY <2>1, <2>2 DEF b, c
  <2> QED
    BY <1>1, <2>3
<1> HIDE DEF b, c
<1> DEFINE rest == c + s
<1>5. rest \in 0..b - 1 /\ t = b * q + rest
  BY <1>3, <1>4
<1> HIDE DEF rest
<1>6. t \div b = q
  BY <1>2, <1>4, <1>5, DivisionIs
<1> QED
  BY <1>6 DEF a, b, q

\* The value of the byte at place k of a word.
Place(k) == 2^(8 * k)

\* The bytes in a word.
WordBytes == WordBits \div 8

\* The values, as numbers.
LEMMA PlaceIs ==
  /\ Place(0) = 1 /\ Place(1) = 256 /\ Place(2) = 65536 /\ Place(3) = 16777216
BY SMT DEF Place

\* They are positive.
LEMMA PlacesAre ==
  ASSUME NEW k \in 0..3
  PROVE  Place(k) \in Nat /\ Place(k) > 0
<1>1. k = 0 \/ k = 1 \/ k = 2 \/ k = 3
  OBVIOUS
<1> QED
  BY <1>1, PlaceIs, SMT

\* Each is 256 times the one before.
LEMMA NextPlace ==
  ASSUME NEW k \in 0..2
  PROVE  Place(k + 1) = Place(k) * 256
<1>1. CASE k = 0
  BY <1>1, PlaceIs, SMT
<1>2. CASE k = 1
  BY <1>2, PlaceIs, SMT
<1>3. CASE k = 2
  BY <1>3, PlaceIs, SMT
<1> QED
  BY <1>1, <1>2, <1>3

\* A word is made of bytes: each has its place below the span.
LEMMA SpanInPlaces ==
  /\ WordBytes \in 1..4 /\ LengthBytes = WordBytes + WordBytes
  /\ Span = Place(WordBytes - 1) * 256
  /\ \A k \in 0..WordBytes - 1 : \E r \in Nat : r > 0 /\ Span = Place(k) * (256 * r)
<1>1. WordBits = 8 \/ WordBits = 16 \/ WordBits = 24 \/ WordBits = 32
  BY MD5Assumption DEF MD5Assumption
<1>2. CASE WordBits = 8
  <2>1. WordBytes = 1 /\ LengthBytes = 2
    BY <1>2 DEF WordBytes, LengthBytes
  <2>2. Span = Place(0) * (256 * 1) /\ Span = Place(0) * 256
    BY <1>2, PlaceIs, Powers, SMT DEF Span
  <2>3. \A k \in 0..WordBytes - 1 : k = 0
    BY <2>1
  <2>4. \A k \in 0..WordBytes - 1 : \E r \in Nat : r > 0 /\ Span = Place(k) * (256 * r)
    BY <2>2, <2>3
  <2> QED
    BY <2>1, <2>2, <2>4
<1>3. CASE WordBits = 16
  <2>1. WordBytes = 2 /\ LengthBytes = 4
    BY <1>3 DEF WordBytes, LengthBytes
  <2>2. Span = Place(0) * (256 * 256) /\ Span = Place(1) * (256 * 1)
        /\ Span = Place(1) * 256
    BY <1>3, PlaceIs, Powers, SMT DEF Span
  <2>3. \A k \in 0..WordBytes - 1 : k = 0 \/ k = 1
    BY <2>1
  <2>4. \A k \in 0..WordBytes - 1 : \E r \in Nat : r > 0 /\ Span = Place(k) * (256 * r)
    BY <2>2, <2>3, SMT
  <2> QED
    BY <2>1, <2>2, <2>4, SMT
<1>4. CASE WordBits = 24
  <2>1. WordBytes = 3 /\ LengthBytes = 6
    BY <1>4 DEF WordBytes, LengthBytes
  <2>2. Span = Place(0) * (256 * 65536) /\ Span = Place(1) * (256 * 256)
        /\ Span = Place(2) * (256 * 1) /\ Span = Place(2) * 256
    BY <1>4, PlaceIs, Powers, SMT DEF Span
  <2>3. \A k \in 0..WordBytes - 1 : k = 0 \/ k = 1 \/ k = 2
    BY <2>1
  <2>4. \A k \in 0..WordBytes - 1 : \E r \in Nat : r > 0 /\ Span = Place(k) * (256 * r)
    BY <2>2, <2>3, SMT
  <2> QED
    BY <2>1, <2>2, <2>4, SMT
<1>5. CASE WordBits = 32
  <2>1. WordBytes = 4 /\ LengthBytes = 8
    BY <1>5 DEF WordBytes, LengthBytes
  <2>2. Span = Place(0) * (256 * 16777216) /\ Span = Place(1) * (256 * 65536)
        /\ Span = Place(2) * (256 * 256) /\ Span = Place(3) * (256 * 1)
        /\ Span = Place(3) * 256
    BY <1>5, PlaceIs, Powers, SMT DEF Span
  <2>3. \A k \in 0..WordBytes - 1 : k = 0 \/ k = 1 \/ k = 2 \/ k = 3
    BY <2>1
  <2>4. ASSUME NEW k \in 0..WordBytes - 1
        PROVE  \E r \in Nat : r > 0 /\ Span = Place(k) * (256 * r)
    <3>1. CASE k = 0
      <4> DEFINE r == 16777216
      <4>1. r \in Nat /\ r > 0 /\ Span = Place(k) * (256 * r)
        BY <2>2, <3>1, SMT
      <4> HIDE DEF r
      <4> QED
        BY <4>1
    <3>2. CASE k = 1
      <4> DEFINE r == 65536
      <4>1. r \in Nat /\ r > 0 /\ Span = Place(k) * (256 * r)
        BY <2>2, <3>2, SMT
      <4> HIDE DEF r
      <4> QED
        BY <4>1
    <3>3. CASE k = 2
      BY <2>2, <3>3, SMT
    <3>4. CASE k = 3
      BY <2>2, <3>4, SMT
    <3> QED
      BY <2>3, <3>1, <3>2, <3>3, <3>4
  <2> QED
    BY <2>1, <2>2, <2>4, SMT
<1> QED
  BY <1>1, <1>2, <1>3, <1>4, <1>5

\* The number n, divided by 256 as often as it has bytes.
IsRest(f, n) ==
  f = [k \in 0..LengthBytes - 1 |-> IF k = 0 THEN n ELSE f[k - 1] \div 256]

\* The same from the two words of the number.
Quotients(t) ==
  [k \in 0..LengthBytes - 1 |->
     IF k < WordBytes THEN t \div Place(k)
     ELSE (t \div Span) \div Place(k - WordBytes)]

\* They are those quotients.
LEMMA QuotientsAre ==
  ASSUME NEW t \in Nat
  PROVE  IsRest(Quotients(t), t)
<1> DEFINE f == Quotients(t)
           b == WordBytes
<1>1. b \in 1..4 /\ LengthBytes = b + b
  BY SpanInPlaces
<1>2. \A k \in 0..LengthBytes - 1 :
        f[k] = IF k < b THEN t \div Place(k) ELSE (t \div Span) \div Place(k - b)
  BY DEF Quotients
<1>3. f = [k \in 0..LengthBytes - 1 |-> f[k]]
  BY DEF Quotients
<1> HIDE DEF f, b
<1>4. t \div Span \in Nat
  BY SpanIs, DivisionOf
<1>5. \A a \in Nat : a \div 1 = a
  OBVIOUS
<1>6. \A a \in Nat, k \in 0..2 :
        (a \div Place(k)) \div 256 = a \div Place(k + 1)
  <2> SUFFICES ASSUME NEW a \in Nat, NEW k \in 0..2
               PROVE  (a \div Place(k)) \div 256 = a \div Place(k + 1)
    OBVIOUS
  <2>1. k \in 0..3 /\ 256 \in Nat /\ 256 > 0
    BY SMT
  <2>2. a \div (Place(k) * 256) = (a \div Place(k)) \div 256
    BY <2>1, PlacesAre, QuotientOfQuotient
  <2> QED
    BY <2>2, NextPlace
<1>7. ASSUME NEW k \in 0..LengthBytes - 1
      PROVE  f[k] = IF k = 0 THEN t ELSE f[k - 1] \div 256
  <2>1. CASE k = 0
    <3>1. f[0] = t \div Place(0)
      BY <1>1, <1>2
    <3> QED
      BY <2>1, <3>1, <1>5, PlaceIs, SMT
  <2>2. CASE k # 0 /\ k < b
    <3>1. k - 1 \in 0..2 /\ (k - 1) + 1 = k /\ k - 1 < b
          /\ k - 1 \in 0..LengthBytes - 1
      BY <1>1, <2>2
    <3>2. f[k] = t \div Place(k) /\ f[k - 1] = t \div Place(k - 1)
      BY <1>2, <2>2, <3>1
    <3>3. (t \div Place(k - 1)) \div 256 = t \div Place(k)
      BY <1>6, <3>1
    <3> QED
      BY <2>2, <3>2, <3>3
  <2>3. CASE k = b
    <3>1. b - 1 \in 0..LengthBytes - 1 /\ b - 1 < b /\ k - b = 0 /\ k # 0
          /\ ~(k < b) /\ b - 1 \in 0..3 /\ k - 1 = b - 1
      BY <1>1, <2>3
    <3>2. f[k] = (t \div Span) \div Place(0)
      BY <1>2, <3>1
    <3>3. f[k - 1] = t \div Place(b - 1)
      BY <1>2, <3>1
    <3>4. f[k] = t \div Span
      BY <1>4, <1>5, <3>2, PlaceIs, SMT
    <3>5. 256 \in Nat /\ 256 > 0
      BY SMT
    <3>6. t \div (Place(b - 1) * 256) = (t \div Place(b - 1)) \div 256
      BY <3>1, <3>5, PlacesAre, QuotientOfQuotient
    <3> QED
      BY <3>1, <3>3, <3>4, <3>6, SpanInPlaces DEF b
  <2>4. CASE k > b
    <3>1. /\ k # 0 /\ ~(k < b) /\ ~(k - 1 < b) /\ k - 1 \in 0..LengthBytes - 1
          /\ (k - 1) - b \in 0..2 /\ ((k - 1) - b) + 1 = k - b
      BY <1>1, <2>4
    <3>2. /\ f[k] = (t \div Span) \div Place(k - b)
          /\ f[k - 1] = (t \div Span) \div Place((k - 1) - b)
      BY <1>2, <3>1
    <3>3. ((t \div Span) \div Place((k - 1) - b)) \div 256
            = (t \div Span) \div Place(k - b)
      BY <1>4, <1>6, <3>1
    <3> QED
      BY <3>1, <3>2, <3>3
  <2> QED
    BY <1>1, <2>1, <2>2, <2>3, <2>4
<1>8. f = [k \in 0..LengthBytes - 1 |-> IF k = 0 THEN t ELSE f[k - 1] \div 256]
  BY <1>3, <1>7
<1> QED
  BY <1>8 DEF IsRest, f

\* There is one such function (by its at most eight places: induction is not at
\* hand).
LEMMA RestsAgree ==
  ASSUME NEW t, NEW f, NEW g, IsRest(f, t), IsRest(g, t),
         NEW k \in 0..LengthBytes - 1
  PROVE  f[k] = g[k]
<1>1. LengthBytes \in {2, 4, 6, 8}
  BY SpanInPlaces
<1>2. \A i \in 0..LengthBytes - 1 :
        f[i] = IF i = 0 THEN t ELSE f[i - 1] \div 256
  BY DEF IsRest
<1>3. \A i \in 0..LengthBytes - 1 :
        g[i] = IF i = 0 THEN t ELSE g[i - 1] \div 256
  BY DEF IsRest
<1>4. f[0] = g[0]
  BY <1>1, <1>2, <1>3
<1>5. \A i \in 0..LengthBytes - 2 : f[i] = g[i] => f[i + 1] = g[i + 1]
  <2> SUFFICES ASSUME NEW i \in 0..LengthBytes - 2, f[i] = g[i]
               PROVE  f[i + 1] = g[i + 1]
    OBVIOUS
  <2>1. i + 1 \in 0..LengthBytes - 1 /\ i + 1 # 0 /\ (i + 1) - 1 = i
    BY <1>1
  <2> QED
    BY <1>2, <1>3, <2>1
<1>6. f[1] = g[1]
  BY <1>1, <1>4, <1>5
<1>7. LengthBytes > 2 => f[2] = g[2] /\ f[3] = g[3]
  BY <1>1, <1>5, <1>6
<1>8. LengthBytes > 4 => f[4] = g[4] /\ f[5] = g[5]
  BY <1>1, <1>5, <1>7
<1>9. LengthBytes > 6 => f[6] = g[6] /\ f[7] = g[7]
  BY <1>1, <1>5, <1>8
<1> QED
  BY <1>1, <1>4, <1>6, <1>7, <1>8, <1>9

\* The digits of a number, from the words it is in.
LEMMA DigitsAre ==
  ASSUME NEW t \in Nat
  PROVE  Digits(t) = [j \in 1..LengthBytes |->
                        <<"length", Quotients(t)[j - 1] % 256>>]
<1> DEFINE f == CHOOSE g : g = [k \in 0..LengthBytes - 1 |->
                              IF k = 0 THEN t ELSE g[k - 1] \div 256]
<1>1. IsRest(Quotients(t), t)
  BY QuotientsAre
<1>2. IsRest(f, t)
  BY <1>1 DEF IsRest
<1>3. Digits(t) = [j \in 1..LengthBytes |-> <<"length", f[j - 1] % 256>>]
  BY DEF Digits
<1> HIDE DEF f
<1>4. ASSUME NEW j \in 1..LengthBytes
      PROVE  f[j - 1] = Quotients(t)[j - 1]
  <2>1. j - 1 \in 0..LengthBytes - 1
    BY SpanInPlaces
  <2> QED
    BY <1>1, <1>2, <2>1, RestsAgree
<1> QED
  BY <1>3, <1>4

\* Encode writes the digits of the number that the two words hold, also when
\* they have overflowed.
LEMMA EncodeIs ==
  ASSUME NEW t \in Nat
  PROVE  Encode(WordsOf(t)) = Digits(t)
<1> DEFINE b == WordBytes
           c == WordsOf(t)
           f == Quotients(t)
<1>1. b \in 1..4 /\ LengthBytes = b + b
  BY SpanInPlaces
<1>2. c[1] = t % Span /\ c[2] = (t \div Span) % Span
  BY DEF WordsOf
<1>3. Encode(c) = [j \in 1..LengthBytes |->
         <<"length", (c[1 + (j - 1) \div b] \div Place((j - 1) % b)) % 256>>]
  BY DEF Encode, Place, WordBytes
<1>4. \A k \in 0..LengthBytes - 1 :
        f[k] = IF k < b THEN t \div Place(k) ELSE (t \div Span) \div Place(k - b)
  BY DEF Quotients
<1>5. \A a \in Nat, k \in 0..b - 1 :
        ((a % Span) \div Place(k)) % 256 = (a \div Place(k)) % 256
  <2> SUFFICES ASSUME NEW a \in Nat, NEW k \in 0..b - 1
               PROVE  ((a % Span) \div Place(k)) % 256 = (a \div Place(k)) % 256
    OBVIOUS
  <2>1. PICK r \in Nat : r > 0 /\ Span = Place(k) * (256 * r)
    BY SpanInPlaces
  <2>2. Place(k) \in Nat /\ Place(k) > 0
    <3>1. k \in 0..3
      BY <1>1
    <3> QED
      BY <3>1, PlacesAre
  <2> DEFINE d == Place(k)
             M == Span
  <2>3. HoldsByte(M, d, r)
    BY <2>1, <2>2 DEF HoldsByte
  <2> HIDE DEF d, M
  <2>4. ((a % M) \div d) % 256 = (a \div d) % 256
    BY <2>3, ByteOfRest
  <2> QED
    BY <2>4 DEF d, M
<1>6. t \div Span \in Nat
  BY SpanIs, DivisionOf
<1> HIDE DEF b, c, f
<1>7. ASSUME NEW j \in 1..LengthBytes
      PROVE  (c[1 + (j - 1) \div b] \div Place((j - 1) % b)) % 256
               = f[j - 1] % 256
  <2>1. j - 1 \in 0..LengthBytes - 1
    BY <1>1
  <2>2. CASE j - 1 < b
    <3>1. (j - 1) \div b = 0 /\ (j - 1) % b = j - 1 /\ j - 1 \in 0..b - 1
      <4>1. b = 1 \/ b = 2 \/ b = 3 \/ b = 4
        BY <1>1
      <4> QED
        BY <1>1, <2>2, <4>1
    <3> QED
      BY <1>2, <1>4, <1>5, <2>1, <2>2, <3>1
  <2>3. CASE ~(j - 1 < b)
    <3>1. (j - 1) \div b = 1 /\ (j - 1) % b = (j - 1) - b
          /\ (j - 1) - b \in 0..b - 1
      <4>1. b = 1 \/ b = 2 \/ b = 3 \/ b = 4
        BY <1>1
      <4> QED
        BY <1>1, <2>3, <4>1
    <3>2. 1 + 1 = 2
      OBVIOUS
    <3>3. f[j - 1] = (t \div Span) \div Place((j - 1) - b)
      BY <1>4, <2>1, <2>3
    <3>4. (((t \div Span) % Span) \div Place((j - 1) - b)) % 256
            = ((t \div Span) \div Place((j - 1) - b)) % 256
      BY <1>5, <1>6, <3>1
    <3> QED
      BY <1>2, <3>1, <3>2, <3>3, <3>4
  <2> QED
    BY <2>2, <2>3
<1>8. Digits(t) = [j \in 1..LengthBytes |-> <<"length", f[j - 1] % 256>>]
  BY DigitsAre DEF f
<1> QED
  BY <1>3, <1>7, <1>8 DEF c

\* The digits are bytes of a message.
LEMMA DigitsAreBytes ==
  ASSUME NEW t \in Nat
  PROVE  Digits(t) \in Seq(Bytes) /\ Len(Digits(t)) = LengthBytes
<1>1. LengthBytes \in Nat
  BY SpanInPlaces
<1>2. ASSUME NEW j \in 1..LengthBytes
      PROVE  <<"length", Quotients(t)[j - 1] % 256>> \in Bytes
  <2>1. j - 1 \in 0..LengthBytes - 1
    BY <1>1
  <2>2. t \div Span \in Nat
    BY SpanIs, DivisionOf
  <2>3. Quotients(t)[j - 1] \in Nat
    <3>1. CASE j - 1 < WordBytes
      <4>1. j - 1 \in 0..3
        BY <2>1, <3>1, SpanInPlaces
      <4> QED
        BY <2>1, <3>1, <4>1, PlacesAre, DivisionOf DEF Quotients
    <3>2. CASE ~(j - 1 < WordBytes)
      <4>1. (j - 1) - WordBytes \in 0..3
        BY <2>1, <3>2, SpanInPlaces
      <4>2. Quotients(t)[j - 1] = (t \div Span) \div Place((j - 1) - WordBytes)
        BY <2>1, <3>2 DEF Quotients
      <4> QED
        BY <2>2, <4>1, <4>2, PlacesAre, DivisionOf
    <3> QED
      BY <3>1, <3>2
  <2> DEFINE q == Quotients(t)[j - 1]
  <2>4. q % 256 \in Nat
    <3>1. q \in Nat
      BY <2>3
    <3> HIDE DEF q
    <3> QED
      BY <3>1
  <2> QED
    BY <2>4 DEF Bytes
<1>3. Digits(t) = [j \in 1..LengthBytes |-> <<"length", Quotients(t)[j - 1] % 256>>]
  BY DigitsAre
<1> DEFINE s == Digits(t)
<1>4. s \in [1..LengthBytes -> Bytes]
  BY <1>2, <1>3
<1> HIDE DEF s
<1>5. s \in Seq(Bytes) /\ Len(s) = LengthBytes
  BY <1>1, <1>4
<1> QED
  BY <1>5 DEF s

-----------------------------------------------------------------------------
(* The padded message. *)

\* Equal numbers have equal rests.
LEMMA OneRest ==
  ASSUME NEW b \in Nat, b > 0, NEW u \in Int, NEW v \in Int,
         NEW y \in 0..b - 1, NEW z \in 0..b - 1, b * u + y = b * v + z
  PROVE  y = z
<1>1. (b * u + y) % b = y /\ (b * v + z) % b = z
  BY DivisionIs
<1> QED
  BY <1>1

\* The padding leads to the place of the length, so that padding and length end
\* with a block.
LEMMA PadLenIs ==
  ASSUME NEW n \in Nat, NEW x, x = n % MD5Block
  PROVE  /\ PadLen(x) \in 1..MD5Block
         /\ (n + PadLen(x) + LengthBytes) % MD5Block = 0
         /\ MD5Block * ((n + PadLen(x) + LengthBytes) \div MD5Block)
              = n + PadLen(x) + LengthBytes
<1> DEFINE B == MD5Block
           q == n \div B
           l == LengthBytes
           P == PadLen(x)
<1>1. B \in Nat /\ B > 0
  BY BlockIs
<1>2. l \in Nat /\ l < B
  BY MD5Assumption, SpanInPlaces DEF MD5Assumption, LengthBytes
<1>3. q \in Nat /\ x \in 0..B - 1 /\ n = B * q + x
  BY <1>1, DivisionOf
<1>4. P = IF x < B - l THEN B - l - x ELSE B + B - l - x
  BY <1>1, <1>2, <1>3 DEF PadLen
<1> HIDE DEF B, q, l, P
<1>5. x \in Nat /\ x < B
  BY <1>1, <1>3
<1>6. P \in 1..B
  BY <1>1, <1>2, <1>4, <1>5
<1>7. PICK k \in Nat : n + P + l = B * k + 0 /\ n + P + l = B * k
  <2>1. B * (q + 1) = B * q + B /\ B * (q + 2) = B * q + B + B /\ B * q \in Nat
    BY <1>1, <1>3
  <2> DEFINE w == B * q
             y == B * (q + 1)
             z == B * (q + 2)
  <2>2. w \in Nat /\ y = w + B /\ z = w + B + B /\ n = w + x
    BY <1>3, <2>1
  <2> HIDE DEF w, y, z
  <2>3. CASE x < B - l
    <3>1. n + P + l = y /\ y + 0 = y
      BY <1>1, <1>2, <1>4, <1>5, <2>2, <2>3
    <3>2. q + 1 \in Nat
      BY <1>3
    <3> QED
      BY <3>1, <3>2 DEF y
  <2>4. CASE ~(x < B - l)
    <3>1. n + P + l = z /\ z + 0 = z
      BY <1>1, <1>2, <1>4, <1>5, <2>2, <2>4
    <3>2. q + 2 \in Nat
      BY <1>3
    <3> QED
      BY <3>1, <3>2 DEF z
  <2> QED
    BY <2>3, <2>4
<1>8. (B * k + 0) % B = 0 /\ (B * k + 0) \div B = k
  <2>1. 0 \in 0..B - 1 /\ k \in Int
    BY <1>1
  <2> QED
    BY <1>1, <2>1, DivisionIs
<1> DEFINE t == n + P + l
<1>9. t % B = 0 /\ B * (t \div B) = t
  <2>1. t = B * k + 0 /\ t = B * k
    BY <1>7
  <2> HIDE DEF t
  <2>2. t % B = 0 /\ t \div B = k
    BY <1>8, <2>1
  <2> QED
    BY <2>1, <2>2
<1> QED
  BY <1>6, <1>9 DEF t, B, P, l

\* It has as few zeros as do.
LEMMA ZerosAre ==
  ASSUME NEW n \in Nat, NEW x, x = n % MD5Block
  PROVE  (CHOOSE z \in 0..MD5Block - 1 : (n + 1 + z + LengthBytes) % MD5Block = 0)
           = PadLen(x) - 1
<1> DEFINE B == MD5Block
           l == LengthBytes
           z0 == PadLen(x) - 1
           a == n + 1 + l
<1>1. B \in Nat /\ B > 0 /\ l \in Nat
  BY BlockIs, SpanInPlaces
<1>2. PadLen(x) \in 1..B /\ (n + PadLen(x) + l) % B = 0
  BY PadLenIs
<1>3. z0 \in 0..B - 1 /\ n + 1 + z0 + l = n + PadLen(x) + l
  BY <1>1, <1>2
<1>4. (n + 1 + z0 + l) % B = 0
  BY <1>2, <1>3
<1> HIDE DEF B, l, z0
<1>5. ASSUME NEW z \in 0..B - 1, (n + 1 + z + l) % B = 0
      PROVE  z = z0
  <2> DEFINE s == n + 1 + z + l
             s0 == n + 1 + z0 + l
             u == s \div B
             v == s0 \div B
  <2>1. s \in Nat /\ s0 \in Nat /\ s - z = s0 - z0
    BY <1>1, <1>3
  <2>2. s % B = 0 /\ s0 % B = 0
    BY <1>4, <1>5
  <2> HIDE DEF s, s0
  <2>3. u \in Nat /\ v \in Nat /\ s = B * u + (s % B) /\ s0 = B * v + (s0 % B)
    BY <1>1, <2>1, DivisionOf
  <2> HIDE DEF u, v
  <2>4. s = B * u /\ s0 = B * v
    <3>1. B * u \in Nat /\ B * v \in Nat
      BY <1>1, <2>3
    <3> QED
      BY <2>2, <2>3, <3>1
  <2>5. B * u + z0 = B * v + z
    <3> DEFINE bu == B * u
               bv == B * v
    <3>1. s = bu /\ s0 = bv
      BY <2>4
    <3> HIDE DEF bu, bv
    <3>2. bu + z0 = bv + z
      BY <1>3, <2>1, <3>1
    <3> QED
      BY <3>2 DEF bu, bv
  <2>6. z0 = z
    BY <1>1, <1>3, <2>3, <2>5, OneRest
  <2> QED
    BY <2>6
<1>6. (CHOOSE z \in 0..B - 1 : (n + 1 + z + l) % B = 0) = z0
  BY <1>3, <1>4, <1>5
<1> QED
  BY <1>6 DEF B, l, z0

\* The padding is a one and k zeros.
PaddingParts(k) ==
  /\ Padding(k + 1) \in Seq(Bytes) /\ Len(Padding(k + 1)) = k + 1
  /\ [i \in 1..k |-> <<"pad", 0>>] \in Seq(Bytes)
  /\ <<(<<"pad", 128>>)>> \in Seq(Bytes)
  /\ Padding(k + 1) = <<(<<"pad", 128>>)>> \o [i \in 1..k |-> <<"pad", 0>>]

\* It is.
LEMMA PaddingIs ==
  ASSUME NEW k \in Nat
  PROVE  PaddingParts(k)
<1> DEFINE a == <<"pad", 128>>
           b == <<"pad", 0>>
           s == Padding(k + 1)
           t == <<a>>
           u == [i \in 1..k |-> b]
<1>1. a \in Bytes /\ b \in Bytes
  BY DEF Bytes
<1>2. \A i \in 1..k + 1 : s[i] = IF i = 1 THEN a ELSE b
  BY DEF Padding
<1>3. s = [i \in 1..k + 1 |-> s[i]]
  BY DEF Padding
<1> HIDE DEF a, b, s
<1>4. s \in [1..k + 1 -> Bytes]
  BY <1>1, <1>2, <1>3
<1>5. s \in Seq(Bytes) /\ Len(s) = k + 1
  BY <1>4
<1>6. t \in Seq(Bytes) /\ Len(t) = 1 /\ t[1] = a
  BY <1>1
<1>7. u \in [1..k -> Bytes] /\ \A i \in 1..k : u[i] = b
  BY <1>1
<1> HIDE DEF t, u
<1>8. u \in Seq(Bytes) /\ Len(u) = k
  BY <1>7
<1> DEFINE tu == t \o u
<1>9. Joins(tu, Bytes, t, u, 1, k)
  BY <1>6, <1>8, JoinsAt
<1> HIDE DEF tu
<1>10. tu \in Seq(Bytes) /\ Len(tu) = 1 + k /\ tu[1] = a
       /\ \A i \in 1..k : tu[1 + i] = b
  <2>1. tu \in Seq(Bytes) /\ Len(tu) = 1 + k
        /\ (\A i \in 1..1 : tu[i] = t[i]) /\ (\A i \in 1..k : tu[1 + i] = u[i])
    BY <1>9 DEF Joins
  <2>2. 1 \in 1..1
    OBVIOUS
  <2>3. tu[1] = a
    BY <1>6, <2>1, <2>2
  <2> QED
    BY <1>7, <2>1, <2>3
<1>11. ASSUME NEW i \in 1..k + 1
       PROVE  s[i] = tu[i]
  <2>1. CASE i = 1
    BY <1>2, <1>10, <2>1
  <2>2. CASE i # 1
    <3>1. i - 1 \in 1..k /\ 1 + (i - 1) = i
      BY <2>2
    <3> QED
      BY <1>2, <1>10, <2>2, <3>1
  <2> QED
    BY <2>1, <2>2
<1>12. s = tu
  <2>1. Len(s) = Len(tu) /\ \A i \in 1..Len(s) : s[i] = tu[i]
    BY <1>5, <1>10, <1>11
  <2> QED
    BY <1>5, <1>10, <2>1, SeqEqual
<1>13. s = t \o u
  BY <1>12 DEF tu
<1> QED
  BY <1>5, <1>6, <1>8, <1>13 DEF s, t, u, a, b, PaddingParts

\* The padded message is the message, the padding and the length.
LEMMA PaddedIs ==
  ASSUME NEW m \in Seq(Bytes), NEW x, x = Len(m) % MD5Block
  PROVE  /\ Padded(m) = (m \o Padding(PadLen(x))) \o Digits(8 * Len(m))
         /\ Padding(PadLen(x)) \in Seq(Bytes)
         /\ Len(Padding(PadLen(x))) = PadLen(x)
<1> DEFINE n == Len(m)
           z == CHOOSE z \in 0..MD5Block - 1 :
                  (n + 1 + z + LengthBytes) % MD5Block = 0
           t == <<(<<"pad", 128>>)>>
           u == [i \in 1..z |-> <<"pad", 0>>]
           d == Digits(8 * n)
<1>1. n \in Nat
  OBVIOUS
<1>2. Padded(m) = ((m \o t) \o u) \o d
  BY DEF Padded
<1>3. z = PadLen(x) - 1
  BY <1>1, ZerosAre
<1> HIDE DEF z
<1>4. PadLen(x) \in 1..MD5Block
  BY <1>1, PadLenIs
<1>5. z \in Nat /\ z + 1 = PadLen(x)
  BY <1>3, <1>4
<1>6. /\ Padding(z + 1) \in Seq(Bytes) /\ Len(Padding(z + 1)) = z + 1
      /\ u \in Seq(Bytes) /\ t \in Seq(Bytes) /\ Padding(z + 1) = t \o u
  <2>1. PaddingParts(z)
    BY <1>5, PaddingIs
  <2> QED
    BY <2>1 DEF PaddingParts
<1> HIDE DEF t, u, d, n
<1>7. (m \o t) \o u = m \o (t \o u)
  <2>1. t \in Seq(Bytes) /\ u \in Seq(Bytes)
    BY <1>6
  <2> QED
    BY <2>1, ConcatAssociative
<1> QED
  BY <1>2, <1>5, <1>6, <1>7 DEF d, n

\* dng_md5_printer::Result transforms the padded message, nothing else and
\* nothing twice.
LEMMA ResultIs ==
  ASSUME NEW p, NEW m, Carries(p, m), ~p.final
  PROVE  Result(p).final /\ Result(p).hashed = Padded(m)
<1> DEFINE n == Len(m)
           x == Index(p)
           pad == Padding(PadLen(x))
           p1 == Process(p, pad)
           p2 == Process(p1, Encode(p.count))
           one == m \o pad
           two == one \o Digits(8 * n)
<1>1. /\ p \in Printers /\ m \in Seq(Bytes) /\ n \in Nat /\ x = n % MD5Block
      /\ p.count = WordsOf(8 * n)
  BY CarriesFacts
<1>2. Padded(m) = two /\ pad \in Seq(Bytes) /\ Len(pad) = PadLen(x)
  BY <1>1, PaddedIs
<1>3. 8 * n \in Nat
  BY <1>1
<1>4. Encode(p.count) = Digits(8 * n)
  BY <1>1, <1>3, EncodeIs
<1>5. Digits(8 * n) \in Seq(Bytes) /\ Len(Digits(8 * n)) = LengthBytes
  BY <1>3, DigitsAreBytes
<1> HIDE DEF pad, n, x
<1>6. Carries(p1, one)
  BY <1>2, ProcessCarries
<1> HIDE DEF p1
<1>7. Carries(p2, two)
  <2> DEFINE e == Digits(8 * n)
  <2>1. e \in Seq(Bytes) /\ p2 = Process(p1, e)
    BY <1>4, <1>5
  <2> HIDE DEF e, one, p2
  <2>2. Carries(Process(p1, e), one \o e)
    BY <1>6, <2>1, ProcessCarries
  <2> QED
    BY <2>1, <2>2 DEF e
<1>8. Result(p) = [p2 EXCEPT !.final = TRUE]
  BY DEF Result, p1, pad, x
<1>9. Len(two) = n + PadLen(x) + LengthBytes
  <2>1. Len(one) = n + PadLen(x) /\ one \in Seq(Bytes)
    <3>1. PadLen(x) \in Nat
      BY <1>1, PadLenIs
    <3>2. Joins(one, Bytes, m, pad, n, PadLen(x))
      BY <1>1, <1>2, <3>1, JoinsAt DEF n
    <3> QED
      BY <3>2 DEF Joins
  <2> DEFINE e == Digits(8 * n)
  <2>2. e \in Seq(Bytes) /\ Len(e) = LengthBytes
    BY <1>5
  <2> HIDE DEF e, one
  <2>3. Len(one \o e) = Len(one) + Len(e)
    BY <2>1, <2>2, Concatenated
  <2> QED
    BY <2>1, <2>2, <2>3 DEF e
<1> HIDE DEF p2, two, one
<1>10. MD5Block * (Len(two) \div MD5Block) = Len(two)
  BY <1>1, <1>9, PadLenIs
<1>11. /\ p2.hashed \in Seq(Bytes) /\ two \in Seq(Bytes)
       /\ Len(p2.hashed) = Len(two)
       /\ \A i \in 1..Len(p2.hashed) : p2.hashed[i] = two[i]
  BY <1>7, <1>10 DEF Carries, Printers
<1>12. p2.hashed = two
  BY <1>11, SeqEqual
<1>13. p2 \in Printers
  BY <1>7 DEF Carries
<1>14. Result(p).final = TRUE /\ Result(p).hashed = p2.hashed
  BY <1>8, <1>13 DEF Printers
<1> QED
  BY <1>2, <1>12, <1>14

\* Before that, what is transformed and what waits is the message.
LEMMA CollectedIs ==
  ASSUME NEW p, NEW m, Carries(p, m)
  PROVE  p.hashed \o [i \in 1..Index(p) |-> p.buffer[i - 1]] = m
<1> DEFINE n == Len(m)
           x == Index(p)
           s == [i \in 1..x |-> p.buffer[i - 1]]
           hashed == p.hashed
           h == n - x
<1>1. /\ m \in Seq(Bytes) /\ n \in Nat
      /\ hashed \in Seq(Bytes) /\ p.buffer \in [0..MD5Block - 1 -> Bytes]
      /\ x \in 0..MD5Block - 1
      /\ Len(hashed) = h
      /\ \A i \in 1..h : hashed[i] = m[i]
      /\ \A i \in 1..x : p.buffer[i - 1] = m[h + i]
  BY CarriesFacts
<1>2. x \in Nat /\ h \in Nat /\ h + x = n
  <2>1. Len(hashed) \in Nat /\ MD5Block \in Nat
    BY <1>1, BlockIs
  <2> HIDE DEF x, n, hashed
  <2> QED
    BY <1>1, <2>1
<1>3. \A i \in 1..x : s[i] = m[h + i] /\ m[h + i] \in Bytes
  <2> SUFFICES ASSUME NEW i \in 1..x
               PROVE  s[i] = m[h + i] /\ m[h + i] \in Bytes
    OBVIOUS
  <2>1. s[i] = m[h + i]
    BY <1>1
  <2>2. h + i \in 1..n
    <3> HIDE DEF h, x, n
    <3> QED
      BY <1>2
  <2> HIDE DEF h, x, s
  <2> QED
    BY <1>1, <2>1, <2>2
<1>4. s = [i \in 1..x |-> s[i]]
  OBVIOUS
<1> HIDE DEF s, x, h, n, hashed
<1>5. s \in [1..x -> Bytes]
  BY <1>3, <1>4
<1>6. s \in Seq(Bytes) /\ Len(s) = x
  BY <1>2, <1>5
<1> DEFINE all == hashed \o s
<1>7. Joins(all, Bytes, hashed, s, h, x)
  BY <1>1, <1>2, <1>6, JoinsAt
<1> HIDE DEF all
<1>8. all \in Seq(Bytes) /\ Len(all) = h + x
      /\ (\A i \in 1..h : all[i] = hashed[i]) /\ (\A i \in 1..x : all[h + i] = s[i])
  BY <1>7 DEF Joins
<1>9. ASSUME NEW i \in 1..h + x
      PROVE  all[i] = m[i]
  <2>1. CASE i <= h
    <3>1. i \in 1..h
      BY <1>2, <2>1
    <3> QED
      BY <1>1, <1>8, <3>1
  <2>2. CASE ~(i <= h)
    <3>1. i - h \in 1..x /\ h + (i - h) = i
      BY <1>2, <2>2
    <3> QED
      BY <1>3, <1>8, <3>1
  <2> QED
    BY <2>1, <2>2
<1>10. Len(all) = Len(m) /\ \A i \in 1..Len(all) : all[i] = m[i]
  BY <1>2, <1>8, <1>9 DEF n
<1>11. all = m
  BY <1>1, <1>8, <1>10, SeqEqual
<1> QED
  BY <1>11 DEF all, hashed, s, x

-----------------------------------------------------------------------------
(* The rows of an image. *)

\* The bytes of the first t rows of an image with r bytes in a row.
ByteAt(i, r) == <<(i - 1) \div r, (i - 1) % r>>

RowsOf(t, r) == [i \in 1..t * r |-> ByteAt(i, r)]

\* They are a message.
LEMMA RowsAre ==
  ASSUME NEW t \in Nat, NEW r \in Nat, r > 0
  PROVE  RowsOf(t, r) \in Seq(Bytes) /\ Len(RowsOf(t, r)) = t * r
<1> DEFINE k == t * r
           s == RowsOf(t, r)
<1>1. k \in Nat
  OBVIOUS
<1>2. s = [i \in 1..k |-> ByteAt(i, r)]
  BY DEF RowsOf
<1> HIDE DEF k, s
<1>3. ASSUME NEW i \in 1..k
      PROVE  ByteAt(i, r) \in Bytes
  <2> DEFINE j == i - 1
  <2>1. j \in Nat
    BY <1>1
  <2> HIDE DEF j
  <2>2. j \div r \in Nat /\ j % r \in Nat
    <3>1. j \div r \in Nat /\ j % r \in 0..r - 1
      BY <2>1, DivisionOf
    <3> QED
      BY <3>1
  <2> QED
    BY <2>2 DEF j, ByteAt, Bytes
<1>4. s \in [1..k -> Bytes]
  BY <1>2, <1>3
<1>5. s \in Seq(Bytes) /\ Len(s) = k
  BY <1>1, <1>4
<1> QED
  BY <1>5 DEF s, k

\* The tile has the e rows that follow the first t ...
IsRows(tile, t, e, r) == tile = [i \in 1..e * r |-> ByteAt(t * r + i, r)]

\* ... and goes on with them.
GoesOn(tile, t, e, r) ==
  tile \in Seq(Bytes) /\ RowsOf(t, r) \o tile = RowsOf(t + e, r)

\* The rows of a tile follow the rows before it.
LEMMA RowsGoOn ==
  ASSUME NEW t \in Nat, NEW e \in Nat, NEW r \in Nat, r > 0, NEW tile,
         IsRows(tile, t, e, r)
  PROVE  GoesOn(tile, t, e, r)
<1> DEFINE a == t * r
           b == e * r
           s == RowsOf(t, r)
           u == RowsOf(t + e, r)
<1>1. a \in Nat /\ b \in Nat /\ (t + e) * r = a + b /\ t + e \in Nat
  OBVIOUS
<1>2. tile = [i \in 1..b |-> ByteAt(a + i, r)]
  BY DEF IsRows
<1>3. /\ s \in Seq(Bytes) /\ Len(s) = a
      /\ u \in Seq(Bytes) /\ Len(u) = a + b
  BY <1>1, RowsAre
<1>4. /\ \A i \in 1..a : s[i] = ByteAt(i, r)
      /\ \A i \in 1..a + b : u[i] = ByteAt(i, r)
  BY <1>1 DEF RowsOf
<1> HIDE DEF a, b, s, u
<1>5. ASSUME NEW i \in 1..b
      PROVE  tile[i] = u[a + i] /\ u[a + i] \in Bytes
  <2>1. a + i \in 1..a + b
    BY <1>1
  <2>2. u[a + i] \in Bytes
    BY <1>3, <2>1
  <2> QED
    BY <1>2, <1>4, <2>1, <2>2
<1>6. tile \in [1..b -> Bytes]
  BY <1>2, <1>5
<1>7. tile \in Seq(Bytes) /\ Len(tile) = b
  BY <1>1, <1>6
<1> DEFINE all == s \o tile
<1>8. Joins(all, Bytes, s, tile, a, b)
  BY <1>1, <1>3, <1>7, JoinsAt
<1> HIDE DEF all
<1>9. all \in Seq(Bytes) /\ Len(all) = a + b
      /\ (\A i \in 1..a : all[i] = s[i]) /\ (\A i \in 1..b : all[a + i] = tile[i])
  BY <1>8 DEF Joins
<1>10. ASSUME NEW i \in 1..a + b
       PROVE  all[i] = u[i]
  <2>1. CASE i <= a
    <3>1. i \in 1..a
      BY <1>1, <2>1
    <3> QED
      BY <1>4, <1>9, <3>1
  <2>2. CASE ~(i <= a)
    <3>1. i - a \in 1..b /\ a + (i - a) = i
      BY <1>1, <2>2
    <3> QED
      BY <1>5, <1>9, <3>1
  <2> QED
    BY <2>1, <2>2
<1>11. Len(all) = Len(u) /\ \A i \in 1..Len(all) : all[i] = u[i]
  BY <1>3, <1>9, <1>10
<1>12. all = u
  BY <1>3, <1>9, <1>11, SeqEqual
<1> QED
  BY <1>7, <1>12 DEF all, s, u, GoesOn

\* The first rows are the start of the image.
LEMMA FirstRows ==
  ASSUME NEW t \in Nat, NEW h \in Nat, t <= h, NEW r \in Nat, r > 0
  PROVE  SubSeq(RowsOf(h, r), 1, t * r) = RowsOf(t, r)
<1> DEFINE a == t * r
           b == h * r
           s == RowsOf(h, r)
           u == RowsOf(t, r)
           sub == SubSeq(s, 0 + 1, a)
<1>1. a \in Nat /\ b \in Nat /\ a <= b
  <2>1. h * r = t * r + (h - t) * r /\ (h - t) * r \in Nat
    OBVIOUS
  <2> QED
    BY <2>1
<1>2. s \in Seq(Bytes) /\ Len(s) = b /\ u \in Seq(Bytes) /\ Len(u) = a
  BY RowsAre
<1>3. (\A i \in 1..b : s[i] = ByteAt(i, r)) /\ \A i \in 1..a : u[i] = ByteAt(i, r)
  BY <1>1 DEF RowsOf
<1> HIDE DEF a, b, s, u
<1>4. /\ sub \in Seq(Bytes) /\ Len(sub) = a - 0
      /\ \A i \in 1..a - 0 : sub[i] = s[0 + i]
  <2>1. 0 \in Nat /\ 0 <= a /\ a <= Len(s)
    BY <1>1, <1>2
  <2> QED
    BY <1>1, <1>2, <2>1, PartOfSequence
<1> HIDE DEF sub
<1>5. a - 0 = a /\ \A i \in 1..a : 0 + i = i /\ i \in 1..b
  BY <1>1
<1>6. Len(sub) = Len(u) /\ \A i \in 1..Len(sub) : sub[i] = u[i]
  BY <1>2, <1>3, <1>4, <1>5
<1>7. sub = u
  BY <1>2, <1>4, <1>6, SeqEqual
<1>8. 0 + 1 = 1
  OBVIOUS
<1> QED
  BY <1>7, <1>8 DEF sub, s, a, u

-----------------------------------------------------------------------------
(* The tile iterator over the image. *)

\* The rows in the buffer: an image of fewer rows has a smaller tile.
BufferRows(h) == Smaller(h, kBufferRows)

\* The last page of tiles; the first is 0.
LastPage(h) == (h - 1) \div BufferRows(h)

\* The iterator at page v of an image of h rows and w columns.
PageAt(v, h, w) ==
  [area |-> Rect(0, 0, h, w), tileHeight |-> BufferRows(h), tileWidth |-> w,
   leftPage |-> 0, rightPage |-> 0, topPage |-> 0, bottomPage |-> LastPage(h),
   horizontalPage |-> 0, verticalPage |-> v,
   tileTop |-> v * BufferRows(h), tileLeft |-> 0, rowLeft |-> 0]

\* It is at a page or behind the last; an empty image has no page.
InOrder(it, h, w) ==
  IF h = 0 THEN ~HasTile(it)
           ELSE \E v \in 0..LastPage(h) + 1 : it = PageAt(v, h, w)

\* The rows that were read before the tile at hand.
RowsRead(it, h) == IF HasTile(it) THEN OneTile(it).t ELSE h

\* The buffer has a row at least, and the last page begins in the image.
LEMMA BufferIs ==
  ASSUME NEW h \in Nat, h # 0
  PROVE  /\ BufferRows(h) \in Nat /\ BufferRows(h) > 0 /\ BufferRows(h) <= h
         /\ LastPage(h) \in Nat
         /\ BufferRows(h) * LastPage(h) < h
<1> DEFINE k == BufferRows(h)
           p == LastPage(h)
<1>1. kBufferRows \in Nat /\ kBufferRows > 0
  BY RawDigestAssumption DEF RawDigestAssumption
<1>2. k \in Nat /\ k > 0 /\ k <= h
  BY <1>1 DEF BufferRows, Smaller
<1>3. h - 1 \in Nat
  OBVIOUS
<1>4. p = (h - 1) \div k
  BY DEF LastPage
<1> HIDE DEF k, p
<1>5. p \in Nat /\ (h - 1) % k \in 0..k - 1 /\ h - 1 = k * p + ((h - 1) % k)
  BY <1>2, <1>3, <1>4, DivisionOf
<1>6. k * p \in Nat
  BY <1>2, <1>5
<1>7. k * p < h
  BY <1>5, <1>6
<1> QED
  BY <1>2, <1>5, <1>7 DEF k, p

\* A number divided by one that is larger.
LEMMA SmallQuotients ==
  ASSUME NEW b \in Nat, b > 0
  PROVE  Quotient(0, b) = 0 /\ Quotient(b - 1, b) = 0
<1>1. (b * 0 + 0) \div b = 0
  <2>1. 0 \in 0..b - 1 /\ 0 \in Int
    OBVIOUS
  <2> QED
    BY <2>1, DivisionIs
<1>2. (b * 0 + (b - 1)) \div b = 0
  <2> DEFINE r == b - 1
  <2>1. r \in 0..b - 1 /\ 0 \in Int
    OBVIOUS
  <2> HIDE DEF r
  <2>2. (b * 0 + r) \div b = 0
    BY <2>1, DivisionIs
  <2> QED
    BY <2>2 DEF r
<1>3. b * 0 + 0 = 0 /\ b * 0 + (b - 1) = b - 1 /\ b - 1 >= 0
  OBVIOUS
<1> QED
  BY <1>1, <1>2, <1>3 DEF Quotient

\* What the iterator delivers at page v: the rows of that page, and then the
\* next one.
MeetsPage(it, v, h, w) ==
  /\ HasTile(it) <=> v <= LastPage(h)
  /\ OneTile(it).t = v * BufferRows(h)
  /\ OneTile(it).b = IF v < LastPage(h) THEN v * BufferRows(h) + BufferRows(h)
                                       ELSE h
  /\ Advance(it) = PageAt(v + 1, h, w)

\* It does.
LEMMA TileAtPage ==
  ASSUME NEW h \in Nat, h # 0, NEW w \in Nat, NEW v \in Nat,
         NEW it, it = PageAt(v, h, w)
  PROVE  MeetsPage(it, v, h, w)
<1> DEFINE k == BufferRows(h)
           p == LastPage(h)
           a == v * k
<1>1. k \in Nat /\ p \in Nat
  BY BufferIs
<1>2. a \in Nat /\ (v + 1) * k = a + k /\ (v = 0 => a = 0)
  BY <1>1
<1>3. it = [area |-> Rect(0, 0, h, w), tileHeight |-> k, tileWidth |-> w,
            leftPage |-> 0, rightPage |-> 0, topPage |-> 0, bottomPage |-> p,
            horizontalPage |-> 0, verticalPage |-> v,
            tileTop |-> a, tileLeft |-> 0, rowLeft |-> 0]
  BY DEF PageAt
<1>4. PageAt(v + 1, h, w)
        = [area |-> Rect(0, 0, h, w), tileHeight |-> k, tileWidth |-> w,
           leftPage |-> 0, rightPage |-> 0, topPage |-> 0, bottomPage |-> p,
           horizontalPage |-> 0, verticalPage |-> v + 1,
           tileTop |-> a + k, tileLeft |-> 0, rowLeft |-> 0]
  BY <1>2 DEF PageAt
<1> HIDE DEF a, k, p
<1>5. HasTile(it) <=> v <= p
  BY <1>3 DEF HasTile
<1>6. OneTile(it).t = a
  <2>1. OneTile(it).t = IF v > 0 THEN a ELSE 0
    BY <1>3 DEF OneTile, Rect
  <2> QED
    BY <1>2, <2>1
<1>7. OneTile(it).b = IF v < p THEN a + k ELSE h
  BY <1>3 DEF OneTile, Rect
<1>8. /\ it.horizontalPage = 0 /\ it.rightPage = 0 /\ it.verticalPage = v
      /\ it.leftPage = 0 /\ it.tileTop = a /\ it.tileHeight = k /\ it.rowLeft = 0
  BY <1>3
<1>9. Advance(it) = PageAt(v + 1, h, w)
  <2>1. Advance(it) = [it EXCEPT !.verticalPage = v + 1, !.tileTop = a + k,
                                 !.horizontalPage = 0, !.tileLeft = 0]
    BY <1>8 DEF Advance
  <2> DEFINE r == Rect(0, 0, h, w)
             e == v + 1
             f == a + k
  <2> HIDE DEF r, e, f
  <2> DEFINE next == [it EXCEPT !.verticalPage = e, !.tileTop = f,
                               !.horizontalPage = 0, !.tileLeft = 0]
             page == [area |-> r, tileHeight |-> k, tileWidth |-> w,
                      leftPage |-> 0, rightPage |-> 0, topPage |-> 0,
                      bottomPage |-> p, horizontalPage |-> 0,
                      verticalPage |-> e, tileTop |-> f, tileLeft |-> 0,
                      rowLeft |-> 0]
             Members == {"area", "tileHeight", "tileWidth", "leftPage",
                         "rightPage", "topPage", "bottomPage",
                         "horizontalPage", "verticalPage", "tileTop",
                         "tileLeft", "rowLeft"}
  <2>2. it = [area |-> r, tileHeight |-> k, tileWidth |-> w,
              leftPage |-> 0, rightPage |-> 0, topPage |-> 0, bottomPage |-> p,
              horizontalPage |-> 0, verticalPage |-> v,
              tileTop |-> a, tileLeft |-> 0, rowLeft |-> 0]
    BY <1>3 DEF r
  <2>3. DOMAIN it = Members /\ it = [m \in Members |-> it[m]]
    BY <2>2
  <2>4. page = [m \in Members |-> page[m]]
    OBVIOUS
  <2>5. next = [m \in Members |-> next[m]]
    BY <2>3
  <2>6. \A m \in Members : next[m] = page[m]
    <3>1. /\ next.area = r /\ next.tileHeight = k /\ next.tileWidth = w
          /\ next.leftPage = 0 /\ next.rightPage = 0 /\ next.topPage = 0
          /\ next.bottomPage = p /\ next.rowLeft = 0
      BY <2>2
    <3>2. /\ next.horizontalPage = 0 /\ next.verticalPage = e
          /\ next.tileTop = f /\ next.tileLeft = 0
      BY <2>2
    <3>3. /\ page.area = r /\ page.tileHeight = k /\ page.tileWidth = w
          /\ page.leftPage = 0 /\ page.rightPage = 0 /\ page.topPage = 0
          /\ page.bottomPage = p /\ page.rowLeft = 0
          /\ page.horizontalPage = 0 /\ page.verticalPage = e
          /\ page.tileTop = f /\ page.tileLeft = 0
      OBVIOUS
    <3> HIDE DEF next, page
    <3> QED
      BY <3>1, <3>2, <3>3
  <2>7. next = page
    <3> HIDE DEF next, page, Members
    <3> QED
      BY <2>4, <2>5, <2>6
  <2> QED
    BY <1>4, <2>1, <2>7 DEF r, e, f
<1> QED
  BY <1>5, <1>6, <1>7, <1>9 DEF a, k, p, MeetsPage

\* The iterator starts with the first row (InitializeSize, of
\* dng_tile_iterator).
LEMMA FirstPage ==
  ASSUME NEW h \in Nat, NEW w \in Nat, w > 0, NEW it,
         it = InitializeSize(kBufferRows, w, Rect(0, 0, h, w))
  PROVE  InOrder(it, h, w) /\ RowsRead(it, h) = 0
<1> DEFINE area == Rect(0, 0, h, w)
           tile == Rect(0, 0, BufferRows(h), w)
<1>1. kBufferRows \in Nat
  BY RawDigestAssumption DEF RawDigestAssumption
<1>2. it = Initialize(tile, area)
  <2>1. Smaller(h, 0 + kBufferRows) = BufferRows(h) /\ Smaller(w, 0 + w) = w
    BY <1>1 DEF Smaller, BufferRows
  <2> QED
    BY <2>1 DEF InitializeSize, Rect
<1>3. CASE h = 0
  <2>1. IsEmpty(area)
    BY <1>3 DEF IsEmpty, Rect
  <2>2. it.bottomPage = -1 /\ it.verticalPage = 0
    BY <1>2, <2>1 DEF Initialize
  <2>3. ~HasTile(it)
    BY <2>2 DEF HasTile
  <2> QED
    BY <1>3, <2>3 DEF InOrder, RowsRead
<1>4. CASE h # 0
  <2> DEFINE k == BufferRows(h)
             p == LastPage(h)
  <2>1. k \in Nat /\ k > 0 /\ p \in Nat /\ h - 1 \in Nat
    BY <1>4, BufferIs
  <2>2. ~IsEmpty(area)
    BY <1>4 DEF IsEmpty, Rect
  <2>3. Quotient(0 - 0, k) = 0 /\ Quotient(0 - 0, w) = 0
        /\ Quotient(w - 0 - 1, w) = 0 /\ Quotient(h - 0 - 1, k) = p
    <3>1. Quotient(0, k) = 0 /\ Quotient(0, w) = 0 /\ Quotient(w - 1, w) = 0
      BY <2>1, SmallQuotients
    <3>2. Quotient(h - 1, k) = p
      BY <2>1 DEF Quotient, LastPage
    <3>3. 0 - 0 = 0 /\ w - 0 - 1 = w - 1 /\ h - 0 - 1 = h - 1
      OBVIOUS
    <3> QED
      BY <3>1, <3>2, <3>3
  <2>4. k - 0 = k /\ w - 0 = w /\ 0 * k + 0 = 0 /\ 0 * w + 0 = 0 /\ 0 * k = 0
    BY <2>1
  <2>5. PageAt(0, h, w)
          = [area |-> area, tileHeight |-> k, tileWidth |-> w,
             leftPage |-> 0, rightPage |-> 0, topPage |-> 0, bottomPage |-> p,
             horizontalPage |-> 0, verticalPage |-> 0,
             tileTop |-> 0, tileLeft |-> 0, rowLeft |-> 0]
    BY <2>4 DEF PageAt
  <2>6. /\ tile.t = 0 /\ tile.l = 0 /\ tile.b = k /\ tile.r = w
        /\ area.t = 0 /\ area.l = 0 /\ area.b = h /\ area.r = w
    BY DEF Rect
  <2> HIDE DEF k, p, area, tile
  <2>7. it = PageAt(0, h, w)
    BY <1>2, <2>2, <2>3, <2>4, <2>5, <2>6 DEF Initialize
  <2>8. 0 \in Nat /\ 0 \in 0..LastPage(h) + 1 /\ 0 <= LastPage(h)
    BY <2>1 DEF p
  <2>9. InOrder(it, h, w)
    BY <1>4, <2>7, <2>8 DEF InOrder
  <2>10. MeetsPage(it, 0, h, w)
    BY <1>4, <2>7, <2>8, TileAtPage
  <2>11. HasTile(it) /\ OneTile(it).t = 0 * BufferRows(h)
    BY <2>8, <2>10 DEF MeetsPage
  <2> QED
    BY <2>4, <2>9, <2>11 DEF RowsRead, k
<1> QED
  BY <1>3, <1>4

\* Each tile ends where the next begins, and the last with the image
\* (GetOneTile).
LEMMA NextPage ==
  ASSUME NEW h \in Nat, NEW w \in Nat, NEW it, InOrder(it, h, w), HasTile(it)
  PROVE  /\ InOrder(Advance(it), h, w)
         /\ OneTile(it).t \in Nat /\ Height(OneTile(it)) \in Nat
         /\ OneTile(it).t + Height(OneTile(it)) = RowsRead(Advance(it), h)
         /\ OneTile(it).t <= h
<1> DEFINE k == BufferRows(h)
           p == LastPage(h)
           next == Advance(it)
           t == OneTile(it).t
           b == OneTile(it).b
<1>1. h # 0
  BY DEF InOrder
<1>2. PICK v \in 0..LastPage(h) + 1 : it = PageAt(v, h, w)
  BY <1>1 DEF InOrder
<1>3. k \in Nat /\ p \in Nat /\ k * p < h /\ v \in Nat /\ v + 1 \in Nat
  BY <1>1, <1>2, BufferIs
<1> DEFINE a == v * k
<1>4. /\ v <= p /\ t = a /\ b = IF v < p THEN a + k ELSE h
      /\ next = PageAt(v + 1, h, w)
  <2>1. MeetsPage(it, v, h, w)
    BY <1>1, <1>2, <1>3, TileAtPage
  <2> QED
    BY <2>1 DEF MeetsPage
<1>5. /\ HasTile(next) <=> v + 1 <= p
      /\ OneTile(next).t = (v + 1) * k
  <2>1. MeetsPage(next, v + 1, h, w)
    BY <1>1, <1>3, <1>4, TileAtPage
  <2> QED
    BY <2>1 DEF MeetsPage
<1>6. a \in Nat /\ (v + 1) * k = a + k /\ a < h
  <2>1. PICK d \in Nat : p = v + d
    <3>1. p - v \in Nat /\ p = v + (p - v)
      BY <1>3, <1>4
    <3> QED
      BY <3>1
  <2>2. k * p = a + k * d /\ k * d \in Nat /\ a \in Nat /\ (v + 1) * k = a + k
    BY <1>3, <2>1
  <2> HIDE DEF k, p, a
  <2>3. a < h
    BY <1>3, <2>2
  <2> QED
    BY <2>2, <2>3
<1>7. v + 1 \in 0..LastPage(h) + 1
  BY <1>3, <1>4
<1>8. InOrder(next, h, w)
  BY <1>1, <1>4, <1>7 DEF InOrder
<1>9. RowsRead(next, h) = b
  BY <1>3, <1>4, <1>5, <1>6 DEF RowsRead
<1> HIDE DEF k, p, a, next, t, b
<1>10. b \in Nat /\ t \in Nat /\ t <= b /\ t <= h
  BY <1>3, <1>4, <1>6
<1>11. Height(OneTile(it)) = b - t
  BY <1>10 DEF Height, t, b
<1>12. b - t \in Nat /\ t + (b - t) = b
  BY <1>10
<1> QED
  BY <1>8, <1>9, <1>10, <1>11, <1>12 DEF next, t

\* No row is read beyond the image.
LEMMA RowsInImage ==
  ASSUME NEW h \in Nat, NEW w \in Nat, NEW it, InOrder(it, h, w)
  PROVE  RowsRead(it, h) \in Nat /\ RowsRead(it, h) <= h
<1>1. CASE HasTile(it)
  BY <1>1, NextPage DEF RowsRead
<1>2. CASE ~HasTile(it)
  BY <1>2 DEF RowsRead
<1> QED
  BY <1>1, <1>2

-----------------------------------------------------------------------------
(* The invariant. *)

\* The printer has been given the rows read so far; in the end it has
\* transformed the padded image.
ReadsRows(it, p, h, w, r) ==
  /\ InOrder(it, h, w)
  /\ IF p.final THEN ~HasTile(it) /\ p.hashed = Padded(RowsOf(h, r))
                ELSE Carries(p, RowsOf(RowsRead(it, h), r))

\* The image.
ImageIs(h, w, s) == h \in Nat /\ w \in Nat \ {0} /\ s \in Nat \ {0}

\* The inductive invariant: BytesInOrder only relates the bytes, which is too
\* little to go on with; it needs that the iterator is at one of its pages and
\* that the printer's count, its buffer and its blocks are those of the rows
\* read.
DigestInv ==
  /\ ImageIs(imageHeight, imageWidth, pixelSize)
  /\ ReadsRows(iter, printer, imageHeight, imageWidth, PixelRowBytes)

\* A row has a byte at least.
LEMMA RowBytesIs ==
  ASSUME ImageIs(imageHeight, imageWidth, pixelSize)
  PROVE  PixelRowBytes \in Nat /\ PixelRowBytes > 0
<1>1. BufferPixelSize \in Nat /\ BufferPixelSize > 0
  BY DEF BufferPixelSize, ImageIs
<1>2. imageWidth \in Nat /\ imageWidth > 0
  BY DEF ImageIs
<1>3. ASSUME NEW x \in Nat, NEW y \in Nat, x > 0, y > 0
      PROVE  x * y \in Nat /\ x * y > 0
  <2>1. x - 1 \in Nat /\ (x - 1) * y \in Nat /\ x * y = (x - 1) * y + y
    BY <1>3
  <2> QED
    BY <1>3, <2>1
<1> QED
  BY <1>1, <1>2, <1>3 DEF PixelRowBytes

\* At first no row is read.
LEMMA NothingRead ==
  ASSUME NEW r \in Nat, r > 0
  PROVE  Carries(NewPrinter, RowsOf(0, r)) /\ ~NewPrinter.final
<1>1. 0 * r = 0 /\ 0 \in Nat
  OBVIOUS
<1>2. RowsOf(0, r) \in Seq(Bytes) /\ Len(RowsOf(0, r)) = 0
  BY <1>1, RowsAre
<1>3. RowsOf(0, r) = <<>>
  BY <1>2
<1> QED
  BY <1>3, NewPrinterCarries

\* The invariant holds at first.
LEMMA DigestInvInit == DigestInit => DigestInv
<1> SUFFICES ASSUME DigestInit
             PROVE  DigestInv
  OBVIOUS
<1> DEFINE h == imageHeight
           w == imageWidth
           r == PixelRowBytes
<1>1. ImageIs(h, w, pixelSize)
  BY RawDigestAssumption DEF RawDigestAssumption, DigestInit, ImageIs
<1>2. r \in Nat /\ r > 0
  BY <1>1, RowBytesIs
<1>3. /\ iter = InitializeSize(kBufferRows, w, Rect(0, 0, h, w))
      /\ printer = NewPrinter
  BY DEF DigestInit, DigestFresh, Bounds
<1>4. h \in Nat /\ w \in Nat /\ w > 0
  BY <1>1 DEF ImageIs
<1> HIDE DEF h, w, r
<1>5. InOrder(iter, h, w) /\ RowsRead(iter, h) = 0
  BY <1>3, <1>4, FirstPage
<1>6. Carries(printer, RowsOf(0, r)) /\ ~printer.final
  BY <1>2, <1>3, NothingRead
<1>7. ReadsRows(iter, printer, h, w, r)
  BY <1>5, <1>6 DEF ReadsRows
<1> QED
  BY <1>1, <1>7 DEF DigestInv, h, w, r

\* Reading a tile keeps it ...
LEMMA TileReads ==
  ASSUME NEW h \in Nat, NEW w \in Nat, NEW r \in Nat, r > 0, NEW it, NEW p,
         ReadsRows(it, p, h, w, r), HasTile(it), NEW tile,
         IsRows(tile, OneTile(it).t, Height(OneTile(it)), r)
  PROVE  ReadsRows(Advance(it), Process(p, tile), h, w, r)
<1> DEFINE t == OneTile(it).t
           e == Height(OneTile(it))
           next == Advance(it)
           q == Process(p, tile)
<1>1. InOrder(it, h, w) /\ ~p.final /\ RowsRead(it, h) = t
  BY DEF ReadsRows, RowsRead
<1>2. Carries(p, RowsOf(t, r))
  BY <1>1 DEF ReadsRows
<1>3. InOrder(next, h, w) /\ t \in Nat /\ e \in Nat /\ t + e = RowsRead(next, h)
  BY <1>1, NextPage
<1>4. IsRows(tile, t, e, r)
  OBVIOUS
<1> HIDE DEF t, e, next
<1>5. tile \in Seq(Bytes) /\ RowsOf(t, r) \o tile = RowsOf(t + e, r)
  <2>1. GoesOn(tile, t, e, r)
    BY <1>3, <1>4, RowsGoOn
  <2> QED
    BY <2>1 DEF GoesOn
<1>6. Carries(q, RowsOf(t, r) \o tile) /\ q.final = p.final
  BY <1>2, <1>5, ProcessCarries
<1> HIDE DEF q
<1>7. Carries(q, RowsOf(RowsRead(next, h), r)) /\ ~q.final
  BY <1>1, <1>3, <1>5, <1>6
<1>8. ReadsRows(next, q, h, w, r)
  BY <1>3, <1>7 DEF ReadsRows
<1> QED
  BY <1>8 DEF next, q

\* ... and so does asking for the result.
LEMMA ResultReads ==
  ASSUME NEW h \in Nat, NEW w \in Nat, NEW r \in Nat, r > 0, NEW it, NEW p,
         ReadsRows(it, p, h, w, r), ~HasTile(it), ~p.final
  PROVE  ReadsRows(it, Result(p), h, w, r)
<1>1. InOrder(it, h, w) /\ Carries(p, RowsOf(h, r))
  BY DEF ReadsRows, RowsRead
<1>2. Result(p).final /\ Result(p).hashed = Padded(RowsOf(h, r))
  BY <1>1, ResultIs
<1> QED
  BY <1>1, <1>2 DEF ReadsRows

\* Every step keeps the invariant.
LEMMA DigestInvNext == DigestInv /\ [DigestNext]_digestVars => DigestInv'
<1> SUFFICES ASSUME DigestInv, [DigestNext]_digestVars
             PROVE  DigestInv'
  OBVIOUS
<1> DEFINE h == imageHeight
           w == imageWidth
           r == PixelRowBytes
<1>1. ImageIs(h, w, pixelSize) /\ ReadsRows(iter, printer, h, w, r)
  BY DEF DigestInv
<1>2. r \in Nat /\ r > 0 /\ h \in Nat /\ w \in Nat
  BY <1>1, RowBytesIs DEF ImageIs
<1>3. ASSUME UNCHANGED <<imageHeight, imageWidth, pixelSize>>,
             ReadsRows(iter', printer', h, w, r)
      PROVE  DigestInv'
  <2>1. r' = r
    BY <1>3 DEF PixelRowBytes, BufferPixelSize
  <2> QED
    BY <1>1, <1>3, <2>1 DEF DigestInv
<1>4. CASE DigestTile
  <2> DEFINE tile == Get(OneTile(iter))
  <2>1. /\ HasTile(iter) /\ printer' = Process(printer, tile)
        /\ iter' = Advance(iter)
        /\ UNCHANGED <<imageHeight, imageWidth, pixelSize>>
    BY <1>4 DEF DigestTile
  <2>2. IsRows(tile, OneTile(iter).t, Height(OneTile(iter)), r)
    BY DEF Get, Byte, ByteAt, IsRows
  <2> HIDE DEF tile, h, w, r
  <2>3. ReadsRows(Advance(iter), Process(printer, tile), h, w, r)
    BY <1>1, <1>2, <2>1, <2>2, TileReads
  <2>4. ReadsRows(iter', printer', h, w, r)
    BY <2>1, <2>3
  <2> QED
    BY <1>3, <2>1, <2>4
<1>5. CASE Finish
  <2>1. /\ ~HasTile(iter) /\ ~printer.final /\ printer' = Result(printer)
        /\ UNCHANGED <<imageHeight, imageWidth, pixelSize, iter>>
    BY <1>5 DEF Finish
  <2> HIDE DEF h, w, r
  <2>2. ReadsRows(iter, Result(printer), h, w, r)
    BY <1>1, <1>2, <2>1, ResultReads
  <2>3. ReadsRows(iter', printer', h, w, r)
    BY <2>1, <2>2
  <2> QED
    BY <1>3, <2>1, <2>3
<1>6. CASE UNCHANGED digestVars
  <2>1. UNCHANGED <<imageHeight, imageWidth, pixelSize, iter, printer>>
    BY <1>6 DEF digestVars
  <2>2. ReadsRows(iter', printer', h, w, r)
    BY <1>1, <2>1
  <2> QED
    BY <1>3, <2>1, <2>2
<1> QED
  BY <1>4, <1>5, <1>6 DEF DigestNext

\* The inductive invariant holds for images of every size and pixel, every size
\* of the buffer and of the blocks: FindRawImageDigest (dng_negative.cpp) reads
\* the rows once each and in order, and dng_md5_printer (dng_fingerprint.cpp)
\* carries them.
THEOREM DigestInvHolds == DigestSpec => []DigestInv
<1> QED
  BY DigestInvInit, DigestInvNext, PTL DEF DigestSpec

\* It implies the property.
LEMMA DigestInvSuffices == DigestInv => DigestOfImage
<1> SUFFICES ASSUME DigestInv
             PROVE  DigestOfImage
  OBVIOUS
<1> DEFINE h == imageHeight
           w == imageWidth
           r == PixelRowBytes
           t == RowsRead(iter, h)
<1>1. ImageIs(h, w, pixelSize) /\ ReadsRows(iter, printer, h, w, r)
  BY DEF DigestInv
<1>2. r \in Nat /\ r > 0 /\ h \in Nat /\ w \in Nat
  BY <1>1, RowBytesIs DEF ImageIs
<1>3. ImageBytes = RowsOf(h, r)
  BY DEF ImageBytes, RowsOf, Byte, ByteAt
<1>4. BytesInOrder
  <2> SUFFICES ASSUME ~printer.final
               PROVE  BytesInOrder
    BY DEF BytesInOrder
  <2>1. InOrder(iter, h, w) /\ Carries(printer, RowsOf(t, r))
    BY <1>1 DEF ReadsRows
  <2>2. t \in Nat /\ t <= h
    BY <1>2, <2>1, RowsInImage
  <2>3. printer.hashed \o Collected = RowsOf(t, r)
    BY <2>1, CollectedIs DEF Collected
  <2> HIDE DEF t, r, h
  <2>4. SubSeq(RowsOf(h, r), 1, t * r) = RowsOf(t, r)
    BY <1>2, <2>2, FirstRows
  <2> QED
    BY <1>3, <2>3, <2>4 DEF BytesInOrder, t, RowsRead, h, r
<1>5. printer.final => printer.hashed = Padded(ImageBytes)
  BY <1>1, <1>3 DEF ReadsRows
<1> QED
  BY <1>4, <1>5 DEF DigestOfImage

\* What is transformed and what waits in the buffer are the rows read so far,
\* however tiles and blocks meet and whichever word of the count overflows, and
\* the result is the MD5 of the image's pixels: message, padding and length.
THEOREM DigestRight == DigestSpec => []DigestOfImage
<1> QED
  BY DigestInvHolds, DigestInvSuffices, PTL
===============================================================================
